------------------------------ MODULE MergeSort ------------------------------
(***************************************************************************)
(* Merge sort by processes on shared memory, by threads and by calls       *)
(* (q1.c).  A worker sorts one range of the array: it makes a worker for   *)
(* each half, or sorts the half itself when that fails, waits for both and *)
(* merges.  A worker only touches its range, so sorting and merging are    *)
(* one step each; what matters is that they come in the right order.       *)
(*                                                                         *)
(* Waiting for a process that was not made is waitpid(-1), which takes any *)
(* child; joining a thread that was not made uses a handle that was never  *)
(* set, which fails or brings the program down.                            *)
(***************************************************************************)
EXTENDS Integers, Sequences, FiniteSets

CONSTANTS
    N,              \* elements
    Values,
    Cutoff,         \* the 5 below which a range is sorted by selection
    MaxLevel        \* the 3 beyond which no threads are made

ASSUME MergeSortAssumption ==
    /\ N \in Nat \ {0} /\ Cutoff \in Nat \ {0, 1} /\ MaxLevel \in Nat
    /\ Values \subseteq Int

Index == 0..(N - 1)
Ranges == {w \in Index \X Index : w[1] <= w[2]}
Whole == <<0, N - 1>>
Middle(w) == (w[1] + w[2]) \div 2
Half(w, side) == IF side = "left" THEN <<w[1], Middle(w)>>
                 ELSE <<Middle(w) + 1, w[2]>>
IsSmall(w) == w[2] - w[1] + 1 < Cutoff

VARIABLES
    how,            \* which of the three sorts runs, or "none"
    a, arr,         \* the input, and the copy that is sorted
    worker,         \* [at, level] of the worker of a range
    forked,         \* the halves a worker made workers for, and waits for
    crashed

sortVars == <<how, a, arr, worker, forked, crashed>>

NoWorker == [at |-> "none", level |-> 0]

SortInit ==
    /\ how = "none"
    /\ a = [i \in Index |-> 0] /\ arr = a
    /\ worker = [w \in Ranges |-> NoWorker]
    /\ forked = [w \in Ranges |-> {}]
    /\ crashed = FALSE

-----------------------------------------------------------------------------
(* Sorting a range in place.                                               *)

\* Where selectionSort() finds the least element of i..r: the first of them.
MinAt(x, i, r) ==
    CHOOSE k \in i..r : /\ \A j \in i..r : x[k] <= x[j]
                        /\ \A j \in i..(k - 1) : x[k] < x[j]

SelectionSort(x, w) ==
    LET upTo[i \in (w[1] - 1)..w[2]] ==
            IF i < w[1] THEN x
            ELSE LET y == upTo[i - 1]
                     min == MinAt(y, i, w[2])
                 IN  [y EXCEPT ![i] = y[min], ![min] = y[i]]
    IN  upTo[w[2]]

\* Whether merge() takes its next element from the left half, when f and s
\* are the next of each.
TakesLeft(x, w, f, s) ==
    f <= Middle(w) /\ (s > w[2] \/ x[f] < x[s])

Merge(x, w) ==
    LET at[c \in (w[1] - 1)..w[2]] ==      \* after the element c is set
            IF c < w[1] THEN [f |-> w[1], s |-> Middle(w) + 1, y |-> x]
            ELSE LET p == at[c - 1] IN
                 IF TakesLeft(x, w, p.f, p.s)
                 THEN [p EXCEPT !.f = @ + 1, !.y[c] = x[p.f]]
                 ELSE [p EXCEPT !.s = @ + 1, !.y[c] = x[p.s]]
    IN  at[w[2]].y

\* mergeSort(), on the ranges inside w from the shortest on.
Inside(w) == {v \in Ranges : v[1] >= w[1] /\ v[2] <= w[2]}
Sequentially(x, w) ==
    LET sorted[v \in Inside(w)] ==          \* x with the range v sorted
            IF IsSmall(v) THEN SelectionSort(x, v)
            ELSE LET L == sorted[Half(v, "left")]
                     R == sorted[Half(v, "right")]
                 IN  Merge([i \in Index |-> IF i <= Middle(v) THEN L[i]
                                            ELSE R[i]], v)
    IN  sorted[w]

-----------------------------------------------------------------------------
\* main() and the run functions, which sort a copy of the input.
Run(mode, x) ==
    /\ how = "none"
    /\ how' = mode
    /\ a' = x /\ arr' = x
    /\ worker' = [worker EXCEPT ![Whole] = [at |-> "start", level |-> 0]]
    /\ UNCHANGED <<forked, crashed>>

\* The places of a worker after start: its halves are made and awaited in
\* turn.
After(side) == IF side = "left" THEN "right" ELSE "join"

SortSmall(w) ==
    /\ worker[w].at = "start" /\ (IsSmall(w) \/ how = "normal")
    /\ arr' = Sequentially(arr, w)
    /\ worker' = [worker EXCEPT ![w].at = "done"]
    /\ UNCHANGED <<how, a, forked, crashed>>

Split(w) ==
    /\ worker[w].at = "start" /\ ~IsSmall(w) /\ how # "normal"
    /\ worker' = [worker EXCEPT ![w].at = "left"]
    /\ UNCHANGED <<how, a, arr, forked, crashed>>

MayMake(w) == how = "process" \/ worker[w].level <= MaxLevel

\* fork() or pthread_create() of the worker for one half.
MakeHalf(w, side) ==
    /\ worker[w].at = side /\ MayMake(w)
    /\ worker' = [worker EXCEPT ![w].at = After(side),
                    ![Half(w, side)] = [at |-> "start",
                                        level |-> worker[w].level + 1]]
    /\ forked' = [forked EXCEPT ![w] = @ \cup {side}]
    /\ UNCHANGED <<how, a, arr, crashed>>

\* It fails, or is not tried: the worker sorts the half.
SortHalf(w, side) ==
    /\ worker[w].at = side
    /\ arr' = Sequentially(arr, Half(w, side))
    /\ worker' = [worker EXCEPT ![w].at = After(side)]
    /\ UNCHANGED <<how, a, forked, crashed>>

\* Mutant: the parent goes on as soon as one child is done.
OneDone(w) ==
    forked[w] = {} \/ \E side \in forked[w] : worker[Half(w, side)].at = "done"

\* Both waits are over: waitpid(-1), in place of a child that was not made,
\* takes the other child, whose own wait then fails, or finds none.
BothDone(w) == \A side \in forked[w] : worker[Half(w, side)].at = "done"

JoinAndMerge(w) ==
    /\ worker[w].at = "join" /\ BothDone(w)
    /\ arr' = Merge(arr, w)
    /\ worker' = [worker EXCEPT ![w].at = "done"]
    /\ forked' = [forked EXCEPT ![w] = {}]
    /\ UNCHANGED <<how, a, crashed>>

\* pthread_join() of a handle that was never set.
JoinUnset(w) ==
    /\ worker[w].at = "join" /\ how = "thread" /\ worker[w].level <= MaxLevel
    /\ forked[w] # {"left", "right"}
    /\ crashed' = TRUE
    /\ UNCHANGED <<how, a, arr, worker, forked>>

SortNext ==
    /\ ~crashed
    /\ \/ \E mode \in {"process", "thread", "normal"}, x \in [Index -> Values] :
            Run(mode, x)
       \/ \E w \in Ranges :
            \/ SortSmall(w) \/ Split(w) \/ JoinAndMerge(w) \/ JoinUnset(w)
            \/ \E side \in {"left", "right"} :
                    MakeHalf(w, side) \/ SortHalf(w, side)

-----------------------------------------------------------------------------
\* When the sort returns, the array is the input in order, however the
\* workers of the halves were interleaved and whichever of them could not be
\* made.
SortedAtEnd ==
    worker[Whole].at = "done" =>
        /\ \A i, j \in Index : i < j => arr[i] <= arr[j]
        /\ \A v \in Values : Cardinality({i \in Index : arr[i] = v})
                             = Cardinality({i \in Index : a[i] = v})
=============================================================================

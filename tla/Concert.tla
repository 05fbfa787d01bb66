------------------------------- MODULE Concert -------------------------------
(***************************************************************************)
(* Musical Mayhem (q3.c): musicians wait for a stage of the kind their     *)
(* instrument needs, for a limited time; singers take a stage or join a    *)
(* performance that has no singer yet; who has performed collects a        *)
(* t-shirt from one of the coordinators.                                   *)
(*                                                                         *)
(* Grain.  Everything but the t-shirts happens under stageLock: a step is  *)
(* what a thread does from taking the lock (or getting it back inside      *)
(* pthread_cond_timedwait) to giving it up.  A timed wait ends in two      *)
(* steps: a signal or the clock takes the thread out of the waiters, and   *)
(* later it gets the lock.  A signal wakes one waiter, if there is one;    *)
(* spurious wakeups are left out.                                          *)
(***************************************************************************)
EXTENDS Integers, Sequences, FiniteSets

CONSTANTS
    Acoustic, Electric, Either,     \* musicians by the stages they can use
    Singers,
    NumAcoustic, NumElectric,       \* stages
    CordCount,                      \* coordinators
    NoName

Musicians == Acoustic \cup Electric \cup Either \cup Singers
Kinds == {"acoustic", "electric"}
Num(k) == IF k = "acoustic" THEN NumAcoustic ELSE NumElectric

ASSUME ConcertAssumption ==
    /\ NumAcoustic \in Nat
    /\ NumElectric \in Nat
    /\ CordCount \in Nat \ {0}
    /\ NoName \notin Musicians
    /\ Acoustic \cap (Electric \cup Either \cup Singers) = {}
    /\ Electric \cap (Either \cup Singers) = {}
    /\ Either \cap Singers = {}

VARIABLES
    pc,
    free,                   \* aStage and eStage
    stageNo,                \* stageNoA and stageNoE: which stages are taken
    stage,                  \* the stage of a thread: <<kind, number>>
    performanceNoSigner,
    singersQueue, qReadPos, \* the names written, and how many were read
    with,                   \* the singer who joined the performance of m
    tShirtGuys,             \* the semaphore
    shirts                  \* t-shirts a thread has still to collect

stageVars == <<free, stageNo, stage>>
singerVars == <<performanceNoSigner, singersQueue, qReadPos, with>>
concertVars == <<pc, stageVars, singerVars, tShirtGuys, shirts>>

NoStage == <<"acoustic", 0>>

\* main()
ConcertInit ==
    /\ pc = [m \in Musicians |-> "arrive"]
    /\ free = [k \in Kinds |-> Num(k)]
    /\ stageNo = [k \in Kinds |-> [n \in 1..Num(k) |-> FALSE]]
    /\ stage = [m \in Musicians |-> NoStage]
    /\ performanceNoSigner = 0
    /\ singersQueue = <<>>
    /\ qReadPos = 0
    /\ with = [m \in Musicians |-> NoName]
    /\ tShirtGuys = CordCount
    /\ shirts = [m \in Musicians |-> 0]

-----------------------------------------------------------------------------
(* Condition variables: noAStage, noEStage, anyStage and stageOrPerf have  *)
(* the waiters of one group, anySinger those who perform alone.            *)

Waiters(S) == {m \in S : pc[m] = "wait"}

\* The sets of threads that condSignal() may wake, of those that wait.
CondSignal(S) == IF S = {} THEN {{}} ELSE {{m} : m \in S}

\* The places f after the threads of W were taken out of their waits.
Awake(f, W) ==
    [m \in Musicians |->
        IF m \notin W THEN f[m]
        ELSE IF f[m] = "perform" THEN "called" ELSE "signalled"]

\* The clock ends a timed wait: for a stage, or of a performance alone.
Timeout(m) ==
    /\ pc[m] \in {"wait", "perform"}
    /\ pc' = [pc EXCEPT ![m] = IF @ = "wait" THEN "expired" ELSE "overtime"]
    /\ UNCHANGED <<stageVars, singerVars, tShirtGuys, shirts>>

-----------------------------------------------------------------------------
(* Waiting for a stage.                                                    *)

\* m is in the loop that waits for a stage, with the lock.
Looking(m) == pc[m] \in {"arrive", "signalled"}

\* The stages m can use that are free now.
Vacant(m) ==
    IF m \in Acoustic THEN free["acoustic"]
    ELSE IF m \in Electric THEN free["electric"]
    ELSE free["electric"] + free["acoustic"]

\* The kinds performanceHandler() may be called with.
StagesFor(m) ==
    IF m \in Acoustic THEN {"acoustic"}
    ELSE IF m \in Electric THEN {"electric"}
    ELSE IF free["electric"] > 0 /\ free["acoustic"] > 0 THEN Kinds
    ELSE IF free["electric"] > 0 THEN {"electric"} ELSE {"acoustic"}

\* The loop condition of performAcoustic() and the others; a singer also looks
\* for performances.
WaitForStage(m) ==
    /\ Looking(m)
    /\ Vacant(m) <= 0
    /\ m \in Singers => performanceNoSigner <= 0
    /\ pc' = [pc EXCEPT ![m] = "wait"]
    /\ UNCHANGED <<stageVars, singerVars, tShirtGuys, shirts>>

\* "left due to impatience"
Impatient(m) ==
    /\ pc[m] = "expired"
    /\ pc' = [pc EXCEPT ![m] = "done"]
    /\ UNCHANGED <<stageVars, singerVars, tShirtGuys, shirts>>

-----------------------------------------------------------------------------
(* Performing.                                                             *)

\* The first stage of the kind that is not taken, or -1.
GetStageNo(k) ==
    LET open == {n \in 1..Num(k) : ~stageNo[k][n]}
    IN  IF open = {} THEN -1
        ELSE CHOOSE n \in open : \A i \in open : n <= i

\* performanceHandler() up to the wait in perform().
GoOnStage(m, k) ==
    LET n == GetStageNo(k)
    IN  /\ Looking(m)
        /\ Vacant(m) > 0
        /\ k \in StagesFor(m)
        /\ stageNo' = [stageNo EXCEPT ![k] =
                            [i \in 1..Num(k) |-> @[i] \/ i = n]]
        /\ stage' = [stage EXCEPT ![m] = <<k, n>>]
        /\ free' = [free EXCEPT ![k] = @ - 1]
        /\ performanceNoSigner' = performanceNoSigner + 1
        /\ \E W \in CondSignal(Waiters(Singers)) :
                pc' = Awake([pc EXCEPT ![m] = "perform"], W)
        /\ UNCHANGED <<singersQueue, qReadPos, with, tShirtGuys, shirts>>

\* joinAMusician(): the name is queued, one performer is signalled, and the
\* singer's thread is over.
JoinAMusician(m) ==
    /\ Looking(m)
    /\ m \in Singers
    /\ performanceNoSigner > 0
    /\ singersQueue' = Append(singersQueue, m)
    /\ \E W \in CondSignal({n \in Musicians : pc[n] = "perform"}) :
            pc' = Awake([pc EXCEPT ![m] = "done"], W)
    /\ UNCHANGED <<stageVars, performanceNoSigner, qReadPos, with, tShirtGuys,
                   shirts>>

\* Mutant: any return of the timed wait is taken for a singer.
JoinedAlways(m) ==
    /\ pc[m] \in {"called", "overtime"}
    /\ pc' = [pc EXCEPT ![m] = "duet"]
    /\ with' = [with EXCEPT ![m] = IF qReadPos < Len(singersQueue)
                                   THEN singersQueue[qReadPos + 1] ELSE NoName]
    /\ qReadPos' = qReadPos + 1
    /\ performanceNoSigner' = performanceNoSigner - 1
    /\ UNCHANGED <<stageVars, singersQueue, tShirtGuys, shirts>>

\* perform() was signalled: the next name in the queue is the singer's.
Joined(m) ==
    /\ pc[m] = "called"
    /\ pc' = [pc EXCEPT ![m] = "duet"]
    /\ with' = [with EXCEPT ![m] = IF qReadPos < Len(singersQueue)
                                   THEN singersQueue[qReadPos + 1] ELSE NoName]
    /\ qReadPos' = qReadPos + 1
    /\ performanceNoSigner' = performanceNoSigner - 1
    /\ UNCHANGED <<stageVars, singersQueue, tShirtGuys, shirts>>

\* "if (!singer) performanceNoSigner--"
LessAlone(m) ==
    IF pc[m] = "overtime" THEN performanceNoSigner - 1
    ELSE performanceNoSigner

\* Mutant: only those who can use any stage are told.
ToldAny(k) == {}

\* The group that condSignal(&noEStage) or condSignal(&noAStage) is for.
Told(k) == IF k = "acoustic" THEN Acoustic ELSE Electric

\* performanceHandler() after perform(): the stage is given back and one waiter
\* of each condition variable concerned is signalled.
EndPerformance(m) ==
    LET k == stage[m][1]
    IN  /\ pc[m] \in {"overtime", "duet"}
        /\ stageNo' = [stageNo EXCEPT ![k] =
                            [i \in 1..Num(k) |-> @[i] /\ i # stage[m][2]]]
        /\ stage' = [stage EXCEPT ![m] = NoStage]
        /\ free' = [free EXCEPT ![k] = @ + 1]
        /\ performanceNoSigner' = LessAlone(m)
        /\ shirts' = [shirts EXCEPT ![m] = IF pc[m] = "duet" THEN 2 ELSE 1]
        /\ \E U \in CondSignal(Waiters(Told(k))),
              V \in CondSignal(Waiters(Either)),
              W \in CondSignal(Waiters(Singers)) :
                pc' = Awake([pc EXCEPT ![m] = "tshirt"], U \cup V \cup W)
        /\ UNCHANGED <<singersQueue, qReadPos, with, tShirtGuys>>

-----------------------------------------------------------------------------
(* collectTShirt(), once more for the singer who joined.                   *)

CollectTShirt(m) ==
    /\ pc[m] = "tshirt"
    /\ tShirtGuys > 0
    /\ tShirtGuys' = tShirtGuys - 1
    /\ pc' = [pc EXCEPT ![m] = "collect"]
    /\ UNCHANGED <<stageVars, singerVars, shirts>>

\* Mutant: the coordinator is given back only by the last t-shirt.
GotTShirtLast(m) ==
    /\ pc[m] = "collect"
    /\ tShirtGuys' = IF shirts[m] = 1 THEN tShirtGuys + 1 ELSE tShirtGuys
    /\ shirts' = [shirts EXCEPT ![m] = @ - 1]
    /\ pc' = [pc EXCEPT ![m] = IF shirts[m] = 1 THEN "done" ELSE "tshirt"]
    /\ UNCHANGED <<stageVars, singerVars>>

GotTShirt(m) ==
    /\ pc[m] = "collect"
    /\ tShirtGuys' = tShirtGuys + 1
    /\ shirts' = [shirts EXCEPT ![m] = @ - 1]
    /\ pc' = [pc EXCEPT ![m] = IF shirts[m] = 1 THEN "done" ELSE "tshirt"]
    /\ UNCHANGED <<stageVars, singerVars>>

Musician(m) ==
    \/ Timeout(m) \/ WaitForStage(m) \/ Impatient(m)
    \/ \E k \in Kinds : GoOnStage(m, k)
    \/ JoinAMusician(m) \/ Joined(m) \/ EndPerformance(m)
    \/ CollectTShirt(m) \/ GotTShirt(m)

ConcertNext == \E m \in Musicians : Musician(m)

-----------------------------------------------------------------------------
OnStage == {m \in Musicians : pc[m] \in {"perform", "called", "overtime",
                                         "duet"}}

\* A performer has a stage of its own, which the array shows as taken, and the
\* counts the loops look at are those of the arrays.
StagesExclusive ==
    /\ \A k \in Kinds :
        free[k] = Cardinality({n \in 1..Num(k) : ~stageNo[k][n]})
    /\ \A m \in OnStage : stage[m][2] \in 1..Num(stage[m][1])
    /\ \A m \in OnStage : stageNo[stage[m][1]][stage[m][2]]
    /\ \A m, n \in OnStage : stage[m] = stage[n] => m = n

\* performanceNoSigner is the number of performances without a singer, by
\* whatever path each of them began and ended: nobody is invited to join a
\* performance that is over.  (A performer who has been signalled still
\* counts until it has the lock.)
PerformancesCounted ==
    performanceNoSigner = Cardinality({m \in OnStage : pc[m] # "duet"})

\* No wakeup is lost on the way to a stage: a musician waits next to a stage
\* it could use only while another waiter has been signalled and is about to
\* look.  Signals that reach somebody who cannot use the stage any more, and
\* timeouts, do not break the chain.  It says nothing of singers: one who
\* joins a performer already signalled uses up a wakeup meant for a stage.
StageOffered ==
    \A S \in {Acoustic, Electric, Either} :
        \A m \in Waiters(S) :
            Cardinality({n \in S : pc[n] = "signalled"}) >= Vacant(m)

\* The stages are handed on as they should be: one performer to a stage, and
\* none of them idle next to somebody who waits for it in vain.
NoIdleStage == StagesExclusive /\ StageOffered

\* A performer takes a name only if a singer has put one there, no singer
\* is handed to two performers, none sings while on a stage of its own, and the
\* performances that are open to singers are counted right.
SingersReal ==
    /\ PerformancesCounted
    /\ qReadPos <= Len(singersQueue)
    /\ \A m, n \in OnStage : pc[m] = "duet" => with[m] # n
    /\ \A m, n \in Musicians :
            with[m] = with[n] /\ with[m] # NoName => m = n

\* Everybody goes home: no thread waits for ever for a stage, for a
\* coordinator or for the lock, so main() gets to "Finished".
AllLeave == <>(\A m \in Musicians : pc[m] = "done")
=============================================================================

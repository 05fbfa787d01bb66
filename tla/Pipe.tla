-------------------------------- MODULE Pipe --------------------------------
(***************************************************************************)
(* A pipe (pipe.c) between processes that write and processes that read,   *)
(* with sleep(), wakeup() and kill() of proc.c taken apart into the steps  *)
(* between which another CPU can act: p->lock and ptable.lock are explicit. *)
(*                                                                         *)
(* Grain.  What a thread does while it holds p->lock is split at every     *)
(* byte and at every acquire of ptable.lock; sleep() is three steps.       *)
(* nread and nwrite are unsigned ints: they count modulo Modulus.          *)
(***************************************************************************)
EXTENDS Naturals, Sequences

CONSTANTS
    Writers, Readers,   \* processes holding the write end, the read end
    PIPESIZE,           \* 512 in the code
    Modulus,            \* 2^32 in the code
    Bytes,              \* the values of a byte
    MaxN                \* bound on the n of a read or write call

Threads == Writers \cup Readers
Nobody == "nobody"

ASSUME PipeAssumption ==
    /\ Writers \cap Readers = {}
    /\ Nobody \notin Threads
    /\ PIPESIZE \in Nat \ {0}
    /\ Modulus \in Nat
    /\ Modulus > PIPESIZE
    /\ Modulus % PIPESIZE = 0
    /\ MaxN \in Nat

VARIABLES
    data,               \* p->data
    nread, nwrite,      \* p->nread, p->nwrite
    readopen,           \* p->readopen
    writeopen,          \* p->writeopen
    alloc,              \* the page of the pipe has not been kfree()d
    plock,              \* holder of p->lock
    ptlock,             \* holder of ptable.lock
    pc,                 \* where each thread is
    i, n,               \* locals of pipewrite() and piperead()
    killed,             \* p->killed of the thread
    open                \* the thread's file descriptor is open

vars == <<data, nread, nwrite, readopen, writeopen, alloc, plock, ptlock, pc,
          i, n, killed, open>>

\* "loop": the while loop, p->lock held.  "copy": piperead's for loop.
\* "wake": pipewrite, before wakeup(&p->nread).  "sleep1".."sleep3": in
\* sleep(), before acquire(&ptable.lock), before release(lk), before the
\* state is set.  "asleep": SLEEPING.  "woken": RUNNABLE again, before
\* acquire(lk).  "done": before the last wakeup() of the call.
Places == {"user", "acquire", "loop", "copy", "wake", "sleep1", "sleep2",
           "sleep3", "asleep", "woken", "done", "close", "gone"}

TypeOK ==
    /\ data \in [0..(PIPESIZE - 1) -> Bytes]
    /\ nread \in 0..(Modulus - 1)
    /\ nwrite \in 0..(Modulus - 1)
    /\ readopen \in BOOLEAN
    /\ writeopen \in BOOLEAN
    /\ alloc \in BOOLEAN
    /\ plock \in Threads \cup {Nobody}
    /\ ptlock \in Threads \cup {Nobody}
    /\ pc \in [Threads -> Places]
    /\ i \in [Threads -> 0..MaxN]
    /\ n \in [Threads -> 0..MaxN]
    /\ killed \in [Threads -> BOOLEAN]
    /\ open \in [Threads -> BOOLEAN]

\* pipealloc(), and the two ends handed to the processes by fork().
Init ==
    /\ data \in [0..(PIPESIZE - 1) -> Bytes]
    /\ nread = 0
    /\ nwrite = 0
    /\ readopen = TRUE
    /\ writeopen = TRUE
    /\ alloc = TRUE
    /\ plock = Nobody
    /\ ptlock = Nobody
    /\ pc = [t \in Threads |-> "user"]
    /\ i = [t \in Threads |-> 0]
    /\ n = [t \in Threads |-> 0]
    /\ killed = [t \in Threads |-> FALSE]
    /\ open = [t \in Threads |-> TRUE]

\* Mutant: a sum that does not wrap.
FullWide == nwrite = nread + PIPESIZE

Inc(x) == (x + 1) % Modulus
Full == nwrite = (nread + PIPESIZE) % Modulus
Empty == nread = nwrite

Goto(t, place) == pc' = [pc EXCEPT ![t] = place]

\* release(&p->lock) and return to user code; i and n go out of scope.
Return(t, places) ==
    /\ plock' = Nobody
    /\ pc' = [places EXCEPT ![t] = "user"]
    /\ i' = [i EXCEPT ![t] = 0]
    /\ n' = [n EXCEPT ![t] = 0]

\* The places after wakeup1() on the channel that the threads of S sleep on:
\* readers sleep on &p->nread, writers on &p->nwrite.
Woken(S) ==
    [t \in Threads |-> IF t \in S /\ pc[t] = "asleep" THEN "woken" ELSE pc[t]]

-----------------------------------------------------------------------------
\* read(fd, buf, k) or write(fd, buf, k) on an open descriptor.
Call(t, k) ==
    /\ pc[t] = "user"
    /\ open[t]
    /\ ~killed[t]
    /\ Goto(t, "acquire")
    /\ n' = [n EXCEPT ![t] = k]
    /\ UNCHANGED <<data, nread, nwrite, readopen, writeopen, alloc, plock,
                   ptlock, i, killed, open>>

\* acquire(&p->lock), at the top of a call or at the end of sleep().
AcquirePipe(t) ==
    /\ pc[t] \in {"acquire", "woken"}
    /\ plock = Nobody
    /\ plock' = t
    /\ Goto(t, "loop")
    /\ UNCHANGED <<data, nread, nwrite, readopen, writeopen, alloc, ptlock, i,
                   n, killed, open>>

\* pipewrite: one turn of the for loop, the pipe not being full.
WriteByte(t, b) ==
    /\ t \in Writers
    /\ pc[t] = "loop"
    /\ i[t] < n[t]
    /\ ~Full
    /\ data' = [data EXCEPT ![nwrite % PIPESIZE] = b]
    /\ nwrite' = Inc(nwrite)
    /\ i' = [i EXCEPT ![t] = @ + 1]
    /\ UNCHANGED <<nread, readopen, writeopen, alloc, plock, ptlock, pc, n,
                   killed, open>>

\* pipewrite: full, and nobody will read, or killed: release and return -1.
WriteFail(t) ==
    /\ t \in Writers
    /\ pc[t] = "loop"
    /\ i[t] < n[t]
    /\ Full
    /\ ~readopen \/ killed[t]
    /\ Return(t, pc)
    /\ UNCHANGED <<data, nread, nwrite, readopen, writeopen, alloc, ptlock,
                   killed, open>>

\* pipewrite: full; wakeup(&p->nread) comes before the sleep.
WriteFull(t) ==
    /\ t \in Writers
    /\ pc[t] = "loop"
    /\ i[t] < n[t]
    /\ Full
    /\ readopen
    /\ ~killed[t]
    /\ Goto(t, "wake")
    /\ UNCHANGED <<data, nread, nwrite, readopen, writeopen, alloc, plock,
                   ptlock, i, n, killed, open>>

WriteWake(t) ==
    /\ pc[t] = "wake"
    /\ ptlock = Nobody
    /\ pc' = [Woken(Readers) EXCEPT ![t] = "sleep1"]
    /\ UNCHANGED <<data, nread, nwrite, readopen, writeopen, alloc, plock,
                   ptlock, i, n, killed, open>>

WriteEnd(t) ==
    /\ t \in Writers
    /\ pc[t] = "loop"
    /\ i[t] = n[t]
    /\ Goto(t, "done")
    /\ UNCHANGED <<data, nread, nwrite, readopen, writeopen, alloc, plock,
                   ptlock, i, n, killed, open>>

\* piperead: empty and a writer is left: sleep, or return -1 when killed.
ReadEmpty(t) ==
    /\ t \in Readers
    /\ pc[t] = "loop"
    /\ Empty
    /\ writeopen
    /\ IF killed[t]
       THEN Return(t, pc)
       ELSE Goto(t, "sleep1") /\ UNCHANGED <<plock, i, n>>
    /\ UNCHANGED <<data, nread, nwrite, readopen, writeopen, alloc, ptlock,
                   killed, open>>

ReadStart(t) ==
    /\ t \in Readers
    /\ pc[t] = "loop"
    /\ ~(Empty /\ writeopen)
    /\ Goto(t, "copy")
    /\ UNCHANGED <<data, nread, nwrite, readopen, writeopen, alloc, plock,
                   ptlock, i, n, killed, open>>

\* piperead: one turn of the for loop.
ReadByte(t) ==
    /\ pc[t] = "copy"
    /\ i[t] < n[t]
    /\ ~Empty
    /\ nread' = Inc(nread)
    /\ i' = [i EXCEPT ![t] = @ + 1]
    /\ UNCHANGED <<data, nwrite, readopen, writeopen, alloc, plock, ptlock, pc,
                   n, killed, open>>

ReadEnd(t) ==
    /\ pc[t] = "copy"
    /\ i[t] = n[t] \/ Empty
    /\ Goto(t, "done")
    /\ UNCHANGED <<data, nread, nwrite, readopen, writeopen, alloc, plock,
                   ptlock, i, n, killed, open>>

\* The other side, woken at the end of a call.
Opposite(t) == IF t \in Writers THEN Readers ELSE Writers

\* The last wakeup() of a call, and release(&p->lock).
Done(t) ==
    /\ pc[t] = "done"
    /\ ptlock = Nobody
    /\ Return(t, Woken(Opposite(t)))
    /\ UNCHANGED <<data, nread, nwrite, readopen, writeopen, alloc, ptlock,
                   killed, open>>

-----------------------------------------------------------------------------
(* sleep(chan, &p->lock) and kill().                                       *)

\* Mutant: the pipe's lock is released without ptable.lock in hand.
SleepUnlocked(t) ==
    /\ pc[t] = "sleep1"
    /\ plock' = Nobody
    /\ Goto(t, "sleep3")
    /\ UNCHANGED <<data, nread, nwrite, readopen, writeopen, alloc, ptlock, i,
                   n, killed, open>>

\* "Must acquire ptable.lock in order to change p->state and then call sched."
SleepAcquire(t) ==
    /\ pc[t] = "sleep1"
    /\ ptlock = Nobody
    /\ ptlock' = t
    /\ Goto(t, "sleep2")
    /\ UNCHANGED <<data, nread, nwrite, readopen, writeopen, alloc, plock, i,
                   n, killed, open>>

SleepRelease(t) ==
    /\ pc[t] = "sleep2"
    /\ plock' = Nobody
    /\ Goto(t, "sleep3")
    /\ UNCHANGED <<data, nread, nwrite, readopen, writeopen, alloc, ptlock, i,
                   n, killed, open>>

\* chan and state are set; sched() takes the lock away with the thread.
SleepSwitch(t) ==
    /\ pc[t] = "sleep3"
    /\ ptlock' = Nobody
    /\ Goto(t, "asleep")
    /\ UNCHANGED <<data, nread, nwrite, readopen, writeopen, alloc, plock, i,
                   n, killed, open>>

Kill(t) ==
    /\ pc[t] # "gone"
    /\ ~killed[t]
    /\ ptlock = Nobody
    /\ killed' = [killed EXCEPT ![t] = TRUE]
    /\ pc' = Woken({t})
    /\ UNCHANGED <<data, nread, nwrite, readopen, writeopen, alloc, plock,
                   ptlock, i, n, open>>

-----------------------------------------------------------------------------
(* fileclose() and pipeclose().                                            *)

\* fileclose(): the last thread of its side to close goes on to pipeclose().
CloseFile(t) ==
    /\ pc[t] = "user"
    /\ open[t]
    /\ open' = [open EXCEPT ![t] = FALSE]
    /\ LET side == IF t \in Writers THEN Writers ELSE Readers
       IN  Goto(t, IF \E u \in side \ {t} : open[u] THEN "gone" ELSE "close")
    /\ UNCHANGED <<data, nread, nwrite, readopen, writeopen, alloc, plock,
                   ptlock, i, n, killed>>

\* Mutant: || for && in the test before kfree().
PipeCloseEither(t) ==
    /\ pc[t] = "close"
    /\ plock = Nobody
    /\ ptlock = Nobody
    /\ readopen' = (readopen /\ t \in Writers)
    /\ writeopen' = (writeopen /\ t \in Readers)
    /\ alloc' = (readopen' /\ writeopen')
    /\ pc' = [Woken(Opposite(t)) EXCEPT ![t] = "gone"]
    /\ UNCHANGED <<data, nread, nwrite, plock, ptlock, i, n, killed, open>>

\* pipeclose(), all of it under p->lock: the page goes when both ends are
\* closed.
PipeClose(t) ==
    /\ pc[t] = "close"
    /\ plock = Nobody
    /\ ptlock = Nobody
    /\ readopen' = (readopen /\ t \in Writers)
    /\ writeopen' = (writeopen /\ t \in Readers)
    /\ alloc' = (readopen' \/ writeopen')
    /\ pc' = [Woken(Opposite(t)) EXCEPT ![t] = "gone"]
    /\ UNCHANGED <<data, nread, nwrite, plock, ptlock, i, n, killed, open>>

\* Every process has closed its end: nothing is left to do.
Finished ==
    /\ \A t \in Threads : pc[t] = "gone"
    /\ UNCHANGED vars

-----------------------------------------------------------------------------
\* The steps a thread takes by itself once it is in the kernel.
Kernel(t) ==
    \/ AcquirePipe(t)
    \/ \E b \in Bytes : WriteByte(t, b)
    \/ WriteFail(t) \/ WriteFull(t) \/ WriteWake(t) \/ WriteEnd(t)
    \/ ReadEmpty(t) \/ ReadStart(t) \/ ReadByte(t) \/ ReadEnd(t)
    \/ Done(t)
    \/ SleepAcquire(t) \/ SleepRelease(t) \/ SleepSwitch(t)
    \/ PipeClose(t)

Next ==
    \/ \E t \in Threads :
        \/ Kernel(t)
        \/ \E k \in 0..MaxN : Call(t, k)
        \/ CloseFile(t)
        \/ Kill(t)
    \/ Finished

Spec == Init /\ [][Next]_vars

-----------------------------------------------------------------------------
\* The bytes between nread and nwrite, in order.
Held == (nwrite + Modulus - nread) % Modulus
Content == [k \in 1..Held |-> data[(nread + k - 1) % PIPESIZE]]

Queue == INSTANCE ByteQueue
            WITH q <- Content, Size <- PIPESIZE, Byte <- Bytes

\* The pipe is a bounded first-in first-out queue with two ends: nothing is
\* lost, duplicated or overtaken, also when the counters wrap around.
ImplementsQueue == Queue!QSpec

\* No wakeup is lost: when nobody is inside a critical section of the pipe, a
\* sleeping reader finds it empty with a writer left, and a sleeping writer
\* finds it full with a reader left.  One exception is in the code: a writer
\* that finds the pipe full and itself killed returns without the wakeup for
\* the bytes it has just written, and readers can sleep beside them.
NoLostWakeup ==
    plock = Nobody => \A t \in Threads : pc[t] = "asleep" =>
        /\ t \in Readers =>
                writeopen /\ (Empty \/ \E w \in Writers : killed[w])
        /\ t \in Writers => Full /\ readopen

\* Nobody is inside a call, or will still take p->lock, once the page of the
\* pipe has been given back.
NoUseAfterFree ==
    ~alloc => \A t \in Threads : pc[t] = "gone"
=============================================================================

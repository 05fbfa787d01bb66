-------------------------------- MODULE FCFS --------------------------------
(***************************************************************************)
(* First come first served (FCFS.c): scheduler() runs the RUNNABLE slot    *)
(* with the least ctime, the first in the table on a tie, once for each    *)
(* time it takes ptable.lock, and trap() never yields.  With it go the     *)
(* times the kernel keeps for waitx() and ps: ctime from allocproc(),      *)
(* etime from exit(), rtime and iotime from the timer interrupt, which is  *)
(* the same in the four policies.  Every step is a step of Proc.           *)
(***************************************************************************)
EXTENDS Proc

CONSTANTS
    TicksChan,      \* the channel &ticks
    MaxTicks        \* bound on the tick count of a behaviour

ASSUME FCFSAssumption == TicksChan \in Chans /\ MaxTicks \in Nat

VARIABLES
    ticks,                          \* the global tick count
    ctime, etime, rtime, iotime,    \* the times of the slots
    ran                             \* whether scheduler() is back from swtch()

times == <<ctime, etime, rtime, iotime>>
fcfsVars == <<vars, ticks, times, ran>>

FCFSInit ==
    /\ Init
    /\ ticks = 0
    /\ ctime = [p \in Slots |-> 0]
    /\ etime = [p \in Slots |-> 0]
    /\ rtime = [p \in Slots |-> 0]
    /\ iotime = [p \in Slots |-> 0]
    /\ ran = [c \in CPUs |-> FALSE]

Runnable == {p \in Slots : state[p] = "RUNNABLE"}

FCFSAcquire(c) ==
    /\ SchedAcquire(c)
    /\ ran' = [ran EXCEPT ![c] = FALSE]
    /\ UNCHANGED <<ticks, times>>

\* Mutant: minCTime is not lowered as the search goes on.
IsOldestLast(p) == \A q \in Runnable : q <= p

\* The slot the search for minCTime ends with: the first of the oldest.
IsOldest(p) ==
    \A q \in Runnable :
        \/ ctime[p] < ctime[q]
        \/ ctime[p] = ctime[q] /\ p <= q

FCFSPick(c, p) ==
    /\ ~ran[c]
    /\ IsOldest(p)
    /\ Pick(c, p)
    /\ ran' = [ran EXCEPT ![c] = TRUE]
    /\ UNCHANGED <<ticks, times>>

FCFSRelease(c) ==
    /\ ran[c] \/ Runnable = {}
    /\ SchedRelease(c)
    /\ UNCHANGED <<ticks, times, ran>>

-----------------------------------------------------------------------------
\* A function with 1 added at the slots of S.
Plus1(f, S) == [p \in Slots |-> IF p \in S THEN f[p] + 1 ELSE f[p]]

\* myproc() on CPU 0, if its state is s.  scheduler() clears c->proc.
MyProcIn(s) == {p \in Slots : exec[0] = p /\ state[p] = s}

\* The timer interrupt, on CPU 0: the count, the charge to the process it
\* found, and wakeup(&ticks).
Tick ==
    /\ ticks < MaxTicks
    /\ Wakeup(0, TicksChan)
    /\ ticks' = ticks + 1
    /\ rtime' = Plus1(rtime, MyProcIn("RUNNING"))
    /\ iotime' = Plus1(iotime, MyProcIn("SLEEPING"))
    /\ UNCHANGED <<ctime, etime, ran>>

\* Mutant: rtime goes on from the process the slot held before.
FreshRtimeNot(q) == rtime

\* "p->rtime = 0" in allocproc().
FreshRtime(q) == [rtime EXCEPT ![q] = 0]

\* allocproc(): every time starts afresh.
FCFSAllocStack(c, p) ==
    /\ AllocStack(c, p)
    /\ ctime' = [ctime EXCEPT ![np[p]] = ticks]
    /\ etime' = [etime EXCEPT ![np[p]] = 0]
    /\ rtime' = FreshRtime(np[p])
    /\ iotime' = [iotime EXCEPT ![np[p]] = 0]
    /\ UNCHANGED <<ticks, ran>>

FCFSExit(c, p) ==
    /\ Exit(c, p)
    /\ etime' = [etime EXCEPT ![p] = ticks]
    /\ UNCHANGED <<ticks, ctime, rtime, iotime, ran>>

\* waitx() clears the times of the slot it frees, wait() does not.
FCFSReap(c, p, q) ==
    /\ WaitReap(c, p, q)
    /\ \/ UNCHANGED times
       \/ /\ ctime' = [ctime EXCEPT ![q] = 0]
          /\ etime' = [etime EXCEPT ![q] = 0]
          /\ rtime' = [rtime EXCEPT ![q] = 0]
          /\ iotime' = [iotime EXCEPT ![q] = 0]
    /\ UNCHANGED <<ticks, ran>>

\* What is left of Proc.  The call of yield() in trap() is commented out.
FCFSOther(c, p) ==
    /\ \/ Switching(c, p)
       \/ \E ch \in Chans : Sleep(c, p, ch)
       \/ Trap(c, p)
       \/ \E q \in Slots : AllocProc(c, p, q)
       \/ AllocProcFull(c, p) \/ AllocStackFail(c, p)
       \/ ForkCopy(c, p) \/ ForkCopyFail(c, p) \/ ForkDone(c, p)
       \/ WaitAcquire(c, p) \/ WaitFail(c, p) \/ WaitSleep(c, p)
    /\ UNCHANGED <<ticks, times, ran>>

FCFSWakeup(c, ch) == Wakeup(c, ch) /\ UNCHANGED <<ticks, times, ran>>

FCFSNext ==
    \/ Tick
    \/ \E c \in CPUs :
        \/ FCFSAcquire(c) \/ FCFSRelease(c)
        \/ \E ch \in Chans \ {TicksChan} : FCFSWakeup(c, ch)
        \/ \E p \in Slots :
            \/ FCFSPick(c, p) \/ FCFSAllocStack(c, p) \/ FCFSExit(c, p)
            \/ FCFSOther(c, p)
            \/ \E q \in Slots : FCFSReap(c, p, q)

FCFSSpec == FCFSInit /\ [][FCFSNext]_fcfsVars

-----------------------------------------------------------------------------
\* First come, first served, on one CPU: a process is switched to only if no
\* RUNNABLE process was forked (got its pid) before it in an earlier tick.  It
\* needs ctime to grow with pid, although fork() takes the pid in one critical
\* section and the time after it, and slots are reused in any order.
FirstCome ==
    [][\A c \in CPUs, p \in Slots :
            exec[c] = 0 /\ exec'[c] = p =>
                \A q \in Runnable :
                    pid[q] < pid[p] => ctime[q] = ctime[p]]_fcfsVars

\* The wait time waitx() returns for a zombie.
Wtime(p) == etime[p] - rtime[p] - iotime[p] - ctime[p]

\* waitx() never reports a negative wait time: the run and I/O ticks of a
\* process fall between its ctime and its etime, also when its slot was used
\* before.
WaitTimeSane == \A p \in Slots : state[p] = "ZOMBIE" => Wtime(p) >= 0
=============================================================================

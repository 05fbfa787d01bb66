-------------------------------- MODULE MLFQ --------------------------------
(***************************************************************************)
(* The multi-level feedback queue (MLFQ.c): scheduler() runs the RUNNABLE  *)
(* slot of the highest non-empty level that entered it first, for 1 << level *)
(* ticks; a slot that used its slice up goes one level down, one that has  *)
(* waited more than 1 << (level + AgeShift) ticks one level up.  The fork, *)
(* sleep and wakeup code of proc.c stamps toe, the time of entry.          *)
(*                                                                         *)
(* cpu[c] is c->proc, which this scheduler() never clears: while CPU c is  *)
(* in its scheduler, myproc() is the process that ran there last.  With    *)
(* one CPU that process is never RUNNING and every step is a step of Proc. *)
(*                                                                         *)
(* The code has levels 0..4 and AgeShift 4.                                *)
(***************************************************************************)
EXTENDS Proc

CONSTANTS
    LastQ,          \* the lowest level
    AgeShift,       \* aging: 1 << (level + AgeShift) ticks
    TicksChan,      \* the channel &ticks
    MaxTicks        \* bound on the tick count of a behaviour

ASSUME MLFQAssumption ==
    /\ LastQ \in Nat
    /\ AgeShift \in Nat
    /\ TicksChan \in Chans
    /\ MaxTicks \in Nat

VARIABLES
    ticks,      \* the global tick count
    cur_q,      \* p->cur_q
    toe,        \* p->toe
    slice,      \* p->ticks, what is left of the time slice
    cpu,        \* cpus[c].proc
    due         \* CPU c is in trap(), past the tick, and has to yield

mlfqVars == <<vars, ticks, cur_q, toe, slice, cpu, due>>

MLFQInit ==
    /\ Init
    /\ ticks = 0
    /\ cur_q = [p \in Slots |-> 0]
    /\ toe = [p \in Slots |-> 0]
    /\ slice = [p \in Slots |-> 0]
    /\ cpu = [c \in CPUs |-> 0]
    /\ due = [c \in CPUs |-> FALSE]

-----------------------------------------------------------------------------
\* The RUNNABLE slots of level l.
Queue(l) == {p \in Slots : state[p] = "RUNNABLE" /\ cur_q[p] = l}

\* The search for min_toe: the first of the earliest.
IsFirstIn(p, l) ==
    /\ p \in Queue(l)
    /\ \A q \in Queue(l) : \/ toe[p] < toe[q]
                           \/ /\ toe[p] = toe[q]
                              /\ p <= q

MLFQPick(c, p) ==
    /\ \E l \in 0..LastQ :
        /\ \A k \in 0..(l - 1) : Queue(k) = {}
        /\ IsFirstIn(p, l)
        /\ slice' = [slice EXCEPT ![p] = 2^l]
    /\ Pick(c, p)
    /\ cpu' = [cpu EXCEPT ![c] = p]
    /\ UNCHANGED <<ticks, cur_q, toe, due>>

MLFQAcquire(c) ==
    /\ ~due[c]
    /\ SchedAcquire(c)
    /\ UNCHANGED <<ticks, cur_q, toe, slice, cpu, due>>

MLFQRelease(c) ==
    /\ \A l \in 0..LastQ : Queue(l) = {}
    /\ SchedRelease(c)
    /\ UNCHANGED <<ticks, cur_q, toe, slice, cpu, due>>

\* The level of the process that has come back, by what is left of its slice.
Demoted(p) ==
    IF slice[p] # 0 THEN cur_q[p]
    ELSE IF state[p] = "ZOMBIE" THEN -1
    ELSE IF cur_q[p] # LastQ THEN cur_q[p] + 1 ELSE cur_q[p]

\* Waiting longer than the level allows.
Aged(q, level) ==
    state[q] = "RUNNABLE" /\ ticks - toe[q] > 2^(level + AgeShift)

\* sched() back into scheduler(): demotion of p, then aging of every slot.
MLFQSwtch(c, p) ==
    LET level == [cur_q EXCEPT ![p] = Demoted(p)]
    IN  /\ Swtch(c, p)
        /\ cur_q' = [q \in Slots |->
                        IF Aged(q, level[q]) /\ level[q] > 0
                        THEN level[q] - 1 ELSE level[q]]
        /\ toe' = [q \in Slots |->
                        IF Aged(q, level[q]) THEN ticks ELSE toe[q]]
        /\ UNCHANGED <<ticks, slice, cpu, due>>

-----------------------------------------------------------------------------
(* trap() and the stamps of proc.c.                                        *)

\* The process the interrupt handler charges: myproc(), if it is RUNNING.
Charged(c) == {p \in Slots : cpu[c] = p /\ state[p] = "RUNNING"}

Stamp(S) == toe' = [p \in Slots |-> IF p \in S THEN ticks ELSE toe[p]]

\* Slots this step turns from SLEEPING to RUNNABLE.
JustWoken ==
    {p \in Slots : state[p] = "SLEEPING" /\ state'[p] = "RUNNABLE"}

\* Mutant: the thread is preempted one tick late.
IsDueLate(left) == left < 0

\* "only yield when done with given ticks"
IsDue(left) == left <= 0

\* The timer interrupt on CPU 0, the only one that counts.
Tick ==
    /\ ticks < MaxTicks
    /\ ~due[0]
    /\ ticks' = ticks + 1
    /\ slice' = [p \in Slots |-> IF p \in Charged(0) THEN slice[p] - 1
                                 ELSE slice[p]]
    /\ due' = [due EXCEPT ![0] = \E p \in Charged(0) : IsDue(slice[p] - 1)]
    /\ Wakeup(0, TicksChan)
    /\ toe' = [p \in Slots |-> IF p \in JustWoken THEN ticks' ELSE toe[p]]
    /\ UNCHANGED <<cur_q, cpu>>

\* A timer interrupt on another CPU only looks at the slice.
OtherTimer(c) ==
    /\ c # 0
    /\ ~due[c]
    /\ lock = NoCPU
    /\ \E p \in Charged(c) : IsDue(slice[p])
    /\ due' = [due EXCEPT ![c] = TRUE]
    /\ UNCHANGED <<vars, ticks, cur_q, toe, slice, cpu>>

\* trap() calls yield() for the thread it interrupted ...
MLFQYield(c, p) ==
    /\ due[c]
    /\ Yield(c, p)
    /\ Stamp({p})
    /\ due' = [due EXCEPT ![c] = FALSE]
    /\ UNCHANGED <<ticks, cur_q, slice, cpu>>

\* ... or exit(), if the thread was killed while in user code.
MLFQTrapExit(c, p) ==
    /\ TrapExit(c, p)
    /\ due' = [due EXCEPT ![c] = FALSE]
    /\ UNCHANGED <<ticks, cur_q, toe, slice, cpu>>

\* allocproc() puts the child in level 0.
MLFQAllocStack(c, p) ==
    /\ ~due[c]
    /\ AllocStack(c, p)
    /\ cur_q' = [cur_q EXCEPT ![np[p]] = 0]
    /\ Stamp({np[p]})
    /\ UNCHANGED <<ticks, slice, cpu, due>>

MLFQForkDone(c, p) ==
    /\ ~due[c]
    /\ ForkDone(c, p)
    /\ Stamp({np[p]})
    /\ UNCHANGED <<ticks, cur_q, slice, cpu, due>>

\* sleep() stamps the sleeper, wakeup1() those it wakes.
MLFQBlock(c, p) ==
    /\ ~due[c]
    /\ \/ (\E ch \in Chans : Sleep(c, p, ch)) /\ Stamp({p})
       \/ WaitSleep(c, p) /\ Stamp({p})
       \/ Exit(c, p) /\ Stamp(JustWoken)
    /\ UNCHANGED <<ticks, cur_q, slice, cpu, due>>

MLFQWakeup(c, ch) ==
    /\ Wakeup(c, ch)
    /\ Stamp(JustWoken)
    /\ UNCHANGED <<ticks, cur_q, slice, cpu, due>>

\* What is left of Proc: none of the fields is involved.  kill() does not
\* stamp the sleeper it wakes.
MLFQOther(c, p) ==
    /\ ~due[c]
    /\ \/ Resume(c, p) \/ ResumeSleep(c, p)
       \/ \E call \in {"fork", "exit", "wait"} : SysEnter(c, p, call)
       \/ Fault(c, p)
       \/ \E i \in 0..MaxPid, q \in Slots : Kill(c, p, i, q)
       \/ \E q \in Slots : AllocProc(c, p, q)
       \/ AllocProcFull(c, p) \/ AllocStackFail(c, p)
       \/ ForkCopy(c, p) \/ ForkCopyFail(c, p)
       \/ WaitAcquire(c, p) \/ WaitFail(c, p)
       \/ \E q \in Slots : WaitReap(c, p, q)
    /\ UNCHANGED <<ticks, cur_q, toe, slice, cpu, due>>

MLFQThread(c, p) ==
    \/ MLFQPick(c, p) \/ MLFQSwtch(c, p) \/ MLFQYield(c, p)
    \/ MLFQTrapExit(c, p) \/ MLFQAllocStack(c, p) \/ MLFQForkDone(c, p)
    \/ MLFQBlock(c, p) \/ MLFQOther(c, p)

MLFQNext ==
    \/ Tick
    \/ \E c \in CPUs :
        \/ MLFQAcquire(c) \/ MLFQRelease(c)
        \/ \E ch \in Chans \ {TicksChan} : MLFQWakeup(c, ch)
        \/ \E p \in Slots : MLFQThread(c, p)

MLFQSpec == MLFQInit /\ [][MLFQNext]_mlfqVars

-----------------------------------------------------------------------------
(* The machine with several CPUs, which this scheduler() does not survive. *)

\* trap() on a CPU whose scheduler was interrupted, for a process that runs on
\* another CPU: yield() marks it RUNNABLE and sched() re-enters the scheduler.
StaleYield(c, p) ==
    /\ due[c]
    /\ exec[c] = 0
    /\ cpu[c] = p
    /\ Acquire(c)
    /\ state' = [state EXCEPT ![p] = "RUNNABLE"]
    /\ Stamp({p})
    /\ due' = [due EXCEPT ![c] = FALSE]
    /\ UNCHANGED <<pid, parent, chan, killed, kstack, pc, sw, np, exec, nextpid,
                   ticks, cur_q, slice, cpu>>

SMPNext ==
    \/ MLFQNext
    \/ \E c \in CPUs : \/ OtherTimer(c)
                       \/ \E p \in Slots : StaleYield(c, p)

SMPSpec == MLFQInit /\ [][SMPNext]_mlfqVars

-----------------------------------------------------------------------------
\* A process that can run again is in one of the queues scheduler() looks
\* at: the -1 given to zombies does not leak into the next life of the slot.
InSomeQueue ==
    \A p \in Slots :
        state[p] \in {"RUNNABLE", "RUNNING", "SLEEPING"} => cur_q[p] \in 0..LastQ

\* "In trap only yield if the process has done its alloted ticks": a thread
\* never runs on with its slice used up, and never has more than its level
\* gives.  scheduler() tests slice = 0 for the demotion, so an overrun slice
\* would keep a process in its level for ever.  A killed process on its way
\* through exit() is not asked to yield.
SliceExact ==
    \A c \in CPUs, p \in Slots :
        exec[c] = p /\ sw[p] = "no" /\ pc[p] \notin {"exit", "panic"} =>
            /\ slice[p] <= 2^cur_q[p]
            /\ (slice[p] = 0 /\ due[c]) \/ slice[p] >= 1

\* struct cpu says of proc: "The process running on this cpu or null".  A trap
\* that is about to yield() for myproc() has interrupted that process.
YieldsOwn ==
    \A c \in CPUs : due[c] => exec[c] = cpu[c]
=============================================================================

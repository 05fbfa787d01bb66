--------------------------------- MODULE RR ---------------------------------
(***************************************************************************)
(* The default policy (RR.c): scheduler() walks the table once per         *)
(* acquisition of ptable.lock and runs every RUNNABLE slot it meets; trap() *)
(* yields on every timer interrupt.  Every step is a step of Proc; the new *)
(* variable is the loop variable p of scheduler(), which keeps its value   *)
(* while the thread it switched to is running.                             *)
(***************************************************************************)
EXTENDS Proc

VARIABLE scan       \* scan[c]: the next slot the scan on CPU c looks at

rrVars == <<vars, scan>>

RRInit == Init /\ scan = [c \in CPUs |-> 1]

RRAcquire(c) ==
    /\ SchedAcquire(c)
    /\ scan' = [scan EXCEPT ![c] = 1]

\* Mutant: the loop starts over after each process it has run.
ScanRestart(p) == 1

\* p++, when the thread of p has come back.
NextScan(p) == p + 1

\* Mutant: the scan is given up with RUNNABLE slots still ahead.
AtEndEarly(c) == scan[c] <= NPROC

\* No RUNNABLE slot is left in the rest of the scan.
AtEnd(c) == \A q \in Slots : scan[c] <= q => state[q] # "RUNNABLE"

\* The first RUNNABLE slot at or after the loop variable.
RRPick(c, p) ==
    /\ p >= scan[c]
    /\ \A q \in Slots : scan[c] <= q /\ q < p => state[q] # "RUNNABLE"
    /\ Pick(c, p)
    /\ scan' = [scan EXCEPT ![c] = NextScan(p)]

\* The loop has run off the end of the table.
RRRelease(c) ==
    /\ AtEnd(c)
    /\ SchedRelease(c)
    /\ UNCHANGED scan

RRScheduler(c) ==
    \/ RRAcquire(c)
    \/ \E p \in Slots : RRPick(c, p)
    \/ RRRelease(c)

RRThread(c, p) == Thread(c, p) /\ UNCHANGED scan

RRWakeup(c, ch) == Wakeup(c, ch) /\ UNCHANGED scan

RRNext ==
    \E c \in CPUs :
        \/ RRScheduler(c)
        \/ \E ch \in Chans : RRWakeup(c, ch)
        \/ \E p \in Slots : RRThread(c, p)

RRSpec == RRInit /\ [][RRNext]_rrVars

-----------------------------------------------------------------------------
(* Fairness.  A CPU in its scheduler, sched() or wait() runs with nothing to *)
(* wait for but the lock: weak fairness, meant for one CPU, where nobody   *)
(* else can hold it.  The timer interrupt is strongly fair: it stays       *)
(* pending in the APIC while the thread has interrupts off, and is taken   *)
(* at the next release.  Nothing is assumed of the programs: a thread need *)
(* not call the kernel, sleepers need not be woken.                        *)
RRFairness ==
    \A c \in CPUs :
        /\ WF_rrVars(RRScheduler(c))
        /\ \A p \in Slots :
            /\ WF_rrVars((Switching(c, p) \/ Wait(c, p)) /\ UNCHANGED scan)
            /\ SF_rrVars(Yield(c, p) /\ UNCHANGED scan)

FairSpec == RRSpec /\ RRFairness

\* No RUNNABLE process is passed over for ever: round robin, with a timer that
\* keeps ticking, runs it, unless init has brought the machine down.
NoStarvation ==
    \A p \in Slots :
        state[p] = "RUNNABLE" ~> state[p] = "RUNNING" \/ pc[InitProc] = "panic"
=============================================================================

--------------------------------- MODULE PBS --------------------------------
(***************************************************************************)
(* Priority scheduling (PBS.c): scheduler() computes the least priority of *)
(* the RUNNABLE slots, runs the slots that have it in table order, and     *)
(* computes it again after each.  set_priority() (proc.c) changes the      *)
(* priority of any process at any moment.  Every step is a step of Proc.   *)
(*                                                                         *)
(* The code's 101, which getMinPrio() starts from, is MinPrioStart; the    *)
(* 60 of allocproc() is DefaultPrio; Prios is the set of priorities the    *)
(* callers of set_priority() pass.                                         *)
(***************************************************************************)
EXTENDS Proc

CONSTANTS Prios, DefaultPrio, MinPrioStart

ASSUME PBSAssumption ==
    /\ Prios \subseteq Int
    /\ MinPrioStart \in Nat
    /\ DefaultPrio \in Nat
    /\ DefaultPrio <= MinPrioStart

VARIABLES
    priority,       \* p->priority
    scan,           \* scheduler()'s loop variable aProc
    currMinPrio     \* scheduler()'s local currMinPrio

pbsVars == <<vars, priority, scan, currMinPrio>>

PBSInit ==
    /\ Init
    /\ priority = [p \in Slots |-> IF p = InitProc THEN DefaultPrio ELSE 0]
    /\ scan = [c \in CPUs |-> 1]
    /\ currMinPrio = [c \in CPUs |-> 0]

\* getMinPrio(): starts from MinPrioStart, so a larger priority is not seen.
GetMinPrio ==
    LET ps == {priority[p] : p \in {q \in Slots : state[q] = "RUNNABLE"}}
                \cup {MinPrioStart}
    IN  CHOOSE m \in ps : \A n \in ps : m <= n

PBSAcquire(c) ==
    /\ SchedAcquire(c)
    /\ scan' = [scan EXCEPT ![c] = 1]
    /\ currMinPrio' = [currMinPrio EXCEPT ![c] = GetMinPrio]
    /\ UNCHANGED priority

Candidates(c) ==
    {p \in Slots : /\ p >= scan[c]
                   /\ state[p] = "RUNNABLE"
                   /\ priority[p] = currMinPrio[c]}

PBSPick(c, p) ==
    /\ p \in Candidates(c)
    /\ \A q \in Candidates(c) : p <= q
    /\ Pick(c, p)
    /\ scan' = [scan EXCEPT ![c] = p + 1]
    /\ UNCHANGED <<priority, currMinPrio>>

PBSRelease(c) ==
    /\ Candidates(c) = {}
    /\ SchedRelease(c)
    /\ UNCHANGED <<priority, scan, currMinPrio>>

\* Mutant: the minimum found before the process ran is kept.
PBSSwtchStale(c, p) ==
    /\ Swtch(c, p)
    /\ UNCHANGED <<priority, scan, currMinPrio>>

\* sched() back into scheduler(), which goes on to getMinPrio().
PBSSwtch(c, p) ==
    /\ Swtch(c, p)
    /\ currMinPrio' = [currMinPrio EXCEPT ![c] = GetMinPrio]
    /\ UNCHANGED <<priority, scan>>

\* set_priority(n, i): every slot with that pid, whatever its state, so that
\* pid 0 names all the slots never used or reaped.
SetPriority(c, p, n, i) ==
    /\ Runs(c, p)
    /\ pc[p] = "run"
    /\ ~killed[p]
    /\ lock = NoCPU
    /\ priority' = [q \in Slots |-> IF pid[q] = i THEN n ELSE priority[q]]
    /\ UNCHANGED <<vars, scan, currMinPrio>>

\* allocproc() gives the child the default priority, with its stack.
PBSAllocStack(c, p) ==
    /\ AllocStack(c, p)
    /\ priority' = [priority EXCEPT ![np[p]] = DefaultPrio]
    /\ UNCHANGED <<scan, currMinPrio>>

\* What is left of Proc, with none of PBS's fields involved.
PBSOther(c) ==
    /\ \/ \E ch \in Chans : Wakeup(c, ch)
       \/ \E p \in Slots :
            \/ Resume(c, p) \/ ResumeSleep(c, p) \/ Yield(c, p)
            \/ \E ch \in Chans : Sleep(c, p, ch)
            \/ Trap(c, p) \/ Exit(c, p) \/ Wait(c, p)
            \/ Fork(c, p) /\ pc[p] # "embryo"
            \/ AllocStackFail(c, p)
    /\ UNCHANGED <<priority, scan, currMinPrio>>

PBSNext ==
    \E c \in CPUs :
        \/ PBSAcquire(c)
        \/ PBSRelease(c)
        \/ PBSOther(c)
        \/ \E p \in Slots :
            \/ PBSPick(c, p) \/ PBSSwtch(c, p) \/ PBSAllocStack(c, p)
            \/ \E n \in Prios, i \in 0..MaxPid : SetPriority(c, p, n, i)

PBSSpec == PBSInit /\ [][PBSNext]_pbsVars

-----------------------------------------------------------------------------
\* "Run the process with the least priority": no process that is RUNNABLE when
\* another one is switched to has a smaller priority number, although the
\* minimum is computed when the last one comes back, and set_priority(),
\* wakeups and forks have changed the table since the scan began.
PicksLeast ==
    [][\A c \in CPUs, p \in Slots :
            exec[c] = 0 /\ exec'[c] = p =>
                \A q \in Slots :
                    state[q] = "RUNNABLE" => priority[p] <= priority[q]]_pbsVars

\* The CPU does not idle while a process is RUNNABLE: a scan that begins with
\* a RUNNABLE process in the table switches to one.  The code has an exception:
\* getMinPrio() starts from 101 and set_priority() checks nothing, so processes
\* of a larger priority are not seen and are run by nobody.
WorkConserving ==
    \A c \in CPUs :
        (/\ lock = c /\ exec[c] = 0 /\ scan[c] = 1
         /\ \E q \in Slots :
                state[q] = "RUNNABLE" /\ priority[q] <= MinPrioStart)
            => Candidates(c) # {}
=============================================================================

---------------------------- MODULE PolicyProofs ----------------------------
(***************************************************************************)
(* The two policies that MCPolicies runs.                                  *)
(*                                                                         *)
(* The kernel with the priority scheduler implements Proc, so that every   *)
(* theorem of ProcProofs holds in it, and it always runs a process of      *)
(* least priority: for every number of slots and CPUs and all priorities.  *)
(* The argument for the latter is that ptable.lock protects the minimum:   *)
(* while a scheduler holds the lock no process can become RUNNABLE and no  *)
(* RUNNABLE one can change its priority, although fork() writes the slot   *)
(* of its child without the lock.                                          *)
(*                                                                         *)
(* The multi-level feedback queue (MLFQ.c) on one CPU, the machine it      *)
(* works on: it implements Proc, every process that can run is in one of   *)
(* its queues, the time slices are exact, and the trap handler yields for  *)
(* the process it interrupted.  MLFQ.c has five levels, and the theorems   *)
(* are about up to five: what they need of 1 << level is computed for each. *)
(*                                                                         *)
(* What both rest on, the spin locks and the interrupt flag: a stack is    *)
(* cut between its steps at points that say which locks it holds and how   *)
(* far it is in acquire(), release() or sched(); its steps are a path      *)
(* through such points that ends without a lock, whatever handlers were    *)
(* put before it.  The CPU a stack is on owes its ncli to the point, its   *)
(* FL_IF to ncli and the handlers, and no two CPUs are at points that      *)
(* share a lock.                                                           *)
(***************************************************************************)
EXTENDS MCPolicies, ProcProofs, FiniteSetTheorems, SequenceTheorems

-----------------------------------------------------------------------------
(* The priority scheduler.                                                 *)

PBSTypes ==
    /\ priority \in [Slots -> Int]
    /\ currMinPrio \in [CPUs -> Int]
    /\ scan \in [CPUs -> Nat \ {0}]

\* A scheduler that holds the lock knows a lower bound of the priorities.
MinKnown ==
    \A c \in CPUs : lock = c /\ exec[c] = 0 =>
        \A q \in Slots : state[q] = "RUNNABLE" => currMinPrio[c] <= priority[q]

\* At the start of a scan that bound is the priority of a RUNNABLE process,
\* or the 101 of getMinPrio().
MinTaken ==
    \A c \in CPUs : lock = c /\ exec[c] = 0 /\ scan[c] = 1 =>
        \/ currMinPrio[c] = MinPrioStart
        \/ \E q \in Slots : state[q] = "RUNNABLE" /\ priority[q] = currMinPrio[c]

PBSInv == IInv /\ PBSTypes /\ MinKnown /\ MinTaken

-----------------------------------------------------------------------------
\* A finite nonempty set of integers has a least element: a smallest subset
\* without one would lose its last element.
LEMMA LeastExists ==
    ASSUME NEW S \in SUBSET Int, IsFiniteSet(S), S # {}
    PROVE  \E m \in S : \A n \in S : m <= n
<1> DEFINE HasLeast(U) == \E m \in U : \A n \in U : m <= n
           T == {U \in SUBSET S : U # {} /\ ~HasLeast(U)}
<1>1. SUFFICES ASSUME T # {}
               PROVE  FALSE
    OBVIOUS
<1>2. IsWellFoundedOn(StrictSubsetOrdering(S), SUBSET S)
    BY FS_StrictSubsetOrderingWellFounded, FS_FiniteSubsetsOfFinite
<1>3. PICK U \in T : \A V \in T : <<V, U>> \notin StrictSubsetOrdering(S)
  <2> HIDE DEF T
  <2>1. T \subseteq SUBSET S
    BY DEF T
  <2> QED
    BY <1>1, <1>2, <2>1, WFMin
<1>4. PICK x \in U : x \in Int
    OBVIOUS
<1>5. U \ {x} # {}
  <2>1. SUFFICES ASSUME U \ {x} = {}
                 PROVE  FALSE
    OBVIOUS
  <2>2. \A n \in U : n = x
    BY <2>1
  <2> QED
    BY <2>2, <1>4
<1>6. U \ {x} \notin T
    BY <1>3, <1>4 DEF StrictSubsetOrdering
<1>7. PICK m \in U \ {x} : \A n \in U \ {x} : m <= n
    BY <1>5, <1>6
<1>8. m \in Int /\ \A n \in U : n \in Int
    OBVIOUS
<1>9. HasLeast(U)
  <2>1. CASE x <= m
    BY <2>1, <1>4, <1>7, <1>8
  <2>2. CASE m <= x
    BY <2>2, <1>4, <1>7, <1>8
  <2> QED
    BY <2>1, <2>2, <1>4, <1>8
<1> QED
    BY <1>9

\* getMinPrio() returns an integer that no RUNNABLE process is below, and that
\* one has unless it is 101.
LEMMA GetMinPrioLeast ==
    ASSUME PBSTypes
    PROVE  /\ GetMinPrio \in Int
           /\ \A q \in Slots : state[q] = "RUNNABLE" =>
                    GetMinPrio <= priority[q]
           /\ \/ GetMinPrio = MinPrioStart
              \/ \E q \in Slots :
                    state[q] = "RUNNABLE" /\ priority[q] = GetMinPrio
<1> DEFINE R == {q \in Slots : state[q] = "RUNNABLE"}
           ps == {priority[p] : p \in R} \cup {MinPrioStart}
<1>1. ps \subseteq Int /\ ps # {}
    BY PBSAssumption DEF PBSTypes
<1>2. IsFiniteSet(ps)
  <2>1. IsFiniteSet(Slots)
    BY FS_Interval, ProcAssumption DEF Slots
  <2>2. IsFiniteSet(R)
    BY <2>1, FS_Subset
  <2>3. IsFiniteSet({priority[p] : p \in R})
    <3> DEFINE f == [p \in R |-> priority[p]]
    <3>1. f \in Surjection(R, {priority[p] : p \in R})
        BY DEF Surjection
    <3> QED
        BY <3>1, <2>2, FS_Surjection DEF ExistsSurjection
  <2> QED
    BY <2>3, FS_AddElement
<1>3. \E m \in ps : \A n \in ps : m <= n
    BY <1>1, <1>2, LeastExists
<1>4. GetMinPrio = CHOOSE m \in ps : \A n \in ps : m <= n
    BY DEF GetMinPrio
<1>5. GetMinPrio \in ps /\ \A n \in ps : GetMinPrio <= n
    BY <1>3, <1>4
<1> QED
    BY <1>1, <1>5

-----------------------------------------------------------------------------
\* Apart from the scheduler and from swtch() into it, no step puts a CPU into
\* its scheduler or takes it out, hands the lock to a CPU that is there, or
\* makes a process RUNNABLE, or not RUNNABLE, while such a CPU has it.
Harmless ==
    /\ exec' = exec
    /\ \A d \in CPUs : lock' = d /\ exec[d] = 0 =>
            /\ lock = d
            /\ \A q \in Slots : state'[q] = "RUNNABLE" <=> state[q] = "RUNNABLE"

\* Steps that take the lock and give it back, or give it back.
LEMMA ReleasedHarmless ==
    ASSUME NEW c \in CPUs, exec' = exec, lock' = NoCPU
    PROVE  Harmless
BY Consts DEF Harmless

\* Steps after which the CPU of a thread holds the lock.
LEMMA HeldHarmless ==
    ASSUME NEW c \in CPUs, exec' = exec, lock' = c, exec[c] # 0
    PROVE  Harmless
BY Consts DEF Harmless

\* Steps made without regard to the lock.
LEMMA UnlockedHarmless ==
    ASSUME exec' = exec, lock' = lock,
           \A q \in Slots : state'[q] = "RUNNABLE" <=> state[q] = "RUNNABLE"
    PROVE  Harmless
BY DEF Harmless

\* wakeup(), from a thread or an interrupt.
LEMMA WakeupHarmless ==
    ASSUME NEW c \in CPUs, NEW ch \in Chans, Wakeup(c, ch)
    PROVE  Harmless
BY ReleasedHarmless DEF Wakeup

\* System calls entered, kill() and faults.
LEMMA TrapHarmless ==
    ASSUME NEW c \in CPUs, NEW p \in Slots, Trap(c, p)
    PROVE  Harmless
<1>1. CASE \E call \in {"fork", "exit", "wait"} : SysEnter(c, p, call)
    BY <1>1, UnlockedHarmless DEF SysEnter
<1>2. CASE TrapExit(c, p)
    BY <1>2, UnlockedHarmless DEF TrapExit
<1>3. CASE Fault(c, p)
    BY <1>3, UnlockedHarmless DEF Fault
<1>4. CASE \E i \in 0..MaxPid, q \in Slots : Kill(c, p, i, q)
    BY <1>4, ReleasedHarmless DEF Kill
<1> QED
    BY <1>1, <1>2, <1>3, <1>4 DEF Trap

\* fork(): the steps on the child's slot without the lock do not make it
\* RUNNABLE, and it was not RUNNABLE before.
LEMMA ForkHarmless ==
    ASSUME IInv, NEW c \in CPUs, NEW p \in Slots, Fork(c, p)
    PROVE  Harmless
<1>1. CASE \E q \in Slots : AllocProc(c, p, q)
    BY <1>1, ReleasedHarmless DEF AllocProc
<1>2. CASE AllocProcFull(c, p)
    BY <1>2, ReleasedHarmless DEF AllocProcFull
<1>3. CASE AllocStack(c, p)
    BY <1>3, UnlockedHarmless DEF AllocStack
<1>4. CASE AllocStackFail(c, p)
  <2>1. np[p] \in Slots /\ state[np[p]] = "EMBRYO"
    BY <1>4, Consts
       DEF AllocStackFail, Building, IInv, ForkShape, TypeOK, Refs
  <2> QED
    BY <1>4, <2>1, UnlockedHarmless DEF AllocStackFail, IInv, TypeOK
<1>5. CASE ForkCopy(c, p)
    BY <1>5, UnlockedHarmless DEF ForkCopy
<1>6. CASE ForkCopyFail(c, p)
  <2>1. np[p] \in Slots /\ state[np[p]] = "EMBRYO"
    BY <1>6, Consts
       DEF ForkCopyFail, Building, IInv, ForkShape, TypeOK, Refs
  <2> QED
    BY <1>6, <2>1, UnlockedHarmless DEF ForkCopyFail, IInv, TypeOK
<1>7. CASE ForkDone(c, p)
    BY <1>7, ReleasedHarmless DEF ForkDone
<1> QED
    BY <1>1, <1>2, <1>3, <1>4, <1>5, <1>6, <1>7 DEF Fork

\* wait() and waitx().
LEMMA WaitHarmless ==
    ASSUME NEW c \in CPUs, NEW p \in Slots, Wait(c, p)
    PROVE  Harmless
<1>1. CASE WaitAcquire(c, p)
    BY <1>1, HeldHarmless, Consts DEF WaitAcquire, Runs, Acquire
<1>2. CASE \E q \in Slots : WaitReap(c, p, q)
    BY <1>2, ReleasedHarmless DEF WaitReap
<1>3. CASE WaitFail(c, p)
    BY <1>3, ReleasedHarmless DEF WaitFail
<1>4. CASE WaitSleep(c, p)
    BY <1>4, HeldHarmless, Consts DEF WaitSleep, RunsLocked
<1> QED
    BY <1>1, <1>2, <1>3, <1>4 DEF Wait

\* The threads' ways into and out of sched().
LEMMA SwitchHarmless ==
    ASSUME NEW c \in CPUs, NEW p \in Slots,
           \/ Resume(c, p) \/ ResumeSleep(c, p) \/ Yield(c, p)
           \/ \E ch \in Chans : Sleep(c, p, ch)
           \/ Exit(c, p)
    PROVE  Harmless
<1>1. CASE Resume(c, p)
    BY <1>1, ReleasedHarmless DEF Resume
<1>2. CASE ResumeSleep(c, p)
    BY <1>2, ReleasedHarmless, HeldHarmless, Consts DEF ResumeSleep
<1>3. CASE Yield(c, p)
    BY <1>3, HeldHarmless, Consts DEF Yield, Runs, Acquire
<1>4. CASE \E ch \in Chans : Sleep(c, p, ch)
    BY <1>4, HeldHarmless, Consts DEF Sleep, Runs, Acquire
<1>5. CASE Exit(c, p)
    BY <1>5, HeldHarmless, Consts DEF Exit, Runs, Acquire
<1> QED
    BY <1>1, <1>2, <1>3, <1>4, <1>5

\* A step of PBSOther is harmless, and a step of Proc.
LEMMA OtherHarmless ==
    ASSUME IInv, NEW c \in CPUs, PBSOther(c)
    PROVE  Harmless /\ Next
<1>1. CASE \E ch \in Chans : Wakeup(c, ch)
    BY <1>1, WakeupHarmless DEF Next
<1>2. ASSUME NEW p \in Slots,
             \/ Resume(c, p) \/ ResumeSleep(c, p) \/ Yield(c, p)
             \/ \E ch \in Chans : Sleep(c, p, ch)
             \/ Exit(c, p)
      PROVE  Harmless /\ Next
    BY <1>2, SwitchHarmless DEF Next, Thread, Switching
<1>3. ASSUME NEW p \in Slots, Trap(c, p) \/ Wait(c, p)
      PROVE  Harmless /\ Next
    BY <1>3, TrapHarmless, WaitHarmless DEF Next, Thread
<1>4. ASSUME NEW p \in Slots, Fork(c, p) \/ AllocStackFail(c, p)
      PROVE  Harmless /\ Next
    BY <1>4, ForkHarmless DEF Next, Thread, Fork
<1> QED
    BY <1>1, <1>2, <1>3, <1>4 DEF PBSOther

-----------------------------------------------------------------------------
\* Every step of the priority kernel is a step of Proc, or leaves its
\* variables alone (set_priority()).
LEMMA PBSStep == IInv /\ [PBSNext]_pbsVars => [Next]_vars
<1> SUFFICES ASSUME IInv, [PBSNext]_pbsVars
             PROVE  [Next]_vars
    OBVIOUS
<1>1. CASE UNCHANGED pbsVars
    BY <1>1 DEF pbsVars
<1>2. ASSUME NEW c \in CPUs, PBSAcquire(c) \/ PBSRelease(c)
      PROVE  Next
    BY <1>2 DEF PBSAcquire, PBSRelease, Next, Scheduler
<1>3. ASSUME NEW c \in CPUs, PBSOther(c)
      PROVE  Next
    BY <1>3, OtherHarmless
<1>4. ASSUME NEW c \in CPUs, NEW p \in Slots,
             PBSPick(c, p) \/ PBSSwtch(c, p) \/ PBSAllocStack(c, p)
      PROVE  Next
  <2>1. CASE PBSPick(c, p)
    BY <2>1 DEF PBSPick, Next, Scheduler
  <2>2. CASE PBSSwtch(c, p)
    BY <2>2 DEF PBSSwtch, Next, Thread, Switching
  <2>3. CASE PBSAllocStack(c, p)
    BY <2>3 DEF PBSAllocStack, Next, Thread, Fork
  <2> QED
    BY <1>4, <2>1, <2>2, <2>3
<1>5. ASSUME NEW c \in CPUs, NEW p \in Slots, NEW n \in Prios,
             NEW i \in 0..MaxPid, SetPriority(c, p, n, i)
      PROVE  UNCHANGED vars
    BY <1>5 DEF SetPriority
<1> QED
    BY <1>1, <1>2, <1>3, <1>4, <1>5 DEF PBSNext

-----------------------------------------------------------------------------
\* A step that leaves the priorities and the minimum alone and is harmless
\* preserves what the scheduler knows.
LEMMA HarmlessKnown ==
    ASSUME MinKnown, MinTaken, Harmless,
           UNCHANGED <<priority, scan, currMinPrio>>
    PROVE  MinKnown' /\ MinTaken'
BY DEF MinKnown, MinTaken, Harmless

\* scheduler() with the lock taken, and again when a process has come back:
\* the minimum is computed, from a table the step itself does not change.
LEMMA ComputedKnown ==
    ASSUME TypeOK, PBSTypes, NEW c \in CPUs,
           currMinPrio' = [currMinPrio EXCEPT ![c] = GetMinPrio],
           scan' \in [CPUs -> Nat \ {0}], lock' = c, UNCHANGED <<state, priority>>
    PROVE  PBSTypes' /\ MinKnown' /\ MinTaken'
<1>1. /\ GetMinPrio \in Int
      /\ \A q \in Slots : state[q] = "RUNNABLE" => GetMinPrio <= priority[q]
      /\ \/ GetMinPrio = MinPrioStart
         \/ \E q \in Slots : state[q] = "RUNNABLE" /\ priority[q] = GetMinPrio
    BY GetMinPrioLeast
<1>2. currMinPrio' \in [CPUs -> Int] /\ currMinPrio'[c] = GetMinPrio
    BY <1>1 DEF PBSTypes
<1> QED
    BY <1>1, <1>2 DEF PBSTypes, MinKnown, MinTaken

\* The initial table.
LEMMA PBSInitInv == PBSInit => PBSInv
<1> SUFFICES ASSUME PBSInit
             PROVE  PBSInv
    OBVIOUS
<1>1. IInv
    BY InitIInv DEF PBSInit
<1>2. PBSTypes
    BY PBSAssumption DEF PBSInit, PBSTypes
<1>3. MinKnown /\ MinTaken
    BY Consts DEF PBSInit, Init, MinKnown, MinTaken
<1> QED
    BY <1>1, <1>2, <1>3 DEF PBSInv

\* One step of the priority kernel.
LEMMA PBSNextInv == PBSInv /\ [PBSNext]_pbsVars => PBSInv'
<1> SUFFICES ASSUME PBSInv, [PBSNext]_pbsVars
             PROVE  PBSInv'
    OBVIOUS
<1> USE DEF PBSInv
<1>1. IInv'
    BY PBSStep, NextIInv
<1>2. TypeOK /\ ForkShape
    BY DEF IInv
<1>3. CASE UNCHANGED pbsVars
    BY <1>1, <1>3 DEF pbsVars, vars, PBSTypes, MinKnown, MinTaken
<1>4. ASSUME NEW c \in CPUs, PBSAcquire(c)
      PROVE  PBSInv'
  <2>1. scan' \in [CPUs -> Nat \ {0}]
    BY <1>4 DEF PBSAcquire, PBSTypes
  <2> QED
    BY <1>1, <1>2, <1>4, <2>1, ComputedKnown
       DEF PBSAcquire, SchedAcquire, Acquire
<1>5. ASSUME NEW c \in CPUs, PBSRelease(c)
      PROVE  PBSInv'
    BY <1>1, <1>5, Consts DEF PBSRelease, SchedRelease, PBSTypes, MinKnown, MinTaken
<1>6. ASSUME NEW c \in CPUs, PBSOther(c)
      PROVE  PBSInv'
    BY <1>1, <1>2, <1>6, OtherHarmless, HarmlessKnown DEF PBSOther, PBSTypes
<1>7. ASSUME NEW c \in CPUs, NEW p \in Slots, PBSPick(c, p)
      PROVE  PBSInv'
  <2>1. PBSTypes'
    BY <1>7 DEF PBSPick, PBSTypes, Slots
  <2>2. lock' = c /\ exec'[c] = p /\ p # 0
    BY <1>2, <1>7, Consts DEF PBSPick, Pick, TypeOK
  <2> QED
    BY <1>1, <2>1, <2>2 DEF MinKnown, MinTaken
<1>8. ASSUME NEW c \in CPUs, NEW p \in Slots, PBSSwtch(c, p)
      PROVE  PBSInv'
    BY <1>1, <1>2, <1>8, ComputedKnown DEF PBSSwtch, Swtch, PBSTypes
<1>9. ASSUME NEW c \in CPUs, NEW p \in Slots, PBSAllocStack(c, p)
      PROVE  PBSInv'
  <2>1. np[p] \in Slots /\ state[np[p]] = "EMBRYO"
    BY <1>2, <1>9, Consts
       DEF PBSAllocStack, AllocStack, Building, ForkShape, TypeOK, Refs
  <2>2. PBSTypes'
    BY <2>1, <1>9, PBSAssumption DEF PBSAllocStack, PBSTypes
  <2>3. \A q \in Slots : state[q] = "RUNNABLE" => priority'[q] = priority[q]
    BY <2>1, <1>9 DEF PBSAllocStack, PBSTypes
  <2>4. UNCHANGED <<state, exec, lock, scan, currMinPrio>>
    BY <1>9 DEF PBSAllocStack, AllocStack
  <2> QED
    BY <1>1, <2>2, <2>3, <2>4 DEF MinKnown, MinTaken
<1>10. ASSUME NEW c \in CPUs, NEW p \in Slots, NEW n \in Prios,
              NEW i \in 0..MaxPid, SetPriority(c, p, n, i)
       PROVE  PBSInv'
  <2>1. PBSTypes'
    BY <1>10, PBSAssumption DEF SetPriority, PBSTypes
  <2>2. lock' = NoCPU
    BY <1>10 DEF SetPriority, vars
  <2> QED
    BY <1>1, <2>1, <2>2, Consts DEF MinKnown, MinTaken
<1> QED
    BY <1>3, <1>4, <1>5, <1>6, <1>7, <1>8, <1>9, <1>10 DEF PBSNext

\* The invariant holds in every reachable state.
THEOREM PBSInvariance == PBSSpec => []PBSInv
BY PBSInitInv, PBSNextInv, PTL DEF PBSSpec

-----------------------------------------------------------------------------
\* The kernel built with SCHEDULER=PBS is a refinement of proc.c with the
\* choice of the next process left open: the theorems of ProcProofs (no two
\* CPUs on one stack, no exit missed, pids unique...) hold in it, whatever
\* set_priority() does.
THEOREM PBSImplementsProc == PBSSpec => Spec
<1>1. PBSInit => Init
    BY DEF PBSInit
<1>2. PBSInv /\ [PBSNext]_pbsVars => [Next]_vars
    BY PBSStep DEF PBSInv
<1> QED
    BY <1>1, <1>2, PBSInvariance, PTL DEF PBSSpec, Spec

\* The process scheduler() (PBS.c) switches to has the least priority number
\* of those that are RUNNABLE at that moment, for every number of CPUs,
\* however wakeups, forks and set_priority() are interleaved with its scan.
THEOREM PBSPicksLeast == PBSSpec => PicksLeast
<1> DEFINE Least == \A c \in CPUs, p \in Slots :
            exec[c] = 0 /\ exec'[c] = p =>
                \A q \in Slots :
                    state[q] = "RUNNABLE" => priority[p] <= priority[q]
<1>1. PBSInv /\ [PBSNext]_pbsVars => [Least]_pbsVars
  <2> SUFFICES ASSUME PBSInv, PBSNext,
                      NEW c \in CPUs, NEW p \in Slots,
                      exec[c] = 0, exec'[c] = p
               PROVE  \A q \in Slots :
                        state[q] = "RUNNABLE" => priority[p] <= priority[q]
    OBVIOUS
  <2>1. TypeOK /\ 0 \notin Slots
    BY Consts DEF PBSInv, IInv
  <2>2. ASSUME NEW d \in CPUs, exec' = exec
        PROVE  FALSE
    BY <2>1, <2>2
  <2>3. ASSUME NEW d \in CPUs, PBSAcquire(d) \/ PBSRelease(d)
        PROVE  exec' = exec
    BY <2>3 DEF PBSAcquire, PBSRelease, SchedAcquire, SchedRelease
  <2>4. ASSUME NEW d \in CPUs, PBSOther(d)
        PROVE  exec' = exec
    BY <2>4, OtherHarmless DEF Harmless, PBSInv
  <2>5. ASSUME NEW d \in CPUs, NEW r \in Slots,
               \/ PBSAllocStack(d, r)
               \/ \E n \in Prios, i \in 0..MaxPid : SetPriority(d, r, n, i)
        PROVE  exec' = exec
    BY <2>5 DEF PBSAllocStack, AllocStack, SetPriority, vars
  <2>6. ASSUME NEW d \in CPUs, NEW r \in Slots, PBSSwtch(d, r)
        PROVE  FALSE
    BY <2>1, <2>6 DEF PBSSwtch, Swtch, TypeOK
  <2>7. PICK d \in CPUs, r \in Slots : PBSPick(d, r)
    BY <2>2, <2>3, <2>4, <2>5, <2>6 DEF PBSNext
  <2>8. d = c /\ r = p
    BY <2>1, <2>7 DEF PBSPick, Pick, TypeOK
  <2>9. lock = c /\ priority[p] = currMinPrio[c]
    BY <2>7, <2>8 DEF PBSPick, Pick, Candidates
  <2> QED
    BY <2>9 DEF PBSInv, MinKnown
<1> QED
    BY <1>1, PBSInvariance, PTL DEF PBSSpec, PicksLeast

\* The minimum found at the start of a scan is still taken, so the scan has a
\* process to switch to.
LEMMA PBSInvWork == PBSInv => WorkConserving
<1> SUFFICES ASSUME PBSInv, NEW c \in CPUs,
                    lock = c, exec[c] = 0, scan[c] = 1,
                    NEW q \in Slots, state[q] = "RUNNABLE",
                    priority[q] <= MinPrioStart
             PROVE  Candidates(c) # {}
  BY DEF WorkConserving
<1>1. Slots \subseteq Nat \ {0}
  BY DEF Slots
<1>2. CASE currMinPrio[c] = MinPrioStart
  <2>1. MinPrioStart <= priority[q]
    BY <1>2 DEF PBSInv, MinKnown
  <2>2. priority[q] = currMinPrio[c]
    BY <1>2, <2>1, PBSAssumption DEF PBSInv, PBSTypes
  <2> QED
    BY <1>1, <2>2 DEF Candidates
<1>3. CASE \E r \in Slots : state[r] = "RUNNABLE" /\ priority[r] = currMinPrio[c]
  BY <1>1, <1>3 DEF Candidates
<1> QED
  BY <1>2, <1>3 DEF PBSInv, MinTaken

\* A scan of scheduler() (PBS.c) that begins with a RUNNABLE process in the
\* table, of a priority up to 101, finds one to switch to, on any number of
\* CPUs: the minimum it was given is still taken.
THEOREM PBSWorkConserving == PBSSpec => []WorkConserving
BY PBSInvariance, PBSInvWork, PTL

-----------------------------------------------------------------------------
(* The multi-level feedback queue.                                         *)

MLFQTypes ==
    /\ ticks \in Nat
    /\ cur_q \in [Slots -> Int]
    /\ toe \in [Slots -> Nat]
    /\ slice \in [Slots -> Int]
    /\ cpu \in [CPUs -> Refs]
    /\ due \in [CPUs -> BOOLEAN]

\* Slots with a level: those of live processes, and of a child from the second
\* half of allocproc() on.
Levelled(p) ==
    \/ state[p] \in {"RUNNABLE", "RUNNING", "SLEEPING"}
    \/ state[p] = "EMBRYO" /\ sw[p] = "forkret"

LevelsRight == \A p \in Slots : Levelled(p) => cur_q[p] \in 0..LastQ

\* A process on the CPU that is not leaving.
Sliced(p) == state[p] = "RUNNING" /\ pc[p] \notin {"exit", "panic"}

SlicesRight ==
    \A p \in Slots : Sliced(p) =>
        /\ 0 <= slice[p]
        /\ slice[p] <= 2^cur_q[p]
        /\ slice[p] = 0 => due[0]

\* c->proc is the thread that runs, and trap() has to yield only for a thread
\* that runs outside sched().
CpuOwn ==
    /\ exec[0] # 0 => cpu[0] = exec[0]
    /\ due[0] => exec[0] # 0 /\ sw[exec[0]] = "no"

MLFQInv == IInv /\ MLFQTypes /\ LevelsRight /\ SlicesRight /\ CpuOwn

\* The levels of the code.
FiveLevels == LastQ <= 4

-----------------------------------------------------------------------------
\* The only CPU is CPU 0, and a RUNNING process is on it.
LEMMA OneCPU ==
    ASSUME NCPU = 1
    PROVE  /\ CPUs = {0}
           /\ IInv => \A p \in Slots : state[p] = "RUNNING" => exec[0] = p
BY DEF CPUs, IInv, OnCPU

\* 1 << level is at least one tick.
LEMMA SlicePositive ==
    ASSUME FiveLevels, NEW l \in 0..LastQ
    PROVE  2^l \in Int /\ 2^l >= 1
<1>1. l \in {0, 1, 2, 3, 4}
    BY MLFQAssumption DEF FiveLevels
<1>2. 2^0 = 1 /\ 2^1 = 2 /\ 2^2 = 4 /\ 2^3 = 8 /\ 2^4 = 16
    OBVIOUS
<1>3. 2^l \in {1, 2, 4, 8, 16}
    BY <1>1, <1>2, Zenon
<1> QED
    BY <1>3

\* Every step of the feedback-queue kernel on one CPU is a step of Proc.
LEMMA MLFQStep == [MLFQNext]_mlfqVars => [Next]_vars
<1> SUFFICES ASSUME [MLFQNext]_mlfqVars
             PROVE  [Next]_vars
    OBVIOUS
<1>1. CASE UNCHANGED mlfqVars
    BY <1>1 DEF mlfqVars
<1>2. CASE Tick
  <2>1. 0 \in CPUs
    BY ProcAssumption DEF CPUs
  <2> QED
    BY <1>2, <2>1, MLFQAssumption DEF Tick, Next
<1>3. ASSUME NEW c \in CPUs, MLFQAcquire(c) \/ MLFQRelease(c)
      PROVE  Next
    BY <1>3 DEF MLFQAcquire, MLFQRelease, Next, Scheduler
<1>4. ASSUME NEW c \in CPUs, NEW ch \in Chans \ {TicksChan}, MLFQWakeup(c, ch)
      PROVE  Next
    BY <1>4 DEF MLFQWakeup, Next
<1>5. ASSUME NEW c \in CPUs, NEW p \in Slots, MLFQThread(c, p)
      PROVE  Next
  <2>1. CASE MLFQPick(c, p)
    BY <2>1 DEF MLFQPick, Next, Scheduler
  <2>2. CASE MLFQSwtch(c, p) \/ MLFQYield(c, p)
    BY <2>2 DEF MLFQSwtch, MLFQYield, Next, Thread, Switching
  <2>3. CASE MLFQTrapExit(c, p)
    BY <2>3 DEF MLFQTrapExit, Next, Thread, Trap
  <2>4. CASE MLFQAllocStack(c, p) \/ MLFQForkDone(c, p)
    BY <2>4 DEF MLFQAllocStack, MLFQForkDone, Next, Thread, Fork
  <2>5. CASE MLFQBlock(c, p)
    BY <2>5 DEF MLFQBlock, Next, Thread, Wait
  <2>6. CASE MLFQOther(c, p)
    BY <2>6 DEF MLFQOther, Next, Thread, Switching, Trap, Fork, Wait
  <2> QED
    BY <1>5, <2>1, <2>2, <2>3, <2>4, <2>5, <2>6 DEF MLFQThread
<1> QED
    BY <1>1, <1>2, <1>3, <1>4, <1>5 DEF MLFQNext

-----------------------------------------------------------------------------
\* What most steps do: no slot gets a level or a slice, and the CPU is not
\* given to another thread.
Quiet ==
    /\ \A q \in Slots : Levelled(q)' => Levelled(q)
    /\ \A q \in Slots : Sliced(q)' => Sliced(q)
    /\ exec' = exec
    /\ \A q \in Slots : exec[0] = q /\ sw[q] = "no" /\ due[0] => sw'[q] = "no"

\* A quiet step that leaves the fields of MLFQ alone, the stamps aside.
LEMMA QuietKept ==
    ASSUME NCPU = 1, MLFQInv, IInv', Quiet, UNCHANGED <<cur_q, slice, cpu, due>>,
           ticks' \in Nat, toe' \in [Slots -> Nat]
    PROVE  MLFQInv'
<1>1. MLFQTypes'
    BY DEF MLFQInv, MLFQTypes
<1>2. LevelsRight' /\ SlicesRight'
    BY DEF MLFQInv, LevelsRight, SlicesRight, Quiet
<1>3. exec[0] = 0 \/ exec[0] \in Slots
    BY OneCPU DEF MLFQInv, IInv, TypeOK, Refs
<1>4. CpuOwn'
    BY <1>3 DEF MLFQInv, CpuOwn, Quiet
<1> QED
    BY <1>1, <1>2, <1>4 DEF MLFQInv

\* Steps of threads that are not due to yield, and wakeup().
LEMMA OtherQuiet ==
    ASSUME NCPU = 1, IInv, NEW c \in CPUs, NEW p \in Slots, MLFQOther(c, p)
    PROVE  Quiet
<1> USE DEF IInv, TypeOK, Quiet, Levelled, Sliced
<1>1. ~due[0]
    BY OneCPU DEF MLFQOther
<1>2. CASE Resume(c, p) \/ ResumeSleep(c, p)
    BY <1>1, <1>2 DEF Resume, ResumeSleep
<1>3. CASE \E call \in {"fork", "exit", "wait"} : SysEnter(c, p, call)
    BY <1>1, <1>3 DEF SysEnter
<1>4. CASE Fault(c, p)
    BY <1>1, <1>4 DEF Fault
<1>5. ASSUME NEW i \in 0..MaxPid, NEW q \in Slots, Kill(c, p, i, q)
      PROVE  Quiet
    BY <1>1, <1>5 DEF Kill
<1>6. ASSUME NEW q \in Slots, AllocProc(c, p, q)
      PROVE  Quiet
    BY <1>1, <1>6 DEF AllocProc, SlotShape
<1>7. CASE AllocProcFull(c, p) \/ ForkCopy(c, p)
    BY <1>1, <1>7 DEF AllocProcFull, ForkCopy
<1>8. CASE AllocStackFail(c, p) \/ ForkCopyFail(c, p)
  <2>1. np[p] \in Slots /\ state[np[p]] = "EMBRYO"
    BY <1>8, Consts DEF AllocStackFail, ForkCopyFail, ForkShape, Building, Refs
  <2> QED
    BY <1>1, <1>8, <2>1 DEF AllocStackFail, ForkCopyFail
<1>9. CASE WaitAcquire(c, p) \/ WaitFail(c, p)
    BY <1>1, <1>9 DEF WaitAcquire, WaitFail
<1>10. ASSUME NEW q \in Slots, WaitReap(c, p, q)
       PROVE  Quiet
    BY <1>1, <1>10 DEF WaitReap
<1> QED
    BY <1>2, <1>3, <1>4, <1>5, <1>6, <1>7, <1>8, <1>9, <1>10 DEF MLFQOther

\* The steps that stamp a time of entry.
LEMMA StampQuiet ==
    ASSUME NCPU = 1, IInv, NEW c \in CPUs, NEW p \in Slots,
           MLFQBlock(c, p) \/ MLFQForkDone(c, p)
    PROVE  Quiet
<1> USE DEF IInv, TypeOK, Quiet, Levelled, Sliced
<1>1. ~due[0]
    BY OneCPU DEF MLFQBlock, MLFQForkDone
<1>2. ASSUME NEW ch \in Chans, Sleep(c, p, ch)
      PROVE  Quiet
    BY <1>1, <1>2 DEF Sleep, Runs, OnCPU
<1>3. CASE WaitSleep(c, p)
    BY <1>1, <1>3 DEF WaitSleep, RunsLocked, OnCPU
<1>4. CASE Exit(c, p)
    BY <1>1, <1>4 DEF Exit, Woken
<1>5. CASE MLFQForkDone(c, p)
  <2>1. np[p] \in Slots /\ state[np[p]] = "EMBRYO" /\ sw[np[p]] = "forkret"
    BY <1>5, Consts DEF MLFQForkDone, ForkDone, ForkShape, Building, Refs
  <2> QED
    BY <1>1, <1>5, <2>1 DEF MLFQForkDone, ForkDone
<1> QED
    BY <1>2, <1>3, <1>4, <1>5 DEF MLFQBlock

\* A stamp is a time.
LEMMA StampType ==
    ASSUME MLFQTypes, NEW S, Stamp(S)
    PROVE  toe' \in [Slots -> Nat]
BY DEF MLFQTypes, Stamp

-----------------------------------------------------------------------------
\* The initial queues.
LEMMA MLFQInitInv == NCPU = 1 /\ MLFQInit => MLFQInv
<1> SUFFICES ASSUME NCPU = 1, MLFQInit
             PROVE  MLFQInv
    OBVIOUS
<1>1. IInv
    BY InitIInv DEF MLFQInit
<1>2. MLFQTypes /\ CpuOwn
    BY OneCPU DEF MLFQInit, Init, MLFQTypes, Refs, CpuOwn
<1>3. LevelsRight /\ SlicesRight
    BY MLFQAssumption DEF MLFQInit, Init, LevelsRight, SlicesRight, Sliced
<1> QED
    BY <1>1, <1>2, <1>3 DEF MLFQInv

\* The timer interrupt: a thread that was not due had a tick left, and is due
\* if that was the last one.
LEMMA TickKept ==
    ASSUME NCPU = 1, MLFQInv, IInv', Tick
    PROVE  MLFQInv'
<1> USE DEF MLFQInv
<1>1. MLFQTypes'
  <2>1. due' \in [CPUs -> BOOLEAN]
    <3> DEFINE b == \E p \in Charged(0) : IsDue(slice[p] - 1)
    <3>1. b \in BOOLEAN /\ due' = [due EXCEPT ![0] = b]
      BY DEF Tick
    <3> HIDE DEF b
    <3> QED
      BY <3>1 DEF MLFQTypes
  <2>2. ticks' \in Nat /\ toe' \in [Slots -> Nat] /\ slice' \in [Slots -> Int]
    BY DEF Tick, MLFQTypes
  <2> QED
    BY <2>1, <2>2 DEF Tick, MLFQTypes
<1>2. \A p \in Slots : /\ Levelled(p)' => Levelled(p)
                       /\ Sliced(p)' => Sliced(p)
    BY DEF Tick, Wakeup, Woken, Levelled, Sliced, IInv, TypeOK
<1>3. LevelsRight'
    BY <1>2 DEF Tick, LevelsRight
<1>4. ~due[0] /\ 0 \in CPUs
    BY OneCPU DEF Tick
<1>5. SlicesRight'
  <2> SUFFICES ASSUME NEW p \in Slots, Sliced(p)'
               PROVE  /\ 0 <= slice'[p]
                      /\ slice'[p] <= 2^cur_q[p]
                      /\ slice'[p] = 0 => due'[0]
    BY DEF SlicesRight, Tick
  <2>1. Sliced(p) /\ slice[p] \in Int /\ cur_q[p] \in 0..LastQ
    BY <1>2 DEF MLFQTypes, LevelsRight, Sliced, Levelled
  <2>2. 1 <= slice[p] /\ slice[p] <= 2^cur_q[p] /\ 2^cur_q[p] \in Int
    BY <1>4, <2>1, MLFQAssumption DEF SlicesRight
  <2>3. CASE p \in Charged(0)
    <3>1. slice'[p] = slice[p] - 1
      BY <2>3 DEF Tick
    <3>2. slice[p] - 1 = 0 => due'[0]
      BY <1>4, <2>3 DEF Tick, IsDue, MLFQTypes
    <3> QED
      BY <2>1, <2>2, <3>1, <3>2
  <2>4. CASE p \notin Charged(0)
    <3>1. slice'[p] = slice[p]
      BY <2>4 DEF Tick
    <3> QED
      BY <2>1, <2>2, <3>1
  <2> QED
    BY <2>3, <2>4
<1>6. CpuOwn'
  <2>1. /\ lock = NoCPU /\ cpu' = cpu /\ exec' = exec /\ sw' = sw
        /\ due'[0] => \E p \in Charged(0) : TRUE
    BY <1>4 DEF Tick, Wakeup, MLFQTypes
  <2>2. ASSUME NEW p \in Charged(0)
        PROVE  exec[0] = p /\ sw[p] = "no"
    BY <1>4, <2>1, OneCPU, Consts DEF Charged, IInv, OnCPU
  <2> QED
    BY <2>1, <2>2, Consts DEF CpuOwn, Charged
<1> QED
    BY <1>1, <1>3, <1>5, <1>6

\* scheduler() picks a process and gives it the slice of its level.
LEMMA PickKept ==
    ASSUME NCPU = 1, FiveLevels, MLFQInv, IInv',
           NEW c \in CPUs, NEW p \in Slots, MLFQPick(c, p)
    PROVE  MLFQInv'
<1> USE DEF MLFQInv
<1>1. PICK l \in 0..LastQ : /\ cur_q[p] = l
                            /\ slice' = [slice EXCEPT ![p] = 2^l]
    BY DEF MLFQPick, IsFirstIn, Queue
<1>2. 2^l \in Int /\ 2^l >= 1
    BY SlicePositive
<1>3. MLFQTypes'
    BY <1>1, <1>2 DEF MLFQPick, MLFQTypes, Refs
<1>4. \A q \in Slots : /\ Levelled(q)' => Levelled(q)
                       /\ q # p /\ Sliced(q)' => Sliced(q)
    BY DEF MLFQPick, Pick, Levelled, Sliced, IInv, TypeOK
<1>5. LevelsRight'
    BY <1>4 DEF MLFQPick, LevelsRight
<1>6. SlicesRight'
  <2> SUFFICES ASSUME NEW q \in Slots, Sliced(q)'
               PROVE  /\ 0 <= slice'[q]
                      /\ slice'[q] <= 2^cur_q[q]
                      /\ slice'[q] = 0 => due'[0]
    BY DEF SlicesRight, MLFQPick
  <2>1. CASE q = p
    BY <1>1, <1>2, <2>1 DEF MLFQTypes
  <2>2. CASE q # p
    BY <1>1, <1>4, <2>2 DEF SlicesRight, MLFQTypes, MLFQPick
  <2> QED
    BY <2>1, <2>2
<1>7. CpuOwn'
    BY OneCPU DEF CpuOwn, MLFQPick, Pick, MLFQTypes, IInv, TypeOK
<1> QED
    BY <1>3, <1>5, <1>6, <1>7

\* sched() back into scheduler(): no level leaves 0..LastQ but a zombie's.
LEMMA SwtchKept ==
    ASSUME NCPU = 1, MLFQInv, IInv', NEW c \in CPUs, NEW p \in Slots,
           MLFQSwtch(c, p)
    PROVE  MLFQInv'
<1> USE DEF MLFQInv
<1> DEFINE level == [cur_q EXCEPT ![p] = Demoted(p)]
<1>1. /\ state' = state /\ sw' = sw /\ pc' = pc /\ state[p] # "RUNNING"
      /\ UNCHANGED <<ticks, slice, cpu, due>>
      /\ cur_q' = [q \in Slots |-> IF Aged(q, level[q]) /\ level[q] > 0
                                   THEN level[q] - 1 ELSE level[q]]
    BY DEF MLFQSwtch, Swtch
<1>2. \A q \in Slots : /\ level[q] \in Int
                       /\ Levelled(q) => level[q] \in 0..LastQ
                       /\ state[q] = "RUNNING" => level[q] = cur_q[q]
    BY <1>1, MLFQAssumption DEF Demoted, MLFQTypes, LevelsRight, Levelled
<1> HIDE DEF level
<1>3. MLFQTypes'
    BY <1>1, <1>2 DEF MLFQTypes, MLFQSwtch
<1>4. LevelsRight'
    BY <1>1, <1>2, MLFQAssumption DEF LevelsRight, Levelled
<1>5. SlicesRight'
    BY <1>1, <1>2 DEF SlicesRight, Sliced, Aged
<1>6. CpuOwn'
  <2>1. exec[0] = p /\ sw[p] # "no" /\ exec'[0] = 0
    BY OneCPU DEF MLFQSwtch, Swtch, IInv, TypeOK
  <2> QED
    BY <1>1, <2>1 DEF CpuOwn
<1> QED
    BY <1>3, <1>4, <1>5, <1>6

\* trap() yields, or leaves for exit(): the thread has no slice to keep.
LEMMA LeaveKept ==
    ASSUME NCPU = 1, MLFQInv, IInv', NEW c \in CPUs, NEW p \in Slots,
           MLFQYield(c, p) \/ MLFQTrapExit(c, p)
    PROVE  MLFQInv'
<1> USE DEF MLFQInv
<1>1. c = 0 /\ exec[0] = p
    BY OneCPU DEF MLFQYield, MLFQTrapExit, Yield, TrapExit, Runs
<1>2. \A q \in Slots : ~Sliced(q)'
  <2>1. ASSUME NEW q \in Slots, state'[q] = "RUNNING"
        PROVE  q = p
    BY <1>1, <2>1, OneCPU
       DEF MLFQYield, MLFQTrapExit, Yield, TrapExit, IInv, TypeOK
  <2> QED
    BY <2>1
       DEF MLFQYield, MLFQTrapExit, Yield, TrapExit, Sliced, IInv, TypeOK
<1>3. \A q \in Slots : Levelled(q)' => Levelled(q)
    BY <1>1 DEF MLFQYield, MLFQTrapExit, Yield, TrapExit, Runs, Levelled, IInv,
       TypeOK, OnCPU
<1>4. MLFQTypes'
    BY DEF MLFQYield, MLFQTrapExit, MLFQTypes, Stamp
<1>5. LevelsRight' /\ SlicesRight'
    BY <1>2, <1>3 DEF LevelsRight, SlicesRight, MLFQYield, MLFQTrapExit
<1>6. CpuOwn'
    BY <1>1 DEF CpuOwn, MLFQYield, MLFQTrapExit, Yield, TrapExit, MLFQTypes
<1> QED
    BY <1>4, <1>5, <1>6

\* allocproc() puts the child in the first queue.
LEMMA AllocKept ==
    ASSUME NCPU = 1, MLFQInv, IInv', NEW c \in CPUs, NEW p \in Slots,
           MLFQAllocStack(c, p)
    PROVE  MLFQInv'
<1> USE DEF MLFQInv
<1>1. np[p] \in Slots /\ state[np[p]] = "EMBRYO" /\ state' = state
    BY Consts DEF MLFQAllocStack, AllocStack, IInv, TypeOK, ForkShape, Building,
       Refs
<1>2. MLFQTypes'
    BY <1>1 DEF MLFQAllocStack, MLFQTypes, Stamp
<1>3. \A q \in Slots : /\ Levelled(q)' => Levelled(q) \/ q = np[p]
                       /\ Sliced(q)' => Sliced(q) /\ q # np[p]
    BY <1>1 DEF MLFQAllocStack, AllocStack, Levelled, Sliced, IInv, TypeOK
<1>4. LevelsRight' /\ SlicesRight'
    BY <1>1, <1>3, MLFQAssumption
       DEF LevelsRight, SlicesRight, MLFQAllocStack, MLFQTypes
<1>5. CpuOwn'
    BY OneCPU DEF CpuOwn, MLFQAllocStack, AllocStack
<1> QED
    BY <1>2, <1>4, <1>5

\* One step of the feedback-queue kernel on one CPU.
LEMMA MLFQNextInv ==
    ASSUME NCPU = 1, FiveLevels, MLFQInv, [MLFQNext]_mlfqVars
    PROVE  MLFQInv'
<1>1. IInv /\ IInv' /\ MLFQTypes
    BY MLFQStep, NextIInv DEF MLFQInv
<1>2. CASE UNCHANGED mlfqVars
  <2>1. Quiet
    BY <1>2 DEF mlfqVars, vars, Quiet, Levelled, Sliced
  <2> QED
    BY <1>1, <1>2, <2>1, QuietKept DEF mlfqVars, MLFQTypes
<1>3. CASE Tick
    BY <1>1, <1>3, TickKept
<1>4. ASSUME NEW c \in CPUs, MLFQAcquire(c) \/ MLFQRelease(c)
      PROVE  MLFQInv'
  <2>1. Quiet
    BY <1>4 DEF MLFQAcquire, MLFQRelease, SchedAcquire, SchedRelease, Quiet,
       Levelled, Sliced
  <2> QED
    BY <1>1, <1>4, <2>1, QuietKept DEF MLFQAcquire, MLFQRelease, MLFQTypes
<1>5. ASSUME NEW c \in CPUs, NEW ch \in Chans \ {TicksChan}, MLFQWakeup(c, ch)
      PROVE  MLFQInv'
  <2>1. Quiet
    BY <1>1, <1>5 DEF MLFQWakeup, Wakeup, Woken, Quiet, Levelled, Sliced, IInv,
       TypeOK
  <2> QED
    BY <1>1, <1>5, <2>1, QuietKept, StampType DEF MLFQWakeup, MLFQTypes
<1>6. ASSUME NEW c \in CPUs, NEW p \in Slots, MLFQThread(c, p)
      PROVE  MLFQInv'
  <2>1. CASE MLFQPick(c, p) \/ MLFQSwtch(c, p)
    BY <1>1, <2>1, PickKept, SwtchKept
  <2>2. CASE MLFQYield(c, p) \/ MLFQTrapExit(c, p) \/ MLFQAllocStack(c, p)
    BY <1>1, <2>2, LeaveKept, AllocKept
  <2>3. CASE MLFQForkDone(c, p) \/ MLFQBlock(c, p)
    <3>1. toe' \in [Slots -> Nat]
      BY <1>1, <2>3, StampType DEF MLFQForkDone, MLFQBlock
    <3> QED
      BY <1>1, <2>3, <3>1, StampQuiet, QuietKept
         DEF MLFQForkDone, MLFQBlock, MLFQTypes
  <2>4. CASE MLFQOther(c, p)
    BY <1>1, <2>4, OtherQuiet, QuietKept DEF MLFQOther, MLFQTypes
  <2> QED
    BY <1>6, <2>1, <2>2, <2>3, <2>4 DEF MLFQThread
<1> QED
    BY <1>2, <1>3, <1>4, <1>5, <1>6 DEF MLFQNext

\* What the invariant says of the queues and the slices.
LEMMA MLFQSound ==
    ASSUME NCPU = 1, MLFQInv
    PROVE  InSomeQueue /\ SliceExact /\ YieldsOwn
<1>1. InSomeQueue
    BY DEF MLFQInv, LevelsRight, Levelled, InSomeQueue
<1>2. SliceExact
  <2> SUFFICES ASSUME NEW c \in CPUs, NEW p \in Slots, exec[c] = p,
                      sw[p] = "no", pc[p] \notin {"exit", "panic"}
               PROVE  /\ slice[p] <= 2^cur_q[p]
                      /\ (slice[p] = 0 /\ due[c]) \/ slice[p] >= 1
    BY DEF SliceExact
  <2>1. c = 0 /\ Sliced(p)
    BY OneCPU DEF MLFQInv, IInv, OnCPU, Sliced
  <2> QED
    BY <2>1 DEF MLFQInv, SlicesRight, MLFQTypes
<1>3. YieldsOwn
    BY OneCPU DEF MLFQInv, CpuOwn, YieldsOwn
<1> QED
    BY <1>1, <1>2, <1>3

-----------------------------------------------------------------------------
\* The kernel built with SCHEDULER=MLFQ is, on one CPU, a refinement of proc.c
\* with the choice of the next process left open: the theorems of ProcProofs
\* hold in it.
THEOREM MLFQImplementsProc == MLFQSpec => Spec
<1>1. MLFQInit => Init
    BY DEF MLFQInit
<1> QED
    BY <1>1, MLFQStep, PTL DEF MLFQSpec, Spec

\* On one CPU, with the code's levels or fewer, a process that can run is in
\* one of the queues, a thread runs on only with ticks of its slice left, and
\* trap() yields for no process but the one it interrupted.  (The last fails
\* on two CPUs: run mlfq_smp.)
THEOREM MLFQIsSound ==
    NCPU = 1 /\ FiveLevels =>
        (MLFQSpec => [](InSomeQueue /\ SliceExact /\ YieldsOwn))
<1> SUFFICES ASSUME NCPU = 1, FiveLevels
             PROVE  MLFQSpec => [](InSomeQueue /\ SliceExact /\ YieldsOwn)
    OBVIOUS
<1>1. MLFQInit => MLFQInv
    BY MLFQInitInv
<1>2. MLFQInv /\ [MLFQNext]_mlfqVars => MLFQInv'
    BY MLFQNextInv
<1>3. MLFQInv => InSomeQueue /\ SliceExact /\ YieldsOwn
    BY MLFQSound
<1> QED
    BY <1>1, <1>2, <1>3, PTL DEF MLFQSpec

\* Whichever of the policies of the Makefile's SCHEDULER the kernel is built
\* with, who can run is found: a scan of PBS.c that begins with a RUNNABLE
\* process switches to one, and MLFQ.c keeps every process in a queue, with an
\* exact slice.
THEOREM PoliciesAreSound ==
    NCPU = 1 /\ FiveLevels => (PolicySpec => []PolicySound)
<1> DEFINE PInv == /\ policy = "PBS" => PBSInv
                   /\ policy = "MLFQ" => MLFQInv
<1> SUFFICES ASSUME NCPU = 1, FiveLevels
             PROVE  PolicySpec => []PolicySound
    OBVIOUS
<1>1. PolicyInit => PInv
    BY PBSInitInv, MLFQInitInv DEF PolicyInit
<1>2. PInv /\ [PolicyNext]_policyVars => PInv'
  <2> SUFFICES ASSUME PInv, [PolicyNext]_policyVars
               PROVE  PInv'
    OBVIOUS
  <2>1. policy' = policy
    BY DEF PolicyNext, policyVars
  <2>2. policy = "PBS" => [PBSNext]_pbsVars
    BY DEF PolicyNext, policyVars, pbsVars
  <2>3. policy = "MLFQ" => [MLFQNext]_mlfqVars
    BY DEF PolicyNext, policyVars, mlfqVars
  <2> QED
    BY <2>1, <2>2, <2>3, PBSNextInv, MLFQNextInv
<1>3. PInv => PolicySound
    BY PBSInvWork, MLFQSound DEF PolicySound
<1> QED
    BY <1>1, <1>2, <1>3, PTL DEF PolicySpec

-----------------------------------------------------------------------------
(* The spin locks: the steps of a stack as a path.                         *)

LkNames == {"readeflags", "cli", "xchg", "own", "disown", "unlock", "wakeup1",
            "state", "sched", "intena", "pick", "iret"}
LkArgs == Locks \cup {"RUNNABLE", "SLEEPING", "syscall", "handler", "forkret"}
LkOps == [op : LkNames, arg : LkArgs, val : BOOLEAN]
LkPlaces == {"free", "flag", "cli", "taken", "stated", "dis"}
OnLock == {"flag", "cli", "taken", "dis"}

\* Where a stack is between two of its steps: the locks it holds, and how far
\* it is in the acquire() or release() of lk, or in the switch.
LkPts ==
    {a \in [held : SUBSET Locks, pc : LkPlaces, lk : Locks] :
        IsFiniteSet(a.held) /\ (a.pc \in OnLock => a.lk \notin a.held)}
Pt(h, at, l) == [held |-> h, pc |-> at, lk |-> l]
Free(h) == Pt(h, "free", PtableLock)
AtSwtch == Pt({PtableLock}, "stated", PtableLock)

LinkAcquire(s, a, b) ==
    \/ /\ s.op = "readeflags" /\ s.arg \in Locks \ a.held
       /\ a = Free(a.held) /\ b = Pt(a.held, "flag", s.arg)
    \/ s.op = "cli" /\ a = Pt(a.held, "flag", s.arg) /\ b = Pt(a.held, "cli", s.arg)
    \/ s.op = "xchg" /\ a = Pt(a.held, "cli", s.arg) /\ b = Pt(a.held, "taken", s.arg)
    \/ s.op = "own" /\ a = Pt(a.held, "taken", s.arg) /\ b = Free(a.held \cup {s.arg})
LinkRelease(s, a, b) ==
    \/ /\ s.op = "disown" /\ s.arg \in a.held
       /\ a = Free(a.held) /\ b = Pt(a.held \ {s.arg}, "dis", s.arg)
    \/ s.op = "unlock" /\ a = Pt(a.held, "dis", s.arg) /\ b = Free(a.held)
LinkSwitch(s, a, b) ==
    \/ /\ s.op = "state" /\ s.arg \in {"RUNNABLE", "SLEEPING"}
       /\ a = Free({PtableLock}) /\ b = AtSwtch
    \/ s.op \in {"sched", "intena"} /\ a = AtSwtch /\ b = Free({PtableLock})
    \/ s.op = "pick" /\ a = Free({PtableLock}) /\ b = a
    \/ s.op = "wakeup1" /\ PtableLock \in a.held /\ a = Free(a.held) /\ b = a
LinkIret(s, a, b) ==
    s.op = "iret" /\ a = Free({}) /\ b.held = {} /\ b.pc \in {"free", "flag"}

\* The step s leads from a to b.
Link(s, a, b) ==
    LinkAcquire(s, a, b) \/ LinkRelease(s, a, b) \/ LinkSwitch(s, a, b)
    \/ LinkIret(s, a, b)

LkPath(p, q, a, b) ==
    /\ p \in Seq(LkOps) /\ q \in Seq(LkPts) /\ Len(q) = Len(p) + 1
    /\ q[1] = a /\ q[Len(p) + 1] = b
    /\ \A i \in 1..Len(p) : Link(p[i], q[i], q[i + 1])

\* A stack that has still to return from forkret().
Fk(s) == \E i \in 1..Len(s) : s[i] = Op("iret", "forkret")

\* The steps s of the stack x, of which the first m are those of a handler,
\* with the points q between them.
StackPlaced(x, s, m, q) ==
    /\ m \in 0..Len(s)
    /\ \A i \in 1..Len(s) :
        /\ s[i] = Op("iret", "handler") <=> i = m
        /\ s[i].op = "iret" => i = m \/ (i > m /\ i = Len(s))
        /\ s[i].op = "pick" => x \in LkCPUs /\ i > m
        /\ s[i].op \in {"state", "sched", "intena"} => x \in Threads
        /\ s[i].op = "intena" => i = 1
StackVals(x, s, m, q) ==
    /\ s # <<>> /\ s[1].op = "intena" =>
            (m > 0 => ~s[1].val) /\ (m = 0 /\ ~Fk(s) => s[1].val)
    /\ x \in Threads /\ ~Fk(s) /\ q[m + 1].pc = "flag" /\ q[m + 1].held = {} =>
            s[m + 1].val
    /\ m > 0 /\ q[1].pc = "flag" /\ q[1].held = {} => ~s[1].val
StackGood(x, s, m, q) ==
    LkPath(s, q, q[1], Free({})) /\ StackPlaced(x, s, m, q) /\ StackVals(x, s, m, q)

\* A CPU on the stack x at the point a: ncli, FL_IF and intena.
InAcquire(a) == IF a.pc \in {"cli", "taken", "dis"} THEN 1 ELSE 0
FlagsGood(x, s, m, a, nc, it, ie) ==
    /\ nc = Cardinality(a.held) + InAcquire(a)
    /\ nc > 0 \/ m > 0 => ~it
    /\ x \in Threads /\ m = 0 /\ ~Fk(s) /\ nc = 0 => it
    /\ nc > 0 /\ ~(s # <<>> /\ s[1].op = "intena") =>
            (m > 0 => ~ie) /\ (m = 0 /\ x \in Threads /\ ~Fk(s) => ie)

Busy(a) == a.held \cup {l \in {a.lk} : a.pc \in {"taken", "dis"}}
OwnsGood(c, a, lo, lc) ==
    /\ \A l \in Locks : lc[l] = c <=> l \in a.held
    /\ \A l \in Busy(a) : lo[l]
    /\ a.pc \in {"taken", "dis"} => lc[a.lk] = NoLkCPU

AtSched(s) == s # <<>> /\ s[1].op = "sched"

LkTypes(td, on, it, nc, ie, lo, lc, ts, m, k) ==
    /\ td = [x \in Stacks |-> td[x]]
    /\ on \in [LkCPUs -> Stacks] /\ \A c \in LkCPUs : on[c] \in {c} \cup Threads
    /\ it \in [LkCPUs -> BOOLEAN] /\ ie \in [LkCPUs -> BOOLEAN]
    /\ nc \in [LkCPUs -> Nat]
    /\ lo \in [Locks -> BOOLEAN] /\ lc \in [Locks -> LkCPUs \cup {NoLkCPU}]
    /\ ts \in [Threads -> {"RUNNABLE", "RUNNING", "SLEEPING"}]
    /\ m = [x \in Stacks |-> m[x]] /\ k = [x \in Stacks |-> k[x]]

StacksGood(td, m, k) == \A x \in Stacks : StackGood(x, td[x], m[x], k[x])
CPUsApart(on, k) ==
    \A c, d \in LkCPUs : c # d =>
        on[c] # on[d] /\ Busy(k[on[c]][1]) \cap Busy(k[on[d]][1]) = {}
CPUsGood(td, on, it, nc, ie, lo, lc, m, k) ==
    \A c \in LkCPUs :
        /\ FlagsGood(on[c], td[on[c]], m[on[c]], k[on[c]][1], nc[c], it[c], ie[c])
        /\ OwnsGood(c, k[on[c]][1], lo, lc)
ActiveGood(td, on, ts) ==
    \A c \in LkCPUs : on[c] \in Threads =>
        (ts[on[c]] = "RUNNING" <=> ~AtSched(td[on[c]]))
ThreadWaits(t, s, m, a) ==
    \/ s # <<>> /\ s[1].op = "intena" /\ a = AtSwtch
    \/ m = 0 /\ Fk(s) /\ a = Free({PtableLock})
WaitersGood(td, on, ts, m, k) ==
    /\ \A t \in Threads : (\A c \in LkCPUs : on[c] # t) =>
            ts[t] # "RUNNING" /\ ThreadWaits(t, td[t], m[t], k[t][1])
    /\ \A c \in LkCPUs : on[c] # c => td[c] # <<>> /\ td[c][1].op = "pick"

LkSound(td, on, it, nc, ie, lo, lc, ts, m, k) ==
    /\ LkTypes(td, on, it, nc, ie, lo, lc, ts, m, k)
    /\ StacksGood(td, m, k)
    /\ CPUsApart(on, k)
    /\ CPUsGood(td, on, it, nc, ie, lo, lc, m, k)
    /\ ActiveGood(td, on, ts)
    /\ WaitersGood(td, on, ts, m, k)

LockInv ==
    /\ lkPanic = FALSE
    /\ \E m, k : LkSound(todo, onStack, intr, ncli, intena, locked, lkCpu, tstate, m, k)

-----------------------------------------------------------------------------
(* Paths.                                                                  *)

\* The steps a running stack takes upon itself.
LkPlain(x, p) ==
    \A i \in 1..Len(p) :
        \/ p[i].op \in {"readeflags", "cli", "xchg", "own", "disown", "unlock",
                        "wakeup1"}
        \/ x \in Threads /\ p[i].op \in {"state", "sched"}

\* The stack x may take the steps p, and they lead from a to b.
Leads(x, p, a, b) == LkPlain(x, p) /\ \E q : LkPath(p, q, a, b)

LEMMA FreeIsPt ==
    ASSUME NEW h \in SUBSET Locks, IsFiniteSet(h)
    PROVE  Free(h) \in LkPts
BY DEF Free, Pt, LkPts, LkPlaces, Locks, OnLock

LEMMA JoinedSeq ==
    ASSUME NEW S, NEW s \in Seq(S), NEW t \in Seq(S)
    PROVE  /\ s \o t \in Seq(S) /\ Len(s \o t) = Len(s) + Len(t)
           /\ \A i \in 1..Len(s \o t) :
                (s \o t)[i] = IF i <= Len(s) THEN s[i] ELSE t[i - Len(s)]
OBVIOUS

LEMMA PathsJoin ==
    ASSUME NEW p1, NEW q1, NEW p2, NEW q2, NEW a, NEW b, NEW c,
           LkPath(p1, q1, a, b), LkPath(p2, q2, b, c)
    PROVE  \E q : LkPath(p1 \o p2, q, a, c) /\ q[Len(p1) + 1] = b
<1> DEFINE p == p1 \o p2
           q == q1 \o Tail(q2)
<1>1. /\ p1 \in Seq(LkOps) /\ q1 \in Seq(LkPts) /\ Len(q1) = Len(p1) + 1
      /\ p2 \in Seq(LkOps) /\ q2 \in Seq(LkPts) /\ Len(q2) = Len(p2) + 1
      /\ q1[1] = a /\ q1[Len(p1) + 1] = b /\ q2[1] = b /\ q2[Len(p2) + 1] = c
      /\ \A i \in 1..Len(p1) : Link(p1[i], q1[i], q1[i + 1])
      /\ \A i \in 1..Len(p2) : Link(p2[i], q2[i], q2[i + 1])
    BY DEF LkPath
<1>2. Len(p1) \in Nat /\ Len(p2) \in Nat
    BY <1>1
<1>3. /\ p \in Seq(LkOps) /\ Len(p) = Len(p1) + Len(p2)
      /\ \A i \in 1..Len(p) : p[i] = IF i <= Len(p1) THEN p1[i]
                                     ELSE p2[i - Len(p1)]
    BY <1>1, <1>2
<1>4. q2 # <<>> /\ Tail(q2) \in Seq(LkPts) /\ Len(Tail(q2)) = Len(p2)
      /\ \A i \in 1..Len(p2) : Tail(q2)[i] = q2[i + 1]
    BY <1>1, <1>2
<1>a. q \in Seq(LkPts) /\ Len(q) = Len(q1) + Len(p2)
      /\ \A i \in 1..Len(q) : q[i] = IF i <= Len(q1) THEN q1[i]
                                     ELSE Tail(q2)[i - Len(q1)]
  <2> HIDE DEF p
  <2> DEFINE r == Tail(q2)
  <2>1. r \in Seq(LkPts) /\ Len(r) = Len(p2)
    BY <1>4
  <2> HIDE DEF r
  <2>2. /\ q1 \o r \in Seq(LkPts) /\ Len(q1 \o r) = Len(q1) + Len(r)
        /\ \A i \in 1..Len(q1 \o r) : (q1 \o r)[i] = IF i <= Len(q1) THEN q1[i]
                                                     ELSE r[i - Len(q1)]
    <3>1. q1 \in Seq(LkPts) /\ r \in Seq(LkPts)
        BY <1>1, <2>1
    <3> QED
        BY <3>1, JoinedSeq
  <2> QED
    BY <2>1, <2>2 DEF r
<1> HIDE DEF p, q
<1>5. q \in Seq(LkPts) /\ Len(q) = Len(p) + 1
    BY <1>1, <1>2, <1>3, <1>a
<1>6. \A i \in 1..(Len(p) + 1) :
        q[i] = IF i <= Len(p1) + 1 THEN q1[i] ELSE Tail(q2)[i - Len(q1)]
    BY <1>1, <1>2, <1>3, <1>5, <1>a
<1>7. ASSUME NEW i \in 1..(Len(p) + 1)
      PROVE  /\ i <= Len(p1) + 1 => q[i] = q1[i]
             /\ i > Len(p1) => q[i] = q2[i - Len(p1)]
  <2>1. CASE i <= Len(p1)
    BY <2>1, <1>2, <1>6
  <2>2. CASE i = Len(p1) + 1
    BY <2>2, <1>1, <1>2, <1>6
  <2>3. CASE i > Len(p1) + 1
    <3>1. i - Len(q1) \in 1..Len(p2) /\ i - Len(q1) + 1 = i - Len(p1)
        BY <2>3, <1>1, <1>2, <1>3
    <3> QED
        BY <3>1, <2>3, <1>1, <1>2, <1>4, <1>6
  <2> QED
    BY <2>1, <2>2, <2>3, <1>2, <1>3
<1>8. ASSUME NEW i \in 1..Len(p)
      PROVE  Link(p[i], q[i], q[i + 1])
  <2>0. i \in 1..(Len(p) + 1) /\ i + 1 \in 1..(Len(p) + 1)
    BY <1>2, <1>3
  <2>1. CASE i <= Len(p1)
    <3>1. i \in 1..Len(p1) /\ p[i] = p1[i] /\ q[i] = q1[i] /\ q[i + 1] = q1[i + 1]
        BY <2>0, <2>1, <1>2, <1>3, <1>7
    <3> QED
        BY <3>1, <1>1
  <2>2. CASE i > Len(p1)
    <3> DEFINE j == i - Len(p1)
    <3>1. /\ j \in 1..Len(p2) /\ p[i] = p2[j] /\ q[i] = q2[j]
          /\ i + 1 > Len(p1) /\ (i + 1) - Len(p1) = j + 1
        BY <2>0, <2>2, <1>2, <1>3, <1>7
    <3>2. q[i + 1] = q2[j + 1]
        BY <3>1, <2>0, <1>7
    <3> HIDE DEF j, p, q
    <3> QED
        BY <3>1, <3>2, <1>1
  <2> QED
    BY <2>1, <2>2, <1>2, <1>3
<1>9. q[1] = a /\ q[Len(p) + 1] = c
  <2>1. 1 \in 1..(Len(p) + 1) /\ Len(p) + 1 \in 1..(Len(p) + 1)
        /\ Len(p) + 1 > Len(p1) /\ Len(p) + 1 - Len(p1) = Len(p2) + 1
    BY <1>2, <1>3
  <2> QED
    BY <2>1, <1>1, <1>2, <1>7
<1> QED
  <2> HIDE DEF p, q
  <2>1. LkPath(p, q, a, c)
    BY <1>3, <1>5, <1>8, <1>9 DEF LkPath
  <2>2. q[Len(p1) + 1] = b
    <3>1. /\ Len(p1) + 1 \in 1..(Len(p) + 1) /\ Len(p1) + 1 > Len(p1)
          /\ (Len(p1) + 1) - Len(p1) = 1
        BY <1>2, <1>3
    <3>2. q[Len(p1) + 1] = q2[1]
        BY <3>1, <1>7
    <3> QED
        BY <3>2, <1>1
  <2> QED
    BY <2>1, <2>2 DEF p

LEMMA LeadsJoin ==
    ASSUME NEW x, NEW p1, NEW p2, NEW a, NEW b, NEW c,
           Leads(x, p1, a, b), Leads(x, p2, b, c)
    PROVE  Leads(x, p1 \o p2, a, c)
<1>1. PICK q1, q2 : LkPath(p1, q1, a, b) /\ LkPath(p2, q2, b, c)
    BY DEF Leads
<1>2. p1 \in Seq(LkOps) /\ p2 \in Seq(LkOps)
    BY <1>1 DEF LkPath
<1>3. LkPlain(x, p1 \o p2)
  <2> SUFFICES ASSUME NEW i \in 1..Len(p1 \o p2)
               PROVE  \/ \E j \in 1..Len(p1) : (p1 \o p2)[i] = p1[j]
                      \/ \E j \in 1..Len(p2) : (p1 \o p2)[i] = p2[j]
    BY DEF LkPlain, Leads
  <2>1. CASE i <= Len(p1)
    BY <2>1, <1>2
  <2>2. CASE i > Len(p1)
    <3>1. i - Len(p1) \in 1..Len(p2) /\ (p1 \o p2)[i] = p2[i - Len(p1)]
        BY <2>2, <1>2
    <3> QED
        BY <3>1
  <2> QED
    BY <2>1, <2>2, <1>2
<1> QED
    BY <1>1, <1>3, PathsJoin DEF Leads

\* One step.
LEMMA OneLeads ==
    ASSUME NEW x, NEW s \in LkOps, NEW a \in LkPts, NEW b \in LkPts, Link(s, a, b)
    PROVE  /\ LkPath(<<s>>, <<a, b>>, a, b)
           /\ LkPlain(x, <<s>>) => Leads(x, <<s>>, a, b)
<1>1. LkPath(<<s>>, <<a, b>>, a, b)
    BY DEF LkPath
<1> QED
    BY <1>1 DEF Leads

LEMMA AcquireLeads ==
    ASSUME NEW x, NEW h \in SUBSET Locks, IsFiniteSet(h), NEW l \in Locks \ h
    PROVE  Leads(x, AcquireOps(l), Free(h), Free(h \cup {l}))
<1> DEFINE p == AcquireOps(l)
           q == <<Free(h), Pt(h, "flag", l), Pt(h, "cli", l), Pt(h, "taken", l),
                  Free(h \cup {l})>>
<1>1. IsFiniteSet(h \cup {l}) /\ h \cup {l} \in SUBSET Locks
    BY FS_AddElement
<1>2. /\ Free(h) \in LkPts /\ Free(h \cup {l}) \in LkPts
      /\ Pt(h, "flag", l) \in LkPts /\ Pt(h, "cli", l) \in LkPts
      /\ Pt(h, "taken", l) \in LkPts
    BY <1>1, FreeIsPt DEF Pt, LkPts, LkPlaces, OnLock
<1>3. q \in Seq(LkPts) /\ Len(q) = 5
    BY <1>2
<1>4. p \in Seq(LkOps) /\ Len(p) = 4
    BY DEF AcquireOps, Op, LkOps, LkNames, LkArgs
<1>5. /\ Link(p[1], q[1], q[2]) /\ Link(p[2], q[2], q[3])
      /\ Link(p[3], q[3], q[4]) /\ Link(p[4], q[4], q[5])
    BY DEF AcquireOps, Op, Link, LinkAcquire, Free, Pt
<1>6. LkPath(p, q, Free(h), Free(h \cup {l}))
  <2>1. \A i \in 1..Len(p) : Link(p[i], q[i], q[i + 1])
    <3> SUFFICES ASSUME NEW i \in 1..4
                 PROVE  Link(p[i], q[i], q[i + 1])
        BY <1>4
    <3>1. i = 1 \/ i = 2 \/ i = 3 \/ i = 4
        OBVIOUS
    <3> HIDE DEF p, q
    <3> QED
        BY <3>1, <1>5
  <2>2. q[1] = Free(h) /\ q[5] = Free(h \cup {l})
    OBVIOUS
  <2> HIDE DEF p, q
  <2> QED
    BY <2>1, <2>2, <1>3, <1>4 DEF LkPath
<1>7. LkPlain(x, p)
    BY DEF AcquireOps, Op, LkPlain
<1> QED
    BY <1>6, <1>7 DEF Leads

LEMMA ReleaseLeads ==
    ASSUME NEW x, NEW h \in SUBSET Locks, IsFiniteSet(h), NEW l \in h
    PROVE  Leads(x, ReleaseOps(l), Free(h), Free(h \ {l}))
<1> DEFINE p == ReleaseOps(l)
           q == <<Free(h), Pt(h \ {l}, "dis", l), Free(h \ {l})>>
<1>1. IsFiniteSet(h \ {l}) /\ h \ {l} \in SUBSET Locks /\ l \in Locks
    BY FS_RemoveElement
<1>2. /\ Free(h) \in LkPts /\ Free(h \ {l}) \in LkPts
      /\ Pt(h \ {l}, "dis", l) \in LkPts
    BY <1>1, FreeIsPt DEF Pt, LkPts, LkPlaces, OnLock
<1>3. q \in Seq(LkPts) /\ Len(q) = 3
    BY <1>2
<1>4. p \in Seq(LkOps) /\ Len(p) = 2
    BY <1>1 DEF ReleaseOps, Op, LkOps, LkNames, LkArgs
<1>5. Link(p[1], q[1], q[2]) /\ Link(p[2], q[2], q[3])
    BY DEF ReleaseOps, Op, Link, LinkRelease, Free, Pt
<1>6. LkPath(p, q, Free(h), Free(h \ {l}))
  <2>1. \A i \in 1..Len(p) : Link(p[i], q[i], q[i + 1])
    <3> SUFFICES ASSUME NEW i \in 1..2
                 PROVE  Link(p[i], q[i], q[i + 1])
        BY <1>4
    <3>1. i = 1 \/ i = 2
        OBVIOUS
    <3> HIDE DEF p, q
    <3> QED
        BY <3>1, <1>5
  <2>2. q[1] = Free(h) /\ q[3] = Free(h \ {l})
    OBVIOUS
  <2> HIDE DEF p, q
  <2> QED
    BY <2>1, <2>2, <1>3, <1>4 DEF LkPath
<1>7. LkPlain(x, p)
    BY DEF ReleaseOps, Op, LkPlain
<1> QED
    BY <1>6, <1>7 DEF Leads

-----------------------------------------------------------------------------
(* The bodies of system calls and handlers.                                *)

LEMMA PtsKnown ==
    /\ Free({}) \in LkPts /\ AtSwtch \in LkPts
    /\ \A l \in Locks : Free({l}) \in LkPts
<1>1. IsFiniteSet({}) /\ \A l : IsFiniteSet({l})
    BY FS_EmptySet, FS_Singleton
<1> QED
    BY <1>1, FreeIsPt DEF AtSwtch, Pt, LkPts, LkPlaces, OnLock, Locks

\* state and sched(), with ptable.lock alone.
LEMMA SwtchLeads ==
    ASSUME NEW x \in Threads, NEW v \in {"RUNNABLE", "SLEEPING"}
    PROVE  /\ Leads(x, <<Op("state", v)>>, Free({PtableLock}), AtSwtch)
           /\ Leads(x, SchedOps, AtSwtch, Free({PtableLock}))
<1>1. Op("state", v) \in LkOps /\ Op("sched", PtableLock) \in LkOps
      /\ PtableLock \in Locks
    BY DEF Op, LkOps, LkNames, LkArgs, Locks
<1>2. /\ Link(Op("state", v), Free({PtableLock}), AtSwtch)
      /\ Link(Op("sched", PtableLock), AtSwtch, Free({PtableLock}))
    BY DEF Op, Link, LinkSwitch
<1>3. LkPlain(x, <<Op("state", v)>>) /\ LkPlain(x, <<Op("sched", PtableLock)>>)
    BY DEF LkPlain, Op
<1> QED
    BY <1>1, <1>2, <1>3, OneLeads, PtsKnown DEF SchedOps

LEMMA YieldLeads ==
    ASSUME NEW x \in Threads
    PROVE  Leads(x, YieldOps, Free({}), Free({}))
<1> DEFINE P == {PtableLock}
<1>1. PtableLock \in Locks \ {} /\ IsFiniteSet({}) /\ IsFiniteSet(P)
      /\ {} \cup P = P /\ P \ {PtableLock} = {} /\ P \in SUBSET Locks
    BY FS_EmptySet, FS_Singleton DEF Locks
<1>2. Leads(x, AcquireOps(PtableLock), Free({}), Free(P))
    BY <1>1, AcquireLeads
<1>3. /\ Leads(x, <<Op("state", "RUNNABLE")>>, Free(P), AtSwtch)
      /\ Leads(x, SchedOps, AtSwtch, Free(P))
    BY SwtchLeads
<1>4. Leads(x, ReleaseOps(PtableLock), Free(P), Free({}))
    BY <1>1, ReleaseLeads
<1> HIDE DEF P
<1> QED
    BY <1>2, <1>3, <1>4, LeadsJoin DEF YieldOps

LEMMA SleepLeads ==
    ASSUME NEW x \in Threads, NEW l \in DeviceLocks
    PROVE  Leads(x, SleepOps(l), Free({l}), Free({l}))
<1> DEFINE P == {PtableLock}
           B == {l} \cup {PtableLock}
<1>1. /\ l \in Locks /\ PtableLock \in Locks /\ l # PtableLock
      /\ IsFiniteSet({}) /\ IsFiniteSet(P) /\ IsFiniteSet({l}) /\ IsFiniteSet(B)
    BY FS_EmptySet, FS_Singleton, FS_AddElement, SpinlockAssumption
    DEF Locks, SpinlockAssumption
<1>2. B \ {l} = P /\ P \ {PtableLock} = {} /\ {} \cup {l} = {l}
    BY <1>1
<1>3. Leads(x, AcquireOps(PtableLock), Free({l}), Free(B))
    BY <1>1, AcquireLeads
<1>4. Leads(x, ReleaseOps(l), Free(B), Free(P))
  <2>1. l \in B /\ B \in SUBSET Locks
    BY <1>1
  <2> HIDE DEF B
  <2> QED
    BY <2>1, <1>1, <1>2, ReleaseLeads
<1>5. /\ Leads(x, <<Op("state", "SLEEPING")>>, Free(P), AtSwtch)
      /\ Leads(x, SchedOps, AtSwtch, Free(P))
    BY SwtchLeads
<1>6. Leads(x, ReleaseOps(PtableLock), Free(P), Free({}))
    BY <1>1, <1>2, ReleaseLeads
<1>7. Leads(x, AcquireOps(l), Free({}), Free({l}))
  <2>1. {} \in SUBSET Locks /\ l \in Locks \ {}
    BY <1>1
  <2> QED
    BY <2>1, <1>1, <1>2, AcquireLeads
<1> HIDE DEF P, B
<1>8. Leads(x, AcquireOps(PtableLock) \o ReleaseOps(l), Free({l}), Free(P))
    BY <1>3, <1>4, LeadsJoin
<1>9. Leads(x, AcquireOps(PtableLock) \o ReleaseOps(l)
               \o <<Op("state", "SLEEPING")>> \o SchedOps, Free({l}), Free(P))
    BY <1>8, <1>5, LeadsJoin
<1> QED
    BY <1>9, <1>6, <1>7, LeadsJoin DEF SleepOps

LEMMA SyscallLeads ==
    ASSUME NEW x \in Threads, NEW p \in SyscallBodies
    PROVE  Leads(x, p, Free({}), Free({}))
<1>1. PICK l \in DeviceLocks : \/ p = AcquireOps(l) \o ReleaseOps(l)
                               \/ p = AcquireOps(l) \o SleepOps(l) \o ReleaseOps(l)
    BY DEF SyscallBodies
<1>2. /\ l \in Locks /\ {} \in SUBSET Locks /\ {l} \in SUBSET Locks
      /\ IsFiniteSet({}) /\ IsFiniteSet({l}) /\ {} \cup {l} = {l} /\ {l} \ {l} = {}
    BY FS_EmptySet, FS_Singleton DEF Locks
<1>3. /\ Leads(x, AcquireOps(l), Free({}), Free({l}))
      /\ Leads(x, ReleaseOps(l), Free({l}), Free({}))
  <2>1. l \in Locks \ {} /\ l \in {l}
    BY <1>2
  <2> QED
    BY <2>1, <1>2, AcquireLeads, ReleaseLeads
<1>4. Leads(x, SleepOps(l), Free({l}), Free({l}))
    BY SleepLeads
<1> QED
    BY <1>1, <1>3, <1>4, LeadsJoin

LEMMA NothingLeads ==
    ASSUME NEW x, NEW a \in LkPts
    PROVE  Leads(x, <<>>, a, a)
<1>1. LkPath(<<>>, <<a>>, a, a)
    BY DEF LkPath
<1> QED
    BY <1>1 DEF Leads, LkPlain

LEMMA HandlerLeads ==
    ASSUME NEW x, NEW p \in HandlerBodies
    PROVE  Leads(x, p, Free({}), Free({}))
<1>0. CASE p = <<>>
    BY <1>0, NothingLeads, PtsKnown
<1>1. ASSUME NEW l \in DeviceLocks,
             p = AcquireOps(l) \o WakeupOps \o ReleaseOps(l)
      PROVE  Leads(x, p, Free({}), Free({}))
  <2> DEFINE B == {l} \cup {PtableLock}
  <2>1. /\ l \in Locks /\ PtableLock \in Locks \ {l} /\ IsFiniteSet({})
        /\ IsFiniteSet({l}) /\ IsFiniteSet(B) /\ B \in SUBSET Locks
        /\ {l} \in SUBSET Locks /\ {} \in SUBSET Locks /\ l \in Locks \ {}
        /\ PtableLock \in B /\ l \in {l}
    BY FS_EmptySet, FS_Singleton, FS_AddElement, SpinlockAssumption
    DEF Locks, SpinlockAssumption
  <2>2. {} \cup {l} = {l} /\ {l} \ {l} = {} /\ B \ {PtableLock} = {l}
    BY <2>1
  <2>3. Leads(x, AcquireOps(PtableLock), Free({l}), Free(B))
    BY <2>1, AcquireLeads
  <2>4. Leads(x, <<Op("wakeup1", PtableLock)>>, Free(B), Free(B))
    <3>1. Op("wakeup1", PtableLock) \in LkOps
        BY DEF Op, LkOps, LkNames, LkArgs, Locks
    <3>2. Link(Op("wakeup1", PtableLock), Free(B), Free(B))
        BY DEF Link, LinkSwitch, Op, Free, Pt
    <3>3. LkPlain(x, <<Op("wakeup1", PtableLock)>>)
        BY DEF LkPlain, Op
    <3>4. Free(B) \in LkPts
        BY <2>1, FreeIsPt
    <3> HIDE DEF B
    <3> QED
        BY <3>1, <3>2, <3>3, <3>4, OneLeads
  <2> HIDE DEF B
  <2>5. Leads(x, ReleaseOps(PtableLock), Free(B), Free({l}))
    BY <2>1, <2>2, ReleaseLeads
  <2>6. Leads(x, WakeupOps, Free({l}), Free({l}))
    BY <2>3, <2>4, <2>5, LeadsJoin DEF WakeupOps
  <2>7. /\ Leads(x, AcquireOps(l), Free({}), Free({l}))
        /\ Leads(x, ReleaseOps(l), Free({l}), Free({}))
    BY <2>1, <2>2, AcquireLeads, ReleaseLeads
  <2> QED
    BY <1>1, <2>6, <2>7, LeadsJoin
<1> QED
    BY <1>0, <1>1 DEF HandlerBodies

-----------------------------------------------------------------------------
(* What becomes of a stack.                                                *)

StackLaid(x, s, m, q) == LkPath(s, q, q[1], Free({})) /\ StackPlaced(x, s, m, q)
Popped(m) == IF m = 0 THEN 0 ELSE m - 1

LEMMA HeadFacts ==
    ASSUME NEW x, NEW s, NEW m, NEW q, StackLaid(x, s, m, q), s # <<>>
    PROVE  /\ s \in Seq(LkOps) /\ q \in Seq(LkPts) /\ Len(s) \in Nat \ {0}
           /\ Len(q) = Len(s) + 1 /\ m \in 0..Len(s)
           /\ s[1] \in LkOps /\ q[1] \in LkPts /\ q[2] \in LkPts
           /\ Link(s[1], q[1], q[2])
           /\ Len(s) = 1 => q[2] = Free({})
           /\ s[1] = Op("iret", "handler") <=> m = 1
           /\ s[1].op = "iret" => m = 1 \/ (m = 0 /\ Len(s) = 1)
           /\ s[1].op = "pick" => x \in LkCPUs /\ m = 0
           /\ s[1].op \in {"state", "sched", "intena"} => x \in Threads
<1>1. /\ s \in Seq(LkOps) /\ q \in Seq(LkPts) /\ Len(q) = Len(s) + 1
      /\ q[Len(s) + 1] = Free({})
      /\ \A i \in 1..Len(s) : Link(s[i], q[i], q[i + 1])
    BY DEF StackLaid, LkPath
<1>2. Len(s) \in Nat \ {0}
    BY <1>1
<1>3. 1 \in 1..Len(s) /\ 1 \in 1..Len(q) /\ 2 \in 1..Len(q) /\ 1 + 1 = 2
    BY <1>1, <1>2
<1>4. s[1] \in LkOps /\ q[1] \in LkPts /\ q[2] \in LkPts
    BY <1>1, <1>3
<1>5. Link(s[1], q[1], q[2])
    BY <1>1, <1>3
<1>6. m \in 0..Len(s)
    BY DEF StackLaid, StackPlaced
<1>7. /\ s[1] = Op("iret", "handler") <=> 1 = m
      /\ s[1].op = "iret" => 1 = m \/ (1 > m /\ 1 = Len(s))
      /\ s[1].op = "pick" => x \in LkCPUs /\ 1 > m
      /\ s[1].op \in {"state", "sched", "intena"} => x \in Threads
    BY <1>3 DEF StackLaid, StackPlaced
<1> QED
    BY <1>1, <1>2, <1>4, <1>5, <1>6, <1>7

LEMMA EmptyFacts ==
    ASSUME NEW x, NEW m, NEW q, StackLaid(x, <<>>, m, q)
    PROVE  m = 0 /\ q[1] = Free({}) /\ ~Fk(<<>>)
<1>1. Len(<<>>) = 0
    OBVIOUS
<1> QED
    BY <1>1 DEF StackLaid, StackPlaced, LkPath, Fk

LEMMA LaidTail ==
    ASSUME NEW x, NEW s, NEW m, NEW q, StackLaid(x, s, m, q), s # <<>>
    PROVE  /\ StackLaid(x, Tail(s), Popped(m), Tail(q))
           /\ Tail(q)[1] = q[2]
           /\ s[1] # Op("iret", "forkret") => (Fk(Tail(s)) <=> Fk(s))
           /\ AtSched(Tail(s)) <=> s[1].op = "state"
           /\ Tail(s) = <<>> <=> Len(s) = 1
<1>1. /\ s \in Seq(LkOps) /\ q \in Seq(LkPts) /\ Len(s) \in Nat \ {0}
      /\ Len(q) = Len(s) + 1 /\ m \in 0..Len(s)
      /\ s[1] = Op("iret", "handler") <=> m = 1
      /\ Link(s[1], q[1], q[2])
      /\ Len(s) = 1 => q[2] = Free({})
    BY HeadFacts
<1> DEFINE s2 == Tail(s)
           q2 == Tail(q)
           m2 == Popped(m)
<1>2. /\ s2 \in Seq(LkOps) /\ Len(s2) = Len(s) - 1
      /\ \A i \in 1..Len(s2) : s2[i] = s[i + 1]
    BY <1>1
<1>3. /\ q2 \in Seq(LkPts) /\ Len(q2) = Len(s2) + 1
      /\ \A i \in 1..(Len(s2) + 1) : q2[i] = q[i + 1]
  <2>1. q # <<>>
    BY <1>1
  <2>2. Tail(q) \in Seq(LkPts) /\ Len(Tail(q)) = Len(q) - 1
        /\ \A i \in 1..Len(Tail(q)) : Tail(q)[i] = q[i + 1]
    BY <1>1, <2>1
  <2> QED
    BY <2>2, <1>1, <1>2
<1> HIDE DEF s2, q2
<1>4. m2 \in 0..Len(s2) /\ \A i \in Nat \ {0} : i = m2 <=> i + 1 = m
  <2>1. m \in Nat
    BY <1>1
  <2> QED
    BY <1>1, <1>2, <2>1 DEF Popped
<1>5. \A i \in 1..Len(s2) : i \in Nat \ {0} /\ i + 1 \in 1..Len(s)
    BY <1>1, <1>2
<1>6. LkPath(s2, q2, q2[1], Free({}))
  <2>1. q[Len(s) + 1] = Free({}) /\ \A i \in 1..Len(s) : Link(s[i], q[i], q[i + 1])
    BY DEF StackLaid, LkPath
  <2>2. Len(s2) + 1 \in 1..(Len(s2) + 1) /\ Len(s2) + 1 = Len(s)
    BY <1>1, <1>2
  <2>3. q2[Len(s2) + 1] = Free({})
    BY <2>1, <2>2, <1>3
  <2>4. ASSUME NEW i \in 1..Len(s2)
        PROVE  Link(s2[i], q2[i], q2[i + 1])
    <3>1. i \in 1..(Len(s2) + 1) /\ i + 1 \in 1..(Len(s2) + 1)
        BY <1>2, <1>1
    <3>2. s2[i] = s[i + 1] /\ q2[i] = q[i + 1] /\ q2[i + 1] = q[(i + 1) + 1]
        BY <3>1, <1>2, <1>3
    <3> QED
        BY <3>2, <2>1, <1>5
  <2> QED
    BY <1>2, <1>3, <2>3, <2>4 DEF LkPath
<1>7. StackPlaced(x, s2, m2, q2)
  <2>1. \A i \in 1..Len(s) :
            /\ s[i] = Op("iret", "handler") <=> i = m
            /\ s[i].op = "iret" => i = m \/ (i > m /\ i = Len(s))
            /\ s[i].op = "pick" => x \in LkCPUs /\ i > m
            /\ s[i].op \in {"state", "sched", "intena"} => x \in Threads
            /\ s[i].op = "intena" => i = 1
    BY DEF StackLaid, StackPlaced
  <2>2. ASSUME NEW i \in 1..Len(s2)
        PROVE  /\ s2[i] = Op("iret", "handler") <=> i = m2
               /\ s2[i].op = "iret" => i = m2 \/ (i > m2 /\ i = Len(s2))
               /\ s2[i].op = "pick" => x \in LkCPUs /\ i > m2
               /\ s2[i].op \in {"state", "sched", "intena"} => x \in Threads
               /\ s2[i].op = "intena" => i = 1
    <3>1. /\ i \in Nat \ {0} /\ i + 1 \in 1..Len(s) /\ s2[i] = s[i + 1]
          /\ i = m2 <=> i + 1 = m
        BY <1>2, <1>4, <1>5
    <3>2. m \in Nat /\ (i + 1 > m => i > m2) /\ (i + 1 = Len(s) => i = Len(s2))
        BY <3>1, <1>1, <1>2 DEF Popped
    <3>3. i + 1 # 1
        BY <3>1
    <3> HIDE DEF m2
    <3> QED
        BY <2>1, <3>1, <3>2, <3>3
  <2> HIDE DEF m2
  <2> QED
    BY <1>4, <2>2 DEF StackPlaced
<1>8. q2[1] = q[2]
  <2>1. 1 \in 1..(Len(s2) + 1)
    BY <1>1, <1>2
  <2> QED
    BY <2>1, <1>3
<1>9. s[1] # Op("iret", "forkret") => (Fk(s2) <=> Fk(s))
  <2>1. ASSUME Fk(s2)
        PROVE  Fk(s)
    BY <2>1, <1>2, <1>5 DEF Fk
  <2>2. ASSUME NEW j \in 1..Len(s), s[j] = Op("iret", "forkret"),
               s[1] # Op("iret", "forkret")
        PROVE  Fk(s2)
    <3>1. j # 1 /\ j - 1 \in 1..Len(s2) /\ (j - 1) + 1 = j
        BY <2>2, <1>1, <1>2
    <3> QED
        BY <3>1, <2>2, <1>2 DEF Fk
  <2> QED
    BY <2>1, <2>2 DEF Fk
<1>10. s2 = <<>> <=> Len(s) = 1
    BY <1>1, <1>2
<1>11. AtSched(s2) <=> s[1].op = "state"
  <2>1. ASSUME AtSched(s2)
        PROVE  s[1].op = "state"
    <3>1. 1 \in 1..Len(s2) /\ s2[1].op = "sched"
        BY <2>1, <1>2, <1>1, <1>10 DEF AtSched
    <3>2. Link(s2[1], q2[1], q2[1 + 1])
        BY <3>1, <1>6 DEF LkPath
    <3>3. q[2].pc = "stated"
        BY <3>1, <3>2, <1>8 DEF Link, LinkAcquire, LinkRelease, LinkSwitch, LinkIret,
                                AtSwtch, Pt
    <3> QED
        BY <3>3, <1>1 DEF Link, LinkAcquire, LinkRelease, LinkSwitch, LinkIret,
                          AtSwtch, Pt, Free
  <2>2. ASSUME s[1].op = "state"
        PROVE  AtSched(s2)
    <3>1. q[2] = AtSwtch
        BY <2>2, <1>1 DEF Link, LinkAcquire, LinkRelease, LinkSwitch, LinkIret
    <3>2. AtSwtch # Free({})
        BY DEF AtSwtch, Free, Pt
    <3>3. Len(s) # 1
        BY <3>1, <3>2, <1>1
    <3>4. 1 \in 1..Len(s2) /\ s2 # <<>> /\ s2[1] = s[1 + 1] /\ 1 + 1 \in 1..Len(s)
        BY <3>3, <1>1, <1>2
    <3>5. Link(s2[1], AtSwtch, q2[1 + 1])
        BY <3>1, <3>4, <1>6, <1>8 DEF LkPath
    <3>6. s2[1].op \in {"sched", "intena"}
        BY <3>5 DEF Link, LinkAcquire, LinkRelease, LinkSwitch, LinkIret,
                    AtSwtch, Pt, Free
    <3>7. s2[1].op # "intena"
        BY <3>4 DEF StackLaid, StackPlaced
    <3> QED
        BY <3>4, <3>6, <3>7 DEF AtSched
  <2> QED
    BY <2>1, <2>2
<1> QED
    BY <1>6, <1>7, <1>8, <1>9, <1>10, <1>11 DEF StackLaid, s2, q2

\* A step other than the reading of the flags leaves the values in place.
LEMMA GoodTail ==
    ASSUME NEW x, NEW s, NEW m, NEW q, StackGood(x, s, m, q), s # <<>>,
           s[1].op # "readeflags"
    PROVE  StackGood(x, Tail(s), Popped(m), Tail(q))
<1>0. StackLaid(x, s, m, q) /\ StackVals(x, s, m, q)
    BY DEF StackGood, StackLaid
<1> DEFINE s2 == Tail(s)
           q2 == Tail(q)
           m2 == Popped(m)
<1>1. /\ s \in Seq(LkOps) /\ q \in Seq(LkPts) /\ Len(s) \in Nat \ {0}
      /\ Len(q) = Len(s) + 1 /\ m \in 0..Len(s)
      /\ Link(s[1], q[1], q[2])
      /\ Len(s) = 1 => q[2] = Free({})
      /\ s[1] = Op("iret", "handler") <=> m = 1
      /\ s[1].op = "iret" => m = 1 \/ (m = 0 /\ Len(s) = 1)
    BY <1>0, HeadFacts
<1>2. /\ StackLaid(x, s2, m2, q2) /\ q2[1] = q[2]
      /\ s[1] # Op("iret", "forkret") => (Fk(s2) <=> Fk(s))
      /\ s2 = <<>> <=> Len(s) = 1
    BY <1>0, LaidTail
<1>3. q[2].pc = "flag" => m = 1
  <2>1. SUFFICES ASSUME q[2].pc = "flag"
                 PROVE  m = 1
    OBVIOUS
  <2>2. s[1].op = "iret"
    BY <2>1, <1>1 DEF Link, LinkAcquire, LinkRelease, LinkSwitch, LinkIret,
                      AtSwtch, Pt, Free
  <2>3. Len(s) # 1
    BY <2>1, <1>1 DEF Free, Pt
  <2> QED
    BY <2>2, <2>3, <1>1
<1>4. m \in Nat /\ m2 \in Nat /\ (m2 > 0 => m > 1) /\ (m > 0 => m2 + 1 = m)
      /\ (m = 0 => m2 = 0)
    BY <1>1 DEF Popped
<1>5. s2 # <<>> => s2[1].op # "intena"
  <2>1. SUFFICES ASSUME s2 # <<>>
                 PROVE  s2[1].op # "intena"
    OBVIOUS
  <2>2. s2[1] = s[1 + 1] /\ 1 + 1 \in 1..Len(s)
    BY <2>1, <1>1, <1>2
  <2> QED
    BY <2>2, <1>0 DEF StackLaid, StackPlaced
<1> HIDE DEF s2, q2, m2
<1>6. ASSUME x \in Threads, ~Fk(s2), q2[m2 + 1].pc = "flag", q2[m2 + 1].held = {}
      PROVE  s2[m2 + 1].val
  <2>1. m > 0
    BY <1>2, <1>3, <1>4, <1>6
  <2>2. m2 + 1 = m /\ q2[m] = q[m + 1]
    <3>1. m \in 1..Len(q2) /\ Len(q2) = Len(q) - 1
        BY <2>1, <1>1 DEF q2
    <3> QED
        BY <3>1, <2>1, <1>1, <1>4 DEF q2
  <2>3. q[m + 1].pc = "flag" /\ q[m + 1].held = {}
    BY <2>2, <1>6
  <2>4. m # Len(s)
    <3>1. q[Len(s) + 1] = Free({})
        BY <1>0 DEF StackLaid, LkPath
    <3> QED
        BY <3>1, <2>3 DEF Free, Pt
  <2>5. s2[m] = s[m + 1]
    BY <2>1, <2>4, <1>1 DEF s2
  <2>6. ~Fk(s)
    <3>1. s[1] = Op("iret", "forkret") => s[1].op = "iret" /\ m # 1
        BY <1>1 DEF Op
    <3>2. s[1] = Op("iret", "forkret") => FALSE
        BY <3>1, <2>1, <1>1
    <3> QED
        BY <3>2, <1>2, <1>6
  <2> QED
    BY <2>2, <2>3, <2>5, <2>6, <1>0, <1>6 DEF StackVals
<1>7. ~(m2 > 0 /\ q2[1].pc = "flag")
    BY <1>2, <1>3, <1>4
<1>8. StackVals(x, s2, m2, q2)
    BY <1>5, <1>6, <1>7 DEF StackVals
<1>9. StackGood(x, s2, m2, q2)
    BY <1>2, <1>8 DEF StackGood, StackLaid
<1> QED
    BY <1>9 DEF s2, q2, m2

\* Another step in the place of the first one.
LEMMA LaidRelabel ==
    ASSUME NEW x, NEW s, NEW m, NEW q, StackLaid(x, s, m, q), s # <<>>,
           NEW o \in LkOps, Link(o, q[1], q[2]),
           s[1].op # "iret", o.op \notin {"iret", "pick"},
           o.op \in {"state", "sched", "intena"} => x \in Threads
    PROVE  /\ StackLaid(x, [s EXCEPT ![1] = o], m, q)
           /\ Fk([s EXCEPT ![1] = o]) <=> Fk(s)
           /\ [s EXCEPT ![1] = o] # <<>> /\ [s EXCEPT ![1] = o][1] = o
           /\ m # 1
<1> DEFINE s2 == [s EXCEPT ![1] = o]
<1>1. /\ s \in Seq(LkOps) /\ q \in Seq(LkPts) /\ Len(s) \in Nat \ {0}
      /\ Len(q) = Len(s) + 1 /\ m \in 0..Len(s)
      /\ s[1] = Op("iret", "handler") <=> m = 1
    BY HeadFacts
<1>2. m # 1
    BY <1>1 DEF Op
<1>3. /\ s2 \in Seq(LkOps) /\ Len(s2) = Len(s) /\ s2[1] = o
      /\ \A i \in 1..Len(s) : i # 1 => s2[i] = s[i]
    BY <1>1
<1> HIDE DEF s2
<1>4. LkPath(s2, q, q[1], Free({}))
  <2>1. ASSUME NEW i \in 1..Len(s2)
        PROVE  Link(s2[i], q[i], q[i + 1])
    BY <1>1, <1>3 DEF StackLaid, LkPath
  <2> QED
    BY <2>1, <1>3 DEF LkPath, StackLaid
<1>5. o # Op("iret", "handler") /\ o # Op("iret", "forkret")
      /\ s[1] # Op("iret", "forkret")
    BY DEF Op
<1>6. StackPlaced(x, s2, m, q)
    BY <1>2, <1>3, <1>5 DEF StackLaid, StackPlaced
<1>7. Fk(s2) <=> Fk(s)
    BY <1>3, <1>5 DEF Fk
<1>8. s2 # <<>>
    BY <1>3, <1>1
<1> QED
    BY <1>2, <1>3, <1>4, <1>6, <1>7, <1>8 DEF StackLaid, s2

\* After readeflags() the value is that of FL_IF.
FlagsRead(x, s, m, q, v) ==
    LET s2 == [Tail(s) EXCEPT ![1].val = v] IN
    /\ StackGood(x, s2, Popped(m), Tail(q))
    /\ Tail(q)[1] = Pt(q[1].held, "flag", s[1].arg)
    /\ q[1] = Free(q[1].held)
    /\ Fk(s2) <=> Fk(s)
    /\ ~AtSched(s2) /\ s2 # <<>> /\ s2[1].op = "cli"
    /\ Popped(m) > 0 <=> m > 0

LEMMA GoodReadeflags ==
    ASSUME NEW x, NEW s, NEW m, NEW q, StackGood(x, s, m, q), s # <<>>,
           s[1].op = "readeflags", NEW v \in BOOLEAN,
           q[1].held = {} /\ m > 0 => ~v,
           q[1].held = {} /\ m = 0 /\ x \in Threads /\ ~Fk(s) => v
    PROVE  FlagsRead(x, s, m, q, v)
<1> DEFINE t == Tail(s)
           q2 == Tail(q)
           m2 == Popped(m)
           h == q[1].held
<1>0. StackLaid(x, s, m, q) /\ StackVals(x, s, m, q)
    BY DEF StackGood, StackLaid
<1>1. /\ s \in Seq(LkOps) /\ q \in Seq(LkPts) /\ Len(s) \in Nat \ {0}
      /\ Len(q) = Len(s) + 1 /\ m \in 0..Len(s)
      /\ Link(s[1], q[1], q[2])
      /\ Len(s) = 1 => q[2] = Free({})
      /\ s[1] = Op("iret", "handler") <=> m = 1
    BY <1>0, HeadFacts
<1>2. /\ StackLaid(x, t, m2, q2) /\ q2[1] = q[2]
      /\ s[1] # Op("iret", "forkret") => (Fk(t) <=> Fk(s))
      /\ AtSched(t) <=> s[1].op = "state"
      /\ t = <<>> <=> Len(s) = 1
    BY <1>0, LaidTail
<1>3. q[1] = Free(h) /\ q[2] = Pt(h, "flag", s[1].arg)
    BY <1>1 DEF Link, LinkAcquire, LinkRelease, LinkSwitch, LinkIret
<1>4. t # <<>>
    BY <1>1, <1>2, <1>3 DEF Pt, Free
<1>5. m # 1 /\ s[1] # Op("iret", "forkret")
    BY <1>1 DEF Op
<1>6. m \in Nat /\ m2 \in Nat /\ (m2 > 0 <=> m > 0) /\ (m > 0 => m2 + 1 = m)
      /\ (m = 0 => m2 = 0)
    BY <1>1, <1>5 DEF Popped
<1> HIDE DEF t, q2, m2
<1>7. t \in Seq(LkOps) /\ t[1] \in LkOps /\ Len(t) \in Nat \ {0} /\ q2[2] \in LkPts
      /\ Link(t[1], q2[1], q2[2])
    BY <1>2, <1>4, HeadFacts
<1>8. t[1].op = "cli"
    BY <1>2, <1>3, <1>7 DEF Link, LinkAcquire, LinkRelease, LinkSwitch, LinkIret,
                            AtSwtch, Pt, Free
<1> DEFINE o == [t[1] EXCEPT !.val = v]
           s2 == [t EXCEPT ![1].val = v]
<1>9. o \in LkOps /\ o.op = "cli" /\ o.arg = t[1].arg /\ o.val = v
    BY <1>7, <1>8 DEF LkOps
<1>10. Link(o, q2[1], q2[2])
    BY <1>7, <1>8, <1>9 DEF Link, LinkAcquire, LinkRelease, LinkSwitch, LinkIret
<1>11. s2 = [t EXCEPT ![1] = o]
    OBVIOUS
<1> HIDE DEF o, s2
<1>12. /\ StackLaid(x, s2, m2, q2) /\ (Fk(s2) <=> Fk(t))
       /\ s2 # <<>> /\ s2[1] = o
  <2>1. t[1].op # "iret" /\ o.op \notin {"iret", "pick", "state", "sched", "intena"}
    BY <1>8, <1>9
  <2>2. StackLaid(x, t, m2, q2)
    BY <1>2
  <2>3. /\ StackLaid(x, [t EXCEPT ![1] = o], m2, q2)
        /\ Fk([t EXCEPT ![1] = o]) <=> Fk(t)
        /\ [t EXCEPT ![1] = o] # <<>> /\ [t EXCEPT ![1] = o][1] = o
    BY <2>1, <2>2, <1>4, <1>9, <1>10, LaidRelabel
  <2> QED
    BY <2>3, <1>11
<1>13. ~AtSched(s2)
    BY <1>12, <1>9 DEF AtSched
<1>14. ASSUME x \in Threads, ~Fk(s2), q2[m2 + 1].pc = "flag", q2[m2 + 1].held = {}
       PROVE  s2[m2 + 1].val
  <2>1. ~Fk(s)
    BY <1>2, <1>5, <1>12, <1>14
  <2>2. CASE m = 0
    <3>1. m2 + 1 = 1 /\ h = {}
        BY <2>2, <1>2, <1>3, <1>6, <1>14 DEF Pt
    <3> QED
        BY <3>1, <2>1, <2>2, <1>9, <1>12, <1>14
  <2>3. CASE m > 0
    <3>1. m2 + 1 = m /\ q2[m] = q[m + 1]
      <4>1. m \in 1..Len(q2) /\ Len(q2) = Len(q) - 1
        BY <2>3, <1>1 DEF q2
      <4> QED
        BY <4>1, <2>3, <1>1, <1>6 DEF q2
    <3>2. q[m + 1].pc = "flag" /\ q[m + 1].held = {}
        BY <3>1, <1>14
    <3>3. m # Len(s)
      <4>1. q[Len(s) + 1] = Free({})
        BY <1>0 DEF StackLaid, LkPath
      <4> QED
        BY <4>1, <3>2 DEF Free, Pt
    <3>4. t[m] = s[m + 1] /\ s2[m] = t[m]
      <4>1. t[m] = s[m + 1] /\ m \in 1..Len(t) /\ m # 1
        BY <2>3, <3>3, <1>1, <1>5 DEF t
      <4> QED
        BY <4>1, <1>7, <1>11
    <3> QED
        BY <3>1, <3>2, <3>4, <2>1, <1>0, <1>14 DEF StackVals
  <2> QED
    BY <2>2, <2>3, <1>6
<1>15. m2 > 0 /\ q2[1].pc = "flag" /\ q2[1].held = {} => ~s2[1].val
    BY <1>2, <1>3, <1>6, <1>9, <1>12 DEF Pt
<1>16. s2[1].op # "intena" /\ s2[1].op = "cli"
    BY <1>9, <1>12
<1>17. StackGood(x, s2, m2, q2)
    BY <1>12, <1>14, <1>15, <1>16 DEF StackGood, StackLaid, StackVals
<1> QED
    BY <1>2, <1>3, <1>5, <1>6, <1>12, <1>13, <1>16, <1>17 DEF FlagsRead, s2, t, m2, q2

\* sched() keeps the value of intena in the frame it leaves.
SchedLeaves(s, v) == [s EXCEPT ![1].op = "intena", ![1].val = v]

LEMMA GoodSched ==
    ASSUME NEW x, NEW s, NEW m, NEW q, StackGood(x, s, m, q), s # <<>>,
           s[1].op = "sched", NEW v \in BOOLEAN,
           m > 0 => ~v, m = 0 /\ ~Fk(s) => v
    PROVE  /\ StackGood(x, SchedLeaves(s, v), m, q) /\ q[1] = AtSwtch
           /\ SchedLeaves(s, v) # <<>> /\ SchedLeaves(s, v)[1].op = "intena"
<1> DEFINE o == [s[1] EXCEPT !.op = "intena", !.val = v]
           s2 == SchedLeaves(s, v)
<1>0. StackLaid(x, s, m, q) /\ StackVals(x, s, m, q)
    BY DEF StackGood, StackLaid
<1>1. /\ s \in Seq(LkOps) /\ s[1] \in LkOps /\ m \in 0..Len(s) /\ Len(s) \in Nat \ {0}
      /\ Link(s[1], q[1], q[2]) /\ x \in Threads
    BY <1>0, HeadFacts
<1>2. o \in LkOps /\ o.op = "intena" /\ o.val = v
    BY <1>1 DEF LkOps, LkNames
<1>3. q[1] = AtSwtch /\ Link(o, q[1], q[2])
    BY <1>1, <1>2 DEF Link, LinkAcquire, LinkRelease, LinkSwitch, LinkIret
<1>4. s2 = [s EXCEPT ![1] = o]
    BY <1>1 DEF SchedLeaves
<1> HIDE DEF o, s2
<1>5. /\ StackLaid(x, s2, m, q) /\ (Fk(s2) <=> Fk(s))
      /\ s2 # <<>> /\ s2[1] = o /\ m # 1
  <2>1. s[1].op # "iret" /\ o.op \notin {"iret", "pick"}
    BY <1>2
  <2>2. /\ StackLaid(x, [s EXCEPT ![1] = o], m, q)
        /\ Fk([s EXCEPT ![1] = o]) <=> Fk(s)
        /\ [s EXCEPT ![1] = o] # <<>> /\ [s EXCEPT ![1] = o][1] = o
        /\ m # 1
    BY <2>1, <1>0, <1>1, <1>2, <1>3, LaidRelabel
  <2> QED
    BY <2>2, <1>4
<1>6. q[1].pc # "flag"
    BY <1>3 DEF AtSwtch, Pt
<1>7. ASSUME x \in Threads, ~Fk(s2), q[m + 1].pc = "flag", q[m + 1].held = {}
      PROVE  s2[m + 1].val
  <2>1. m # 0
    BY <1>6, <1>7
  <2>2. m # Len(s)
    <3>1. q[Len(s) + 1] = Free({})
        BY <1>0 DEF StackLaid, LkPath
    <3> QED
        BY <3>1, <1>7 DEF Free, Pt
  <2>3. m + 1 \in 1..Len(s) /\ m + 1 # 1
    BY <2>1, <2>2, <1>1
  <2>4. s2[m + 1] = s[m + 1]
    BY <2>3, <1>1, <1>4
  <2> QED
    BY <2>4, <1>0, <1>5, <1>7 DEF StackVals
<1>8. StackVals(x, s2, m, q)
    BY <1>2, <1>5, <1>6, <1>7 DEF StackVals
<1> QED
    BY <1>2, <1>3, <1>5, <1>8 DEF StackGood, StackLaid, s2

-----------------------------------------------------------------------------
(* Calls and interrupts.                                                   *)

LkTame(x, p) ==
    \A i \in 1..Len(p) :
        /\ p[i] # Op("iret", "handler") /\ p[i].op # "intena"
        /\ p[i].op = "iret" => i = Len(p)
        /\ p[i].op = "pick" => x \in LkCPUs
        /\ p[i].op \in {"state", "sched"} => x \in Threads

LEMMA TameGood ==
    ASSUME NEW x, NEW p, NEW q, NEW a, LkPath(p, q, a, Free({})), LkTame(x, p),
           x \in Threads => a.pc # "flag"
    PROVE  StackGood(x, p, 0, q) /\ q[1] = a
<1>1. p \in Seq(LkOps) /\ q[1] = a
    BY DEF LkPath
<1>2. StackPlaced(x, p, 0, q)
  <2>1. ASSUME NEW i \in 1..Len(p)
        PROVE  i \in Nat /\ i > 0 /\ i # 0
    BY <1>1
  <2>2. 0 \in 0..Len(p)
    BY <1>1
  <2> QED
    BY <2>1, <2>2 DEF StackPlaced, LkTame
<1>3. StackVals(x, p, 0, q)
  <2>1. p # <<>> => 1 \in 1..Len(p)
    BY <1>1
  <2> QED
    BY <2>1, <1>1 DEF StackVals, LkTame
<1> QED
    BY <1>1, <1>2, <1>3 DEF StackGood

LEMMA EmptyGood ==
    ASSUME NEW x
    PROVE  StackGood(x, <<>>, 0, <<Free({})>>)
<1>1. LkPath(<<>>, <<Free({})>>, Free({}), Free({}))
    BY PtsKnown DEF LkPath
<1>2. LkTame(x, <<>>) /\ Free({}).pc # "flag"
    BY DEF LkTame, Free, Pt
<1> QED
    BY <1>1, <1>2, TameGood

LEMMA FreeNotAtSched ==
    ASSUME NEW x, NEW s, NEW m, NEW q, StackGood(x, s, m, q), q[1].pc # "stated"
    PROVE  ~AtSched(s) /\ (s # <<>> => s[1].op # "intena")
<1>1. s # <<>> => Link(s[1], q[1], q[2])
    BY HeadFacts DEF StackGood, StackLaid
<1> QED
    BY <1>1 DEF AtSched, Link, LinkAcquire, LinkRelease, LinkSwitch, LinkIret,
                AtSwtch, Pt

LEMMA IretKnown ==
    ASSUME NEW kind \in {"syscall", "handler", "forkret"}
    PROVE  Op("iret", kind) \in LkOps
BY DEF Op, LkOps, LkNames, LkArgs

LEMMA AppendFacts ==
    ASSUME NEW S, NEW p \in Seq(S), NEW o \in S
    PROVE  /\ p \o <<o>> \in Seq(S) /\ Len(p \o <<o>>) = Len(p) + 1
           /\ \A i \in 1..(Len(p) + 1) :
                (p \o <<o>>)[i] = IF i = Len(p) + 1 THEN o ELSE p[i]
<1>1. <<o>> \in Seq(S) /\ Len(<<o>>) = 1 /\ <<o>>[1] = o
    OBVIOUS
<1>2. \A i \in 1..(Len(p) + 1) : ~(i <= Len(p)) => i = Len(p) + 1 /\ i - Len(p) = 1
    OBVIOUS
<1> QED
    BY <1>1, <1>2, JoinedSeq

LEMMA GoodSyscall ==
    ASSUME NEW x \in Threads, NEW p, Leads(x, p, Free({}), Free({}))
    PROVE  \E q : /\ StackGood(x, p \o <<Op("iret", "syscall")>>, 0, q)
                  /\ q[1] = Free({})
                  /\ ~Fk(p \o <<Op("iret", "syscall")>>)
<1> DEFINE o == Op("iret", "syscall")
           s == p \o <<o>>
<1>1. o \in LkOps /\ o # Op("iret", "handler") /\ o # Op("iret", "forkret")
      /\ o.op = "iret"
    BY IretKnown DEF Op
<1>2. PICK q1 : LkPath(p, q1, Free({}), Free({}))
    BY DEF Leads
<1>3. Link(o, Free({}), Free({}))
    BY <1>1 DEF Link, LinkIret, Free, Pt
<1> HIDE DEF o
<1>4. LkPath(<<o>>, <<Free({}), Free({})>>, Free({}), Free({}))
    BY <1>1, <1>3, OneLeads, PtsKnown
<1>5. PICK q : LkPath(s, q, Free({}), Free({}))
    BY <1>2, <1>4, PathsJoin
<1>6. p \in Seq(LkOps)
    BY <1>2 DEF LkPath
<1>7. Len(s) = Len(p) + 1 /\ \A i \in 1..Len(s) : s[i] = IF i = Len(s) THEN o ELSE p[i]
    BY <1>1, <1>6, AppendFacts
<1>8. \A i \in 1..Len(s) : i # Len(s) => i \in 1..Len(p)
    BY <1>6, <1>7
<1> HIDE DEF s
<1>9. LkTame(x, s) /\ ~Fk(s)
  <2>1. ASSUME NEW i \in 1..Len(p)
        PROVE  p[i].op \notin {"iret", "intena", "pick"}
    BY DEF Leads, LkPlain
  <2>2. \A i \in 1..Len(p) : \A kind : p[i] # Op("iret", kind)
    BY <2>1 DEF Op
  <2>3. o.op \notin {"intena", "pick", "state", "sched"}
    BY <1>1
  <2> QED
    BY <2>1, <2>2, <2>3, <1>1, <1>7, <1>8 DEF LkTame, Fk
<1>10. Free({}).pc # "flag"
    BY DEF Free, Pt
<1> QED
    BY <1>5, <1>9, <1>10, TameGood DEF s, o

LEMMA GoodSti ==
    ASSUME NEW x \in LkCPUs
    PROVE  \E q : /\ StackGood(x, AcquireOps(PtableLock) \o <<Op("pick", PtableLock)>>
                                  \o ReleaseOps(PtableLock), 0, q)
                  /\ q[1] = Free({})
<1> DEFINE P == {PtableLock}
           o == Op("pick", PtableLock)
           pa == AcquireOps(PtableLock)
           pr == ReleaseOps(PtableLock)
           s == pa \o <<o>> \o pr
<1>1. /\ PtableLock \in Locks \ {} /\ {} \in SUBSET Locks /\ P \in SUBSET Locks
      /\ IsFiniteSet({}) /\ IsFiniteSet(P) /\ {} \cup P = P /\ P \ {PtableLock} = {}
      /\ PtableLock \in P
    BY FS_EmptySet, FS_Singleton DEF Locks
<1>2. o \in LkOps /\ Link(o, Free(P), Free(P))
    BY <1>1 DEF Op, LkOps, LkNames, LkArgs, Link, LinkSwitch
<1>3. Free(P) \in LkPts
    BY <1>1, FreeIsPt
<1> HIDE DEF P
<1>4. PICK q1 : LkPath(pa, q1, Free({}), Free(P))
    BY <1>1, AcquireLeads DEF Leads
<1>5. PICK q3 : LkPath(pr, q3, Free(P), Free({}))
    BY <1>1, ReleaseLeads DEF Leads
<1>6. LkPath(<<o>>, <<Free(P), Free(P)>>, Free(P), Free(P))
    BY <1>2, <1>3, OneLeads
<1>7. PICK q2 : LkPath(pa \o <<o>>, q2, Free({}), Free(P))
    BY <1>4, <1>6, PathsJoin
<1>8. PICK q : LkPath(s, q, Free({}), Free({}))
    BY <1>5, <1>7, PathsJoin
<1>9. LkTame(x, s)
  <2> DEFINE t == pa \o <<o>>
             Fine(y) == y.op \in {"readeflags", "cli", "xchg", "own", "pick",
                                  "disown", "unlock"}
  <2>1. /\ pa \in Seq(LkOps) /\ pr \in Seq(LkOps) /\ Len(pa) = 4 /\ Len(pr) = 2
    BY <1>4, <1>5 DEF LkPath, AcquireOps, ReleaseOps
  <2>2. (\A i \in 1..4 : Fine(pa[i])) /\ (\A i \in 1..2 : Fine(pr[i])) /\ Fine(o)
    BY DEF AcquireOps, ReleaseOps, Op
  <2> HIDE DEF pa, pr, o, Fine
  <2>3. /\ t \in Seq(LkOps) /\ Len(t) = 5
        /\ \A i \in 1..5 : t[i] = IF i = 5 THEN o ELSE pa[i]
    <3>1. pa \in Seq(LkOps) /\ o \in LkOps
        BY <2>1, <1>2
    <3>2. /\ t \in Seq(LkOps) /\ Len(t) = Len(pa) + 1
          /\ \A i \in 1..(Len(pa) + 1) : t[i] = IF i = Len(pa) + 1 THEN o ELSE pa[i]
        BY <3>1, AppendFacts
    <3> HIDE DEF t
    <3> QED
        BY <3>2, <2>1
  <2> HIDE DEF t
  <2>4. \A i \in 1..5 : Fine(t[i])
    BY <2>2, <2>3
  <2>5. Len(t \o pr) = 7
        /\ \A i \in 1..7 : (t \o pr)[i] = IF i <= 5 THEN t[i] ELSE pr[i - 5]
    <3>1. t \in Seq(LkOps) /\ pr \in Seq(LkOps)
        BY <2>1, <2>3
    <3>2. /\ Len(t \o pr) = Len(t) + Len(pr)
          /\ \A i \in 1..Len(t \o pr) :
                (t \o pr)[i] = IF i <= Len(t) THEN t[i] ELSE pr[i - Len(t)]
        BY <3>1, JoinedSeq
    <3> QED
        BY <3>2, <2>1, <2>3
  <2>6. s = t \o pr
    BY DEF t
  <2> HIDE DEF s
  <2>7. ASSUME NEW i \in 1..7
        PROVE  Fine(s[i])
    <3>1. CASE i \in 1..5
      <4>1. s[i] = t[i]
        BY <3>1, <2>5, <2>6
      <4> QED
        BY <3>1, <4>1, <2>4
    <3>2. CASE i \notin 1..5
      <4>1. i - 5 \in 1..2 /\ ~(i <= 5)
        BY <3>2
      <4>2. s[i] = pr[i - 5]
        BY <4>1, <2>5, <2>6
      <4> QED
        BY <4>1, <4>2, <2>2
    <3> QED
        BY <3>1, <3>2
  <2>8. \A y : Fine(y) => y # Op("iret", "handler")
    BY DEF Fine, Op
  <2> QED
    <3>1. \A y : Fine(y) => y.op \notin {"iret", "intena", "state", "sched"}
        BY DEF Fine
    <3>2. Len(s) = 7
        BY <2>5, <2>6
    <3> QED
        BY <3>1, <3>2, <2>7, <2>8 DEF LkTame
<1>10. Free({}).pc # "flag"
    BY DEF Free, Pt
<1> QED
    BY <1>8, <1>9, <1>10, TameGood

LEMMA GoodForkret ==
    ASSUME NEW x
    PROVE  \E q : /\ StackGood(x, ForkretOps, 0, q)
                  /\ q[1] = Free({PtableLock}) /\ Fk(ForkretOps)
<1> DEFINE P == {PtableLock}
           o == Op("iret", "forkret")
           pr == ReleaseOps(PtableLock)
           s == pr \o <<o>>
<1>1. /\ P \in SUBSET Locks /\ IsFiniteSet(P) /\ P \ {PtableLock} = {}
      /\ PtableLock \in P
    BY FS_Singleton DEF Locks
<1>2. o \in LkOps /\ Link(o, Free({}), Free({})) /\ o.op = "iret"
      /\ o # Op("iret", "handler")
    BY IretKnown DEF Op, Link, LinkIret, Free, Pt
<1> HIDE DEF P, o
<1>3. PICK q1 : LkPath(pr, q1, Free(P), Free({}))
    BY <1>1, ReleaseLeads DEF Leads
<1>4. LkPath(<<o>>, <<Free({}), Free({})>>, Free({}), Free({}))
    BY <1>2, OneLeads, PtsKnown
<1>5. PICK q : LkPath(s, q, Free(P), Free({}))
    BY <1>3, <1>4, PathsJoin
<1>6. pr \in Seq(LkOps) /\ Len(pr) = 2
      /\ pr[1].op = "disown" /\ pr[2].op = "unlock"
    BY <1>3 DEF LkPath, ReleaseOps, Op
<1> HIDE DEF pr
<1>7. Len(s) = 3 /\ s[1] = pr[1] /\ s[2] = pr[2] /\ s[3] = o
  <2>1. /\ Len(pr \o <<o>>) = Len(pr) + 1
        /\ \A i \in 1..(Len(pr) + 1) :
                (pr \o <<o>>)[i] = IF i = Len(pr) + 1 THEN o ELSE pr[i]
    <3>1. pr \in Seq(LkOps) /\ o \in LkOps
        BY <1>2, <1>6
    <3> QED
        BY <3>1, AppendFacts
  <2> HIDE DEF s
  <2> QED
    BY <2>1, <1>6 DEF s
<1> HIDE DEF s
<1>8. LkTame(x, s) /\ Fk(s)
  <2>1. \A i \in 1..Len(s) : i = 1 \/ i = 2 \/ i = 3
    BY <1>7
  <2>2. s[1] # Op("iret", "handler") /\ s[2] # Op("iret", "handler")
    BY <1>6, <1>7 DEF Op
  <2>3. 3 \in 1..Len(s)
    BY <1>7
  <2> QED
    BY <2>1, <2>2, <2>3, <1>2, <1>6, <1>7 DEF LkTame, Fk, o
<1>9. Free(P).pc # "flag"
    BY DEF Free, Pt
<1> QED
    BY <1>5, <1>8, <1>9, TameGood DEF s, o, pr, P, ForkretOps

\* An interrupt comes where no lock is held and no acquire() is past cli().
LEMMA GoodInterrupt ==
    ASSUME NEW x, NEW s, NEW q, StackGood(x, s, 0, q),
           q[1].held = {}, q[1].pc \in {"free", "flag"},
           NEW p, Leads(x, p, Free({}), Free({}))
    PROVE  LET u == p \o <<Op("iret", "handler")>> \o s IN
           \E q2 : /\ StackGood(x, u, Len(p) + 1, q2)
                   /\ q2[1] = Free({})
                   /\ Fk(u) <=> Fk(s)
<1> DEFINE o == Op("iret", "handler")
           t == p \o <<o>>
           u == t \o s
           n == Len(p) + 1
<1>1. o \in LkOps /\ o # Op("iret", "forkret") /\ o.op = "iret"
    BY IretKnown DEF Op
<1>2. PICK q1 : LkPath(p, q1, Free({}), Free({}))
    BY DEF Leads
<1>3. LkPath(s, q, q[1], Free({})) /\ StackPlaced(x, s, 0, q) /\ StackVals(x, s, 0, q)
    BY DEF StackGood
<1>4. p \in Seq(LkOps) /\ s \in Seq(LkOps) /\ q \in Seq(LkPts) /\ Len(q) = Len(s) + 1
    BY <1>2, <1>3 DEF LkPath
<1>5. q[1] \in LkPts
    BY <1>4
<1>6. Link(o, Free({}), q[1])
    BY <1>1 DEF Link, LinkIret
<1>7. LkPath(<<o>>, <<Free({}), q[1]>>, Free({}), q[1])
    BY <1>1, <1>5, <1>6, OneLeads, PtsKnown
<1>o. o = Op("iret", "handler")
    OBVIOUS
<1> HIDE DEF o
<1>8. PICK q3 : LkPath(t, q3, Free({}), q[1])
    BY <1>2, <1>7, PathsJoin
<1>9. /\ t \in Seq(LkOps) /\ Len(t) = n
      /\ \A i \in 1..n : t[i] = IF i = n THEN o ELSE p[i]
    BY <1>1, <1>4, AppendFacts
<1>n. n \in Nat \ {0} /\ n = Len(p) + 1
    BY <1>4
<1> HIDE DEF t, n
<1>10. PICK q2 : LkPath(u, q2, Free({}), Free({})) /\ q2[n + 1] = q[1]
  <2>1. \E q2 : LkPath(t \o s, q2, Free({}), Free({})) /\ q2[Len(t) + 1] = q[1]
    <3> DEFINE b == q[1]
    <3>1. LkPath(t, q3, Free({}), b) /\ LkPath(s, q, b, Free({}))
        BY <1>3, <1>8
    <3> HIDE DEF b
    <3>2. \E q2 : LkPath(t \o s, q2, Free({}), Free({})) /\ q2[Len(t) + 1] = b
        BY <3>1, PathsJoin
    <3> QED
        BY <3>2 DEF b
  <2> QED
    BY <2>1, <1>9
<1>11. /\ Len(u) = n + Len(s)
       /\ \A i \in 1..Len(u) : u[i] = IF i <= n THEN t[i] ELSE s[i - n]
  <2>1. /\ Len(t \o s) = Len(t) + Len(s)
        /\ \A i \in 1..Len(t \o s) : (t \o s)[i] = IF i <= Len(t) THEN t[i]
                                                   ELSE s[i - Len(t)]
    BY <1>4, <1>9, JoinedSeq
  <2> QED
    BY <2>1, <1>9
<1> HIDE DEF u
<1>12. Len(s) \in Nat
    BY <1>4
<1>13. \A i \in 1..Len(p) :
            /\ p[i].op \notin {"iret", "pick", "intena"}
            /\ p[i].op \in {"state", "sched"} => x \in Threads
    BY DEF Leads, LkPlain
<1>14. ~AtSched(s) /\ (s # <<>> => s[1].op # "intena")
    BY FreeNotAtSched
<1>15. ASSUME NEW i \in 1..Len(u)
       PROVE  \/ i < n /\ i \in 1..Len(p) /\ u[i] = p[i]
              \/ i = n /\ u[i] = o
              \/ i > n /\ i - n \in 1..Len(s) /\ u[i] = s[i - n]
  <2>1. CASE i < n
    BY <2>1, <1>4, <1>9, <1>11, <1>n
  <2>2. CASE i = n
    BY <2>2, <1>9, <1>11, <1>n
  <2>3. CASE i > n
    BY <2>3, <1>11, <1>12, <1>n
  <2> QED
    BY <2>1, <2>2, <2>3, <1>n
<1>16. StackPlaced(x, u, n, q2)
  <2>1. ASSUME NEW i \in 1..Len(u)
        PROVE  /\ u[i] = Op("iret", "handler") <=> i = n
               /\ u[i].op = "iret" => i = n \/ (i > n /\ i = Len(u))
               /\ u[i].op = "pick" => x \in LkCPUs /\ i > n
               /\ u[i].op \in {"state", "sched", "intena"} => x \in Threads
               /\ u[i].op = "intena" => i = 1
    <3>1. CASE i < n /\ i \in 1..Len(p) /\ u[i] = p[i]
      <4>1. u[i].op # "iret"
        BY <3>1, <1>13
      <4>2. u[i] # Op("iret", "handler")
        BY <4>1 DEF Op
      <4> QED
        BY <4>1, <4>2, <3>1, <1>13
    <3>2. CASE i = n /\ u[i] = o
        BY <3>2, <1>1, <1>o
    <3>3. CASE i > n /\ i - n \in 1..Len(s) /\ u[i] = s[i - n]
      <4>1. /\ s[i - n] # Op("iret", "handler")
            /\ s[i - n].op = "iret" => i - n = Len(s)
            /\ s[i - n].op = "pick" => x \in LkCPUs
            /\ s[i - n].op \in {"state", "sched", "intena"} => x \in Threads
            /\ s[i - n].op = "intena" => i - n = 1
        <5>1. i - n # 0
            BY <3>3
        <5> QED
            BY <5>1, <3>3, <1>3 DEF StackPlaced
      <4>2. s[i - n].op # "intena"
        <5>1. s # <<>>
            BY <3>3, <1>4
        <5> QED
            BY <5>1, <4>1, <1>14
      <4>3. i - n = Len(s) => i = Len(u)
        BY <1>11, <1>12, <1>n
      <4> QED
        BY <3>3, <4>1, <4>2, <4>3
    <3> QED
        BY <3>1, <3>2, <3>3, <1>15
  <2>2. n \in 0..Len(u)
    BY <1>11, <1>12, <1>n
  <2> QED
    BY <2>1, <2>2 DEF StackPlaced
<1>17. q2[1] = Free({}) /\ u \in Seq(LkOps)
    BY <1>10 DEF LkPath
<1>18. Fk(u) <=> Fk(s)
  <2>1. ASSUME NEW i \in 1..Len(u), u[i] = Op("iret", "forkret")
        PROVE  Fk(s)
    <3>1. u[i].op = "iret"
        BY <2>1 DEF Op
    <3> QED
        BY <3>1, <2>1, <1>1, <1>13, <1>15 DEF Fk
  <2>2. ASSUME NEW i \in 1..Len(s), s[i] = Op("iret", "forkret")
        PROVE  Fk(u)
    <3>1. i + n \in 1..Len(u) /\ ~(i + n <= n) /\ (i + n) - n = i
        BY <1>11, <1>12, <1>n
    <3>2. u[i + n] = s[i]
        BY <3>1, <1>11
    <3> QED
        BY <3>1, <3>2, <2>2 DEF Fk
  <2> QED
    BY <2>1, <2>2 DEF Fk
<1>19. StackVals(x, u, n, q2)
  <2>1. u # <<>> => u[1].op # "intena"
    <3>1. 1 \in 1..Len(u)
        BY <1>11, <1>12, <1>n
    <3>2. 1 <= n
        BY <1>n
    <3>3. u[1] = o \/ \E i \in 1..Len(p) : u[1] = p[i]
        BY <3>1, <3>2, <1>15, <1>n
    <3> QED
        BY <3>3, <1>1, <1>13
  <2>2. ASSUME x \in Threads, ~Fk(u), q2[n + 1].pc = "flag", q2[n + 1].held = {}
        PROVE  u[n + 1].val
    <3>1. q[1].pc = "flag" /\ q[1].held = {} /\ ~Fk(s) /\ 0 + 1 = 1
        BY <2>2, <1>10, <1>18
    <3>2. s[1].val
        BY <3>1, <2>2, <1>3 DEF StackVals
    <3>3. Len(s) # 0
      <4>1. q[Len(s) + 1] = Free({})
        BY <1>3 DEF LkPath
      <4> QED
        BY <4>1, <3>1 DEF Free, Pt
    <3>4. n + 1 \in 1..Len(u) /\ ~(n + 1 <= n) /\ (n + 1) - n = 1
        BY <3>3, <1>11, <1>12, <1>n
    <3> QED
        BY <3>2, <3>4, <1>11
  <2>3. q2[1].pc # "flag"
    BY <1>17 DEF Free, Pt
  <2> QED
    BY <2>1, <2>2, <2>3 DEF StackVals
<1>20. StackGood(x, u, n, q2) /\ q2[1] = Free({}) /\ (Fk(u) <=> Fk(s))
    BY <1>10, <1>16, <1>17, <1>18, <1>19 DEF StackGood
<1> QED
    BY <1>20, <1>n, <1>o DEF u, t

-----------------------------------------------------------------------------
(* The inductive invariant.                                                *)

LEMMA BusyFacts ==
    ASSUME NEW a \in LkPts
    PROVE  /\ a.held \subseteq Busy(a) /\ Busy(a) \subseteq Locks
           /\ a.held \in SUBSET Locks /\ IsFiniteSet(a.held) /\ a.lk \in Locks
           /\ Cardinality(a.held) \in Nat
           /\ a.pc \in {"taken", "dis"} => Busy(a) = a.held \cup {a.lk}
           /\ a.pc \notin {"taken", "dis"} => Busy(a) = a.held
           /\ a.pc \in OnLock => a.lk \notin a.held
<1>1. a.held \in SUBSET Locks /\ IsFiniteSet(a.held) /\ a.lk \in Locks
    BY DEF LkPts
<1>2. Cardinality(a.held) \in Nat
    BY <1>1, FS_CardinalityType
<1> QED
    BY <1>1, <1>2 DEF LkPts, Busy

\* A step of the CPU c on its stack, that may change locks only it has to do
\* with: s2, m2 and q2 are the stack after it, and so on.
LkMove(on, k, ts, c, s2, m2, q2, it2, nc2, ie2, lo2, lc2, ts2) ==
    /\ it2 \in BOOLEAN /\ nc2 \in Nat /\ ie2 \in BOOLEAN
    /\ lo2 \in [Locks -> BOOLEAN] /\ lc2 \in [Locks -> LkCPUs \cup {NoLkCPU}]
    /\ ts2 \in [Threads -> {"RUNNABLE", "RUNNING", "SLEEPING"}]
    /\ StackGood(on[c], s2, m2, q2)
    /\ FlagsGood(on[c], s2, m2, q2[1], nc2, it2, ie2)
    /\ OwnsGood(c, q2[1], lo2, lc2)
    /\ \A d \in LkCPUs \ {c} :
            /\ OwnsGood(d, k[on[d]][1], lo2, lc2)
            /\ Busy(q2[1]) \cap Busy(k[on[d]][1]) = {}
    /\ on[c] \in Threads => (ts2[on[c]] = "RUNNING" <=> ~AtSched(s2))
    /\ \A t \in Threads \ {on[c]} : ts2[t] = "RUNNING" <=> ts[t] = "RUNNING"

\* One that touches no lock.
LkQuietMove(on, k, ts, c, s2, m2, q2, it2, nc2, ie2, ts2) ==
    /\ it2 \in BOOLEAN /\ nc2 \in Nat /\ ie2 \in BOOLEAN
    /\ ts2 \in [Threads -> {"RUNNABLE", "RUNNING", "SLEEPING"}]
    /\ StackGood(on[c], s2, m2, q2)
    /\ FlagsGood(on[c], s2, m2, q2[1], nc2, it2, ie2)
    /\ q2[1].held = k[on[c]][1].held
    /\ k[on[c]][1].pc \notin {"taken", "dis"} /\ q2[1].pc \notin {"taken", "dis"}
    /\ on[c] \in Threads => (ts2[on[c]] = "RUNNING" <=> ~AtSched(s2))
    /\ \A t \in Threads \ {on[c]} : ts2[t] = "RUNNING" <=> ts[t] = "RUNNING"

LkMoved(td, on, it, nc, ie, lo2, lc2, ts2, m, k, c, s2, m2, q2, it2, nc2, ie2) ==
    LkSound([td EXCEPT ![on[c]] = s2], on, [it EXCEPT ![c] = it2],
            [nc EXCEPT ![c] = nc2], [ie EXCEPT ![c] = ie2], lo2, lc2, ts2,
            [m EXCEPT ![on[c]] = m2], [k EXCEPT ![on[c]] = q2])

LEMMA LkLocal ==
    ASSUME NEW td, NEW on, NEW it, NEW nc, NEW ie, NEW lo, NEW lc, NEW ts,
           NEW m, NEW k,
           LkSound(td, on, it, nc, ie, lo, lc, ts, m, k),
           NEW c \in LkCPUs,
           NEW s2, NEW m2, NEW q2, NEW it2, NEW nc2, NEW ie2, NEW lo2, NEW lc2,
           NEW ts2,
           LkMove(on, k, ts, c, s2, m2, q2, it2, nc2, ie2, lo2, lc2, ts2)
    PROVE  LkMoved(td, on, it, nc, ie, lo2, lc2, ts2, m, k, c, s2, m2, q2,
                   it2, nc2, ie2)
<1> USE DEF LkMove
<1> DEFINE x == on[c]
           td2 == [td EXCEPT ![x] = s2]
           mm2 == [m EXCEPT ![x] = m2]
           k2 == [k EXCEPT ![x] = q2]
           itt == [it EXCEPT ![c] = it2]
           ncc == [nc EXCEPT ![c] = nc2]
           iee == [ie EXCEPT ![c] = ie2]
<1>1. LkTypes(td, on, it, nc, ie, lo, lc, ts, m, k)
    BY DEF LkSound
<1>2. x \in Stacks
    BY <1>1 DEF LkTypes
<1>3. /\ td2[x] = s2 /\ mm2[x] = m2 /\ k2[x] = q2
      /\ \A y \in Stacks \ {x} : td2[y] = td[y] /\ mm2[y] = m[y] /\ k2[y] = k[y]
      /\ td2 = [y \in Stacks |-> td2[y]] /\ mm2 = [y \in Stacks |-> mm2[y]]
      /\ k2 = [y \in Stacks |-> k2[y]]
  <2>1. /\ td = [y \in Stacks |-> td[y]] /\ m = [y \in Stacks |-> m[y]]
        /\ k = [y \in Stacks |-> k[y]]
    BY <1>1 DEF LkTypes
  <2>2. /\ td2 = [y \in Stacks |-> IF y = x THEN s2 ELSE td[y]]
        /\ mm2 = [y \in Stacks |-> IF y = x THEN m2 ELSE m[y]]
        /\ k2 = [y \in Stacks |-> IF y = x THEN q2 ELSE k[y]]
    BY <2>1
  <2> HIDE DEF td2, mm2, k2
  <2> QED
    BY <2>2, <1>2
<1>4. /\ itt \in [LkCPUs -> BOOLEAN] /\ ncc \in [LkCPUs -> Nat]
      /\ iee \in [LkCPUs -> BOOLEAN]
      /\ itt[c] = it2 /\ ncc[c] = nc2 /\ iee[c] = ie2
      /\ \A d \in LkCPUs \ {c} : itt[d] = it[d] /\ ncc[d] = nc[d] /\ iee[d] = ie[d]
    BY <1>1 DEF LkTypes
<1>x. x = on[c]
    OBVIOUS
<1> HIDE DEF x, td2, mm2, k2, itt, ncc, iee
<1>5. \A d \in LkCPUs \ {c} : on[d] # x /\ on[d] \in Stacks
    BY <1>1, <1>x DEF LkSound, CPUsApart, LkTypes
<1>6. LkTypes(td2, on, itt, ncc, iee, lo2, lc2, ts2, mm2, k2)
    BY <1>1, <1>3, <1>4 DEF LkTypes
<1>7. StacksGood(td2, mm2, k2)
  <2> SUFFICES ASSUME NEW y \in Stacks
               PROVE  StackGood(y, td2[y], mm2[y], k2[y])
    BY DEF StacksGood
  <2>1. CASE y = x
    BY <2>1, <1>3, <1>x
  <2>2. CASE y # x
    BY <2>2, <1>3 DEF LkSound, StacksGood
  <2> QED
    BY <2>1, <2>2
<1>8. CPUsApart(on, k2)
  <2> SUFFICES ASSUME NEW d \in LkCPUs, NEW e \in LkCPUs, d # e
               PROVE  on[d] # on[e] /\ Busy(k2[on[d]][1]) \cap Busy(k2[on[e]][1]) = {}
    BY DEF CPUsApart
  <2>1. on[d] # on[e] /\ Busy(k[on[d]][1]) \cap Busy(k[on[e]][1]) = {}
    BY DEF LkSound, CPUsApart
  <2>2. CASE d = c
    BY <2>1, <2>2, <1>3, <1>5, <1>x
  <2>3. CASE e = c
    BY <2>1, <2>3, <1>3, <1>5, <1>x
  <2>4. CASE d # c /\ e # c
    BY <2>1, <2>4, <1>3, <1>5
  <2> QED
    BY <2>2, <2>3, <2>4
<1>9. CPUsGood(td2, on, itt, ncc, iee, lo2, lc2, mm2, k2)
  <2> SUFFICES ASSUME NEW d \in LkCPUs
               PROVE  /\ FlagsGood(on[d], td2[on[d]], mm2[on[d]], k2[on[d]][1],
                                   ncc[d], itt[d], iee[d])
                      /\ OwnsGood(d, k2[on[d]][1], lo2, lc2)
    BY DEF CPUsGood
  <2>1. CASE d = c
    BY <2>1, <1>3, <1>4, <1>x
  <2>2. CASE d # c
    <3>1. FlagsGood(on[d], td[on[d]], m[on[d]], k[on[d]][1], nc[d], it[d], ie[d])
        BY DEF LkSound, CPUsGood
    <3>2. d \in LkCPUs \ {c} /\ on[d] \in Stacks \ {x}
        BY <2>2, <1>5
    <3> QED
        BY <3>1, <3>2, <1>3, <1>4
  <2> QED
    BY <2>1, <2>2
<1>10. ActiveGood(td2, on, ts2)
  <2> SUFFICES ASSUME NEW d \in LkCPUs, on[d] \in Threads
               PROVE  ts2[on[d]] = "RUNNING" <=> ~AtSched(td2[on[d]])
    BY DEF ActiveGood
  <2>1. CASE d = c
    BY <2>1, <1>3, <1>x
  <2>2. CASE d # c
    <3>1. on[d] \in Stacks \ {x} /\ on[d] \in Threads \ {on[c]}
        BY <2>2, <1>5, <1>x
    <3>2. ts[on[d]] = "RUNNING" <=> ~AtSched(td[on[d]])
        BY DEF LkSound, ActiveGood
    <3> QED
        BY <3>1, <3>2, <1>3
  <2> QED
    BY <2>1, <2>2
<1>11. WaitersGood(td2, on, ts2, mm2, k2)
  <2>1. ASSUME NEW t \in Threads, \A d \in LkCPUs : on[d] # t
        PROVE  ts2[t] # "RUNNING" /\ ThreadWaits(t, td2[t], mm2[t], k2[t][1])
    <3>1. t \in Stacks \ {x} /\ t \in Threads \ {on[c]}
        BY <2>1, <1>x DEF Stacks
    <3>2. ts[t] # "RUNNING" /\ ThreadWaits(t, td[t], m[t], k[t][1])
        BY <2>1 DEF LkSound, WaitersGood
    <3> QED
        BY <3>1, <3>2, <1>3
  <2>2. ASSUME NEW d \in LkCPUs, on[d] # d
        PROVE  td2[d] # <<>> /\ td2[d][1].op = "pick"
    <3>1. td[d] # <<>> /\ td[d][1].op = "pick"
        BY <2>2 DEF LkSound, WaitersGood
    <3>2. d # x
        BY <2>2, <1>1, <1>x, SpinlockAssumption DEF LkTypes, SpinlockAssumption
    <3> QED
        BY <3>1, <3>2, <1>3 DEF Stacks
  <2> QED
    BY <2>1, <2>2 DEF WaitersGood
<1> QED
    BY <1>6, <1>7, <1>8, <1>9, <1>10, <1>11
    DEF LkSound, LkMoved, x, td2, mm2, k2, itt, ncc, iee

LEMMA LkQuiet ==
    ASSUME NEW td, NEW on, NEW it, NEW nc, NEW ie, NEW lo, NEW lc, NEW ts,
           NEW m, NEW k,
           LkSound(td, on, it, nc, ie, lo, lc, ts, m, k),
           NEW c \in LkCPUs,
           NEW s2, NEW m2, NEW q2, NEW it2, NEW nc2, NEW ie2, NEW ts2,
           LkQuietMove(on, k, ts, c, s2, m2, q2, it2, nc2, ie2, ts2)
    PROVE  LkMoved(td, on, it, nc, ie, lo, lc, ts2, m, k, c, s2, m2, q2,
                   it2, nc2, ie2)
<1>1. lo \in [Locks -> BOOLEAN] /\ lc \in [Locks -> LkCPUs \cup {NoLkCPU}]
    BY DEF LkSound, LkTypes
<1>2. Busy(q2[1]) = Busy(k[on[c]][1])
    BY DEF Busy, LkQuietMove
<1>3. OwnsGood(c, k[on[c]][1], lo, lc)
    BY DEF LkSound, CPUsGood
<1>4. OwnsGood(c, q2[1], lo, lc)
    BY <1>2, <1>3 DEF OwnsGood, LkQuietMove
<1>5. \A d \in LkCPUs \ {c} :
                /\ OwnsGood(d, k[on[d]][1], lo, lc)
                /\ Busy(q2[1]) \cap Busy(k[on[d]][1]) = {}
    BY <1>2 DEF LkSound, CPUsGood, CPUsApart
<1>6. LkMove(on, k, ts, c, s2, m2, q2, it2, nc2, ie2, lo, lc, ts2)
    BY <1>1, <1>4, <1>5 DEF LkMove, LkQuietMove
<1> QED
    BY <1>6, LkLocal

LEMMA GoesFacts ==
    ASSUME NEW x, NEW s, NEW m, NEW q, StackGood(x, s, m, q), s # <<>>,
           s[1].op \notin {"readeflags", "iret"}
    PROVE  /\ StackGood(x, Tail(s), Popped(m), Tail(q))
           /\ Tail(q)[1] = q[2] /\ q[2] \in LkPts
           /\ Fk(Tail(s)) <=> Fk(s)
           /\ m \in Nat /\ Popped(m) \in Nat /\ (Popped(m) > 0 <=> m > 0)
           /\ ~(Tail(s) # <<>> /\ Tail(s)[1].op = "intena")
           /\ AtSched(Tail(s)) <=> s[1].op = "state"
<1>0. StackLaid(x, s, m, q)
    BY DEF StackGood, StackLaid
<1>1. /\ s \in Seq(LkOps) /\ Len(s) \in Nat \ {0} /\ m \in 0..Len(s)
      /\ q[2] \in LkPts /\ (s[1] = Op("iret", "handler") <=> m = 1)
    BY <1>0, HeadFacts
<1>2. s[1] # Op("iret", "forkret") /\ m # 1
    BY <1>1 DEF Op
<1>3. m \in Nat /\ Popped(m) \in Nat /\ (Popped(m) > 0 <=> m > 0)
    BY <1>1, <1>2 DEF Popped
<1>4. ~(Tail(s) # <<>> /\ Tail(s)[1].op = "intena")
  <2>1. Tail(s) # <<>> => Tail(s)[1] = s[1 + 1] /\ 1 + 1 \in 1..Len(s)
    BY <1>1
  <2> QED
    BY <2>1, <1>0 DEF StackLaid, StackPlaced
<1> QED
    BY <1>0, <1>1, <1>2, <1>3, <1>4, GoodTail, LaidTail

\* What is known of a CPU, and of the step before it.
LEMMA LkHere ==
    ASSUME NEW td, NEW on, NEW it, NEW nc, NEW ie, NEW lo, NEW lc, NEW ts,
           NEW m, NEW k,
           LkSound(td, on, it, nc, ie, lo, lc, ts, m, k), NEW c \in LkCPUs
    PROVE  /\ on[c] \in Stacks /\ on[c] \in {c} \cup Threads
           /\ it[c] \in BOOLEAN /\ nc[c] \in Nat /\ ie[c] \in BOOLEAN
           /\ ts \in [Threads -> {"RUNNABLE", "RUNNING", "SLEEPING"}]
           /\ StackGood(on[c], td[on[c]], m[on[c]], k[on[c]])
           /\ m[on[c]] \in Nat /\ k[on[c]][1] \in LkPts
           /\ FlagsGood(on[c], td[on[c]], m[on[c]], k[on[c]][1], nc[c], it[c], ie[c])
           /\ OwnsGood(c, k[on[c]][1], lo, lc)
           /\ on[c] \in Threads => (ts[on[c]] = "RUNNING" <=> ~AtSched(td[on[c]]))
<1>1. LkTypes(td, on, it, nc, ie, lo, lc, ts, m, k)
    BY DEF LkSound
<1>2. on[c] \in Stacks /\ on[c] \in {c} \cup Threads
      /\ it[c] \in BOOLEAN /\ nc[c] \in Nat /\ ie[c] \in BOOLEAN
      /\ ts \in [Threads -> {"RUNNABLE", "RUNNING", "SLEEPING"}]
    BY <1>1 DEF LkTypes
<1> DEFINE x == on[c]
<1>3. StackGood(x, td[x], m[x], k[x])
    BY <1>2 DEF LkSound, StacksGood
<1> HIDE DEF x
<1>4. m[x] \in 0..Len(td[x]) /\ td[x] \in Seq(LkOps) /\ k[x] \in Seq(LkPts)
      /\ Len(k[x]) = Len(td[x]) + 1
    BY <1>3 DEF StackGood, StackPlaced, LkPath
<1>5. m[x] \in Nat /\ k[x][1] \in LkPts
    BY <1>4
<1> QED
    BY <1>2, <1>3, <1>5 DEF x, LkSound, CPUsGood, ActiveGood

LEMMA LkSame ==
    ASSUME NEW S, NEW T, NEW f \in [S -> T], NEW c \in S
    PROVE  [f EXCEPT ![c] = f[c]] = f
OBVIOUS

LkNextSound ==
    /\ lkPanic' = FALSE
    /\ \E m, k : LkSound(todo', onStack', intr', ncli', intena', locked', lkCpu',
                         tstate', m, k)

LkNow(m, k) ==
    /\ lkPanic = FALSE
    /\ LkSound(todo, onStack, intr, ncli, intena, locked, lkCpu, tstate, m, k)

\* The state after a move of c.
LEMMA LkAfter ==
    ASSUME NEW m, NEW k, LkNow(m, k), NEW c \in LkCPUs, lkPanic' = FALSE,
           NEW s2, NEW m2, NEW q2, NEW it2, NEW nc2, NEW ie2,
           LkMoved(todo, onStack, intr, ncli, intena, locked', lkCpu', tstate', m, k,
                   c, s2, m2, q2, it2, nc2, ie2),
           todo' = [todo EXCEPT ![onStack[c]] = s2], onStack' = onStack,
           (intr' = intr /\ it2 = intr[c]) \/ intr' = [intr EXCEPT ![c] = it2],
           (ncli' = ncli /\ nc2 = ncli[c]) \/ ncli' = [ncli EXCEPT ![c] = nc2],
           (intena' = intena /\ ie2 = intena[c]) \/ intena' = [intena EXCEPT ![c] = ie2]
    PROVE  LkNextSound
<1>1. /\ intr \in [LkCPUs -> BOOLEAN] /\ intena \in [LkCPUs -> BOOLEAN]
      /\ ncli \in [LkCPUs -> Nat]
    BY DEF LkNow, LkSound, LkTypes
<1>2. intr' = [intr EXCEPT ![c] = it2]
    BY <1>1, LkSame
<1>3. ncli' = [ncli EXCEPT ![c] = nc2]
    BY <1>1, LkSame
<1>4. intena' = [intena EXCEPT ![c] = ie2]
    BY <1>1, LkSame
<1> QED
    BY <1>2, <1>3, <1>4 DEF LkMoved, LkNextSound

\* The step before a CPU.
LEMMA LkDoes ==
    ASSUME NEW m, NEW k, LkNow(m, k), NEW c \in LkCPUs, NEW name, Does(c, name)
    PROVE  LET x == onStack[c]
               s == todo[x]
               q == k[x]
           IN
           /\ s # <<>> /\ Step(c) = s[1] /\ s[1].op = name
           /\ s[1] \in LkOps /\ q[1] \in LkPts /\ q[2] \in LkPts
           /\ Link(s[1], q[1], q[2]) /\ StackGood(x, s, m[x], q)
           /\ s[1].op = "iret" => m[x] = 1 \/ (m[x] = 0 /\ Len(s) = 1)
           /\ s[1].op = "pick" => x \in LkCPUs /\ m[x] = 0
           /\ s[1].op \in {"state", "sched", "intena"} => x \in Threads
           /\ AtSched(s) <=> name = "sched"
<1> DEFINE x == onStack[c]
           s == todo[x]
           q == k[x]
<1>1. StackGood(x, s, m[x], q)
    BY LkHere DEF LkNow
<1>2. s # <<>> /\ Step(c) = s[1] /\ s[1].op = name
  <2>1. s \in Seq(LkOps)
    BY <1>1 DEF StackGood, LkPath
  <2> QED
    BY <2>1 DEF Does, Step
<1>3. AtSched(s) <=> name = "sched"
    BY <1>2 DEF AtSched
<1> HIDE DEF x, s, q
<1>4. StackLaid(x, s, m[x], q)
    BY <1>1 DEF StackGood, StackLaid
<1>5. /\ s[1] \in LkOps /\ q[1] \in LkPts /\ q[2] \in LkPts
      /\ Link(s[1], q[1], q[2])
      /\ s[1].op = "iret" => m[x] = 1 \/ (m[x] = 0 /\ Len(s) = 1)
      /\ s[1].op = "pick" => x \in LkCPUs /\ m[x] = 0
      /\ s[1].op \in {"state", "sched", "intena"} => x \in Threads
    BY <1>2, <1>4, HeadFacts
<1> QED
    BY <1>1, <1>2, <1>3, <1>5 DEF x, s, q

LEMMA QuietStep ==
    ASSUME NEW m, NEW k, LkNow(m, k), NEW c \in LkCPUs, lkPanic' = FALSE,
           NEW s2, NEW m2, NEW q2, NEW it2, NEW nc2, NEW ie2,
           LkQuietMove(onStack, k, tstate, c, s2, m2, q2, it2, nc2, ie2, tstate'),
           todo' = [todo EXCEPT ![onStack[c]] = s2], onStack' = onStack,
           locked' = locked, lkCpu' = lkCpu,
           (intr' = intr /\ it2 = intr[c]) \/ intr' = [intr EXCEPT ![c] = it2],
           (ncli' = ncli /\ nc2 = ncli[c]) \/ ncli' = [ncli EXCEPT ![c] = nc2],
           (intena' = intena /\ ie2 = intena[c]) \/ intena' = [intena EXCEPT ![c] = ie2]
    PROVE  LkNextSound
<1>1. LkMoved(todo, onStack, intr, ncli, intena, locked, lkCpu, tstate', m, k,
              c, s2, m2, q2, it2, nc2, ie2)
    BY LkQuiet DEF LkNow
<1>2. LkMoved(todo, onStack, intr, ncli, intena, locked', lkCpu', tstate', m, k,
              c, s2, m2, q2, it2, nc2, ie2)
    BY <1>1
<1> QED
    BY <1>2, LkAfter

LEMMA StepReadeflags ==
    ASSUME NEW m, NEW k, LkNow(m, k), NEW c \in LkCPUs, Readeflags(c)
    PROVE  LkNextSound
<1> DEFINE x == onStack[c]
           s == todo[x]
           a == k[x][1]
           s2 == [Tail(s) EXCEPT ![1].val = intr[c]]
           m2 == Popped(m[x])
           q2 == Tail(k[x])
<1>1. /\ s # <<>> /\ s[1].op = "readeflags" /\ StackGood(x, s, m[x], k[x])
      /\ ~AtSched(s)
    BY LkDoes DEF Readeflags
<1>2. /\ intr[c] \in BOOLEAN /\ ncli[c] \in Nat /\ intena[c] \in BOOLEAN
      /\ m[x] \in Nat /\ a \in LkPts /\ x \in Stacks
      /\ tstate \in [Threads -> {"RUNNABLE", "RUNNING", "SLEEPING"}]
      /\ FlagsGood(x, s, m[x], a, ncli[c], intr[c], intena[c])
      /\ x \in Threads => (tstate[x] = "RUNNING" <=> ~AtSched(s))
    BY LkHere DEF LkNow
<1> HIDE DEF x, s, a
<1>3. Link(s[1], a, k[x][2])
    BY LkDoes DEF Readeflags, x, s, a
<1>4. a.pc = "free"
    BY <1>1, <1>3 DEF Link, LinkAcquire, LinkRelease, LinkSwitch, LinkIret, Free, Pt
<1>5. a.held = {} => ncli[c] = 0
    BY <1>2, <1>4, FS_EmptySet DEF FlagsGood, InAcquire
<1>6. /\ a.held = {} /\ m[x] > 0 => ~intr[c]
      /\ a.held = {} /\ m[x] = 0 /\ x \in Threads /\ ~Fk(s) => intr[c]
    BY <1>2, <1>5 DEF FlagsGood
<1>7. /\ StackGood(x, s2, m2, q2) /\ q2[1] = Pt(a.held, "flag", s[1].arg)
      /\ Fk(s2) <=> Fk(s)
      /\ ~AtSched(s2) /\ s2 # <<>> /\ s2[1].op = "cli"
      /\ m2 > 0 <=> m[x] > 0
  <2> DEFINE q == k[x]
             mx == m[x]
             v == intr[c]
  <2>1. /\ StackGood(x, s, mx, q) /\ s # <<>> /\ s[1].op = "readeflags" /\ v \in BOOLEAN
        /\ q[1].held = {} /\ mx > 0 => ~v
        /\ q[1].held = {} /\ mx = 0 /\ x \in Threads /\ ~Fk(s) => v
        /\ q[1] = a
    BY <1>1, <1>2, <1>6 DEF a
  <2> HIDE DEF q, mx, v
  <2>2. FlagsRead(x, s, mx, q, v)
    BY <2>1, GoodReadeflags
  <2> QED
    BY <2>1, <2>2 DEF FlagsRead, q, mx, v
<1> HIDE DEF s2, m2, q2
<1>8. FlagsGood(x, s2, m2, q2[1], ncli[c], intr[c], intena[c])
  <2>1. m2 \in Nat
    BY <1>7 DEF StackGood, StackPlaced, LkPath
  <2>2. /\ q2[1].held = a.held /\ InAcquire(q2[1]) = InAcquire(a)
        /\ (m2 = 0 <=> m[x] = 0)
    BY <1>2, <1>4, <1>7, <2>1 DEF Pt, InAcquire
  <2> QED
    BY <1>1, <1>2, <1>7, <2>2 DEF FlagsGood
<1>9. LkQuietMove(onStack, k, tstate, c, s2, m2, q2, intr[c], ncli[c], intena[c],
                  tstate)
    BY <1>1, <1>2, <1>4, <1>7, <1>8 DEF LkQuietMove, x, a, Pt
<1>10. /\ todo' = [todo EXCEPT ![x] = s2]
       /\ UNCHANGED <<onStack, intr, ncli, intena, locked, lkCpu, tstate, lkPanic>>
    BY DEF Readeflags, Steps, s2, s, x
<1>11. LkQuietMove(onStack, k, tstate, c, s2, m2, q2, intr[c], ncli[c], intena[c],
                  tstate') /\ lkPanic' = FALSE
    BY <1>9, <1>10 DEF LkNow
<1> QED
    BY <1>10, <1>11, QuietStep DEF x

\* For the steps that leave by Goes(), what they start from.
LkLeaves(c, m, k, name) ==
    LET x == onStack[c]
        s == todo[x]
        a == k[x][1]
        b == k[x][2]
        s2 == Tail(s)
        m2 == Popped(m[x])
    IN
    /\ x \in Stacks /\ x \in {c} \cup Threads
    /\ Step(c) = s[1] /\ s[1].op = name /\ s[1] \in LkOps /\ s # <<>>
    /\ a \in LkPts /\ b \in LkPts /\ Link(s[1], a, b)
    /\ intr[c] \in BOOLEAN /\ ncli[c] \in Nat /\ intena[c] \in BOOLEAN
    /\ tstate \in [Threads -> {"RUNNABLE", "RUNNING", "SLEEPING"}]
    /\ m[x] \in Nat /\ m2 \in Nat /\ (m2 > 0 <=> m[x] > 0)
    /\ StackGood(x, s, m[x], k[x])
    /\ StackGood(x, s2, m2, Tail(k[x])) /\ Tail(k[x])[1] = b
    /\ Fk(s2) <=> Fk(s)
    /\ ~(s2 # <<>> /\ s2[1].op = "intena")
    /\ AtSched(s2) <=> name = "state"
    /\ FlagsGood(x, s, m[x], a, ncli[c], intr[c], intena[c])
    /\ OwnsGood(c, a, locked, lkCpu)
    /\ s[1].op \in {"state", "sched", "intena"} => x \in Threads
    /\ s[1].op = "pick" => x \in LkCPUs
    /\ x \in Threads => (tstate[x] = "RUNNING" <=> name # "sched")

LEMMA LkGoes ==
    ASSUME NEW m, NEW k, LkNow(m, k), NEW c \in LkCPUs, NEW name, Does(c, name),
           name \notin {"readeflags", "iret"}
    PROVE  LkLeaves(c, m, k, name)
<1> DEFINE x == onStack[c]
           s == todo[x]
<1>1. /\ x \in Stacks /\ x \in {c} \cup Threads
      /\ intr[c] \in BOOLEAN /\ ncli[c] \in Nat /\ intena[c] \in BOOLEAN
      /\ tstate \in [Threads -> {"RUNNABLE", "RUNNING", "SLEEPING"}]
      /\ m[x] \in Nat /\ k[x][1] \in LkPts
      /\ FlagsGood(x, s, m[x], k[x][1], ncli[c], intr[c], intena[c])
      /\ OwnsGood(c, k[x][1], locked, lkCpu)
      /\ x \in Threads => (tstate[x] = "RUNNING" <=> ~AtSched(s))
    BY LkHere DEF LkNow
<1>2. /\ s # <<>> /\ Step(c) = s[1] /\ s[1].op = name
      /\ s[1] \in LkOps
      /\ Link(s[1], k[x][1], k[x][2]) /\ StackGood(x, s, m[x], k[x])
      /\ s[1].op \in {"state", "sched", "intena"} => x \in Threads
      /\ s[1].op = "pick" => x \in LkCPUs
      /\ AtSched(s) <=> name = "sched"
    BY LkDoes
<1> HIDE DEF x, s
<1>3. /\ StackGood(x, Tail(s), Popped(m[x]), Tail(k[x]))
      /\ Tail(k[x])[1] = k[x][2] /\ k[x][2] \in LkPts
      /\ Fk(Tail(s)) <=> Fk(s)
      /\ Popped(m[x]) \in Nat /\ (Popped(m[x]) > 0 <=> m[x] > 0)
      /\ ~(Tail(s) # <<>> /\ Tail(s)[1].op = "intena")
      /\ AtSched(Tail(s)) <=> s[1].op = "state"
    BY <1>2, GoesFacts
<1> QED
    BY <1>1, <1>2, <1>3 DEF LkLeaves, x, s

LEMMA StepPushcli ==
    ASSUME NEW m, NEW k, LkNow(m, k), NEW c \in LkCPUs, Pushcli(c)
    PROVE  LkNextSound
<1> DEFINE x == onStack[c]
           s == todo[x]
           a == k[x][1]
           b == k[x][2]
           s2 == Tail(s)
           m2 == Popped(m[x])
           q2 == Tail(k[x])
           v == IF ncli[c] = 0 THEN s[1].val ELSE intena[c]
<1>1. /\ Step(c) = s[1] /\ s[1].op = "cli" /\ s[1] \in LkOps
      /\ a \in LkPts /\ b \in LkPts /\ Link(s[1], a, b)
      /\ ncli[c] \in Nat /\ intena[c] \in BOOLEAN
      /\ tstate \in [Threads -> {"RUNNABLE", "RUNNING", "SLEEPING"}]
      /\ m[x] \in Nat /\ m2 \in Nat /\ (m2 > 0 <=> m[x] > 0)
      /\ StackGood(x, s, m[x], k[x])
      /\ StackGood(x, s2, m2, q2) /\ q2[1] = b
      /\ Fk(s2) <=> Fk(s)
      /\ ~(s2 # <<>> /\ s2[1].op = "intena")
      /\ ~AtSched(s2)
      /\ FlagsGood(x, s, m[x], a, ncli[c], intr[c], intena[c])
      /\ OwnsGood(c, a, locked, lkCpu)
      /\ x \in Threads => tstate[x] = "RUNNING"
  <2>1. Does(c, "cli")
    BY DEF Pushcli
  <2>2. LkLeaves(c, m, k, "cli")
    BY <2>1, LkGoes
  <2> QED
    BY <2>2 DEF LkLeaves
<1>2. /\ todo' = [todo EXCEPT ![x] = s2] /\ intr' = [intr EXCEPT ![c] = FALSE]
      /\ intena' = [intena EXCEPT ![c] = v]
      /\ ncli' = [ncli EXCEPT ![c] = ncli[c] + 1]
      /\ lkPanic' = Holding(c, s[1].arg)
      /\ UNCHANGED <<onStack, locked, lkCpu, tstate>>
    BY <1>1 DEF Pushcli, Goes, Steps
<1> HIDE DEF x, s, a, b, s2, m2, q2
<1>3. /\ a.pc = "flag" /\ b.pc = "cli" /\ b.held = a.held
      /\ a.lk = s[1].arg
    BY <1>1 DEF Link, LinkAcquire, LinkRelease, LinkSwitch, LinkIret, Free, Pt
<1>4. v \in BOOLEAN
    BY <1>1 DEF LkOps
<1>5. lkPanic' = FALSE
  <2>1. a.lk \notin a.held /\ a.lk \in Locks
    BY <1>1, <1>3, BusyFacts DEF OnLock
  <2>2. lkCpu[a.lk] # c
    BY <2>1, <1>1 DEF OwnsGood
  <2>3. ~Holding(c, a.lk)
    BY <2>2 DEF Holding
  <2> QED
    BY <2>3, <1>2, <1>3
<1>6. ncli[c] = 0 => a.held = {}
  <2>1. IsFiniteSet(a.held) /\ Cardinality(a.held) \in Nat
    BY <1>1, BusyFacts
  <2>2. ncli[c] = 0 => Cardinality(a.held) = 0
    BY <2>1, <1>1, <1>3 DEF FlagsGood, InAcquire
  <2> QED
    BY <2>1, <2>2, FS_EmptySet
<1>7. /\ m[x] > 0 => ~v
      /\ m[x] = 0 /\ x \in Threads /\ ~Fk(s) => v
  <2>1. CASE ncli[c] = 0
    <3>1. /\ m[x] > 0 /\ a.pc = "flag" /\ a.held = {} => ~s[1].val
          /\ x \in Threads /\ ~Fk(s) /\ k[x][m[x] + 1].pc = "flag"
                /\ k[x][m[x] + 1].held = {} => s[m[x] + 1].val
        BY <1>1 DEF StackGood, StackVals, a
    <3>2. m[x] = 0 => m[x] + 1 = 1
        OBVIOUS
    <3> QED
        BY <3>1, <3>2, <2>1, <1>3, <1>6 DEF a
  <2>2. CASE ncli[c] # 0
    <3>1. ncli[c] > 0 /\ ~(s # <<>> /\ s[1].op = "intena")
        BY <2>2, <1>1
    <3> QED
        BY <3>1, <2>2, <1>1 DEF FlagsGood
  <2> QED
    BY <2>1, <2>2
<1> HIDE DEF v
<1>8. FlagsGood(x, s2, m2, q2[1], ncli[c] + 1, FALSE, v)
  <2>1. Cardinality(a.held) \in Nat
    BY <1>1, BusyFacts
  <2>2. ncli[c] = Cardinality(a.held) + 0
    BY <1>1, <1>3 DEF FlagsGood, InAcquire
  <2>3. ncli[c] + 1 = Cardinality(q2[1].held) + InAcquire(q2[1])
    BY <2>1, <2>2, <1>1, <1>3 DEF InAcquire
  <2>4. ncli[c] + 1 > 0 /\ ncli[c] + 1 # 0 /\ (m2 = 0 <=> m[x] = 0)
    BY <1>1
  <2> QED
    BY <2>3, <2>4, <1>1, <1>7 DEF FlagsGood
<1>9. LkQuietMove(onStack, k, tstate, c, s2, m2, q2, FALSE, ncli[c] + 1, v, tstate')
  <2>1. ncli[c] + 1 \in Nat
    BY <1>1
  <2> QED
    BY <2>1, <1>1, <1>2, <1>3, <1>4, <1>8 DEF LkQuietMove, x, a
<1> QED
    BY <1>2, <1>5, <1>9, QuietStep DEF x

\* A step that leaves the flags alone.
LEMMA FlagsKept ==
    ASSUME NEW x, NEW s, NEW m \in Nat, NEW a, NEW nc, NEW it, NEW ie,
           FlagsGood(x, s, m, a, nc, it, ie),
           NEW s2, NEW m2 \in Nat, NEW b,
           m2 > 0 <=> m > 0, Fk(s2) <=> Fk(s),
           ~(s # <<>> /\ s[1].op = "intena"),
           nc = Cardinality(b.held) + InAcquire(b)
    PROVE  FlagsGood(x, s2, m2, b, nc, it, ie)
<1>1. m2 = 0 <=> m = 0
    OBVIOUS
<1> QED
    BY <1>1 DEF FlagsGood

LEMMA StepSetState ==
    ASSUME NEW m, NEW k, LkNow(m, k), NEW c \in LkCPUs, SetState(c)
    PROVE  LkNextSound
<1> DEFINE x == onStack[c]
           s == todo[x]
           a == k[x][1]
           b == k[x][2]
           s2 == Tail(s)
           m2 == Popped(m[x])
           q2 == Tail(k[x])
<1>1. /\ Step(c) = s[1] /\ s[1].op = "state" /\ s[1] \in LkOps /\ s # <<>>
      /\ x \in Stacks /\ a \in LkPts /\ b \in LkPts /\ Link(s[1], a, b)
      /\ intr[c] \in BOOLEAN /\ ncli[c] \in Nat /\ intena[c] \in BOOLEAN
      /\ tstate \in [Threads -> {"RUNNABLE", "RUNNING", "SLEEPING"}]
      /\ m[x] \in Nat /\ m2 \in Nat /\ (m2 > 0 <=> m[x] > 0)
      /\ StackGood(x, s, m[x], k[x])
      /\ StackGood(x, s2, m2, q2) /\ q2[1] = b
      /\ Fk(s2) <=> Fk(s)
      /\ ~(s2 # <<>> /\ s2[1].op = "intena")
      /\ AtSched(s2) <=> TRUE
      /\ FlagsGood(x, s, m[x], a, ncli[c], intr[c], intena[c])
      /\ OwnsGood(c, a, locked, lkCpu)
      /\ x \in Threads => tstate[x] = "RUNNING"
      /\ x \in Threads
  <2>1. Does(c, "state")
    BY DEF SetState
  <2>2. LkLeaves(c, m, k, "state")
    BY <2>1, LkGoes
  <2> QED
    BY <2>2 DEF LkLeaves
<1>2. /\ todo' = [todo EXCEPT ![x] = s2] /\ lkPanic' = FALSE
      /\ UNCHANGED <<onStack, intr, ncli, intena, locked, lkCpu>>
      /\ tstate' = [tstate EXCEPT ![x] = s[1].arg]
    BY <1>1 DEF SetState, Goes, Steps, LkNow
<1> HIDE DEF s, a, b, s2, m2, q2
<1>3. a.pc = "free" /\ b.pc \in {"free", "stated"} /\ b.held = a.held
  <2>1. Link(s[1], a, b) /\ s[1].op = "state"
    BY <1>1
  <2> HIDE DEF x
  <2>2. a = Free({PtableLock}) /\ b = AtSwtch
    BY <2>1 DEF Link, LinkAcquire, LinkRelease, LinkSwitch, LinkIret, Free, Pt,
              AtSwtch
  <2> QED
    BY <2>2 DEF Free, Pt, AtSwtch
<1>4. ncli[c] = Cardinality(b.held) + InAcquire(b)
    BY <1>1, <1>3 DEF FlagsGood, InAcquire
<1>5. FlagsGood(x, s2, m2, b, ncli[c], intr[c], intena[c])
  <2>1. ~(s # <<>> /\ s[1].op = "intena")
    BY <1>1
  <2> HIDE DEF x
  <2> QED
    BY <2>1, <1>1, <1>4, FlagsKept
<1>6. /\ tstate' \in [Threads -> {"RUNNABLE", "RUNNING", "SLEEPING"}]
      /\ x \in Threads => (tstate'[x] = "RUNNING" <=> ~AtSched(s2))
      /\ \A t \in Threads \ {x} : tstate'[t] = "RUNNING" <=> tstate[t] = "RUNNING"
  <2>1. s[1].arg \in {"RUNNABLE", "SLEEPING"}
    BY <1>1 DEF Link, LinkAcquire, LinkRelease, LinkSwitch, LinkIret, Free, Pt,
              AtSwtch
  <2> HIDE DEF x
  <2> QED
    BY <2>1, <1>1, <1>2
<1>7. LkQuietMove(onStack, k, tstate, c, s2, m2, q2, intr[c], ncli[c], intena[c],
                  tstate')
    BY <1>1, <1>3, <1>5, <1>6 DEF LkQuietMove, a
<1> HIDE DEF x
<1> QED
    BY <1>2, <1>7, QuietStep DEF x

LEMMA StepEndOfScan ==
    ASSUME NEW m, NEW k, LkNow(m, k), NEW c \in LkCPUs, EndOfScan(c)
    PROVE  LkNextSound
<1> DEFINE x == onStack[c]
           s == todo[x]
           a == k[x][1]
           b == k[x][2]
           s2 == Tail(s)
           m2 == Popped(m[x])
           q2 == Tail(k[x])
<1>1. /\ Step(c) = s[1] /\ s[1].op = "pick" /\ s[1] \in LkOps /\ s # <<>>
      /\ x \in Stacks /\ a \in LkPts /\ b \in LkPts /\ Link(s[1], a, b)
      /\ intr[c] \in BOOLEAN /\ ncli[c] \in Nat /\ intena[c] \in BOOLEAN
      /\ tstate \in [Threads -> {"RUNNABLE", "RUNNING", "SLEEPING"}]
      /\ m[x] \in Nat /\ m2 \in Nat /\ (m2 > 0 <=> m[x] > 0)
      /\ StackGood(x, s, m[x], k[x])
      /\ StackGood(x, s2, m2, q2) /\ q2[1] = b
      /\ Fk(s2) <=> Fk(s)
      /\ ~(s2 # <<>> /\ s2[1].op = "intena")
      /\ AtSched(s2) <=> FALSE
      /\ FlagsGood(x, s, m[x], a, ncli[c], intr[c], intena[c])
      /\ OwnsGood(c, a, locked, lkCpu)
      /\ x \in Threads => tstate[x] = "RUNNING"
  <2>1. Does(c, "pick")
    BY DEF EndOfScan
  <2>2. LkLeaves(c, m, k, "pick")
    BY <2>1, LkGoes
  <2> QED
    BY <2>2 DEF LkLeaves
<1>2. /\ todo' = [todo EXCEPT ![x] = s2] /\ lkPanic' = FALSE
      /\ UNCHANGED <<onStack, intr, ncli, intena, locked, lkCpu>>
      /\ tstate' = tstate
    BY <1>1 DEF EndOfScan, Goes, Steps, LkNow
<1> HIDE DEF s, a, b, s2, m2, q2
<1>3. a.pc = "free" /\ b.pc \in {"free", "stated"} /\ b.held = a.held
  <2>1. Link(s[1], a, b) /\ s[1].op = "pick"
    BY <1>1
  <2> HIDE DEF x
  <2>2. a = Free(a.held) /\ b = a
    BY <2>1 DEF Link, LinkAcquire, LinkRelease, LinkSwitch, LinkIret, Free, Pt,
              AtSwtch
  <2> QED
    BY <2>2 DEF Free, Pt, AtSwtch
<1>4. ncli[c] = Cardinality(b.held) + InAcquire(b)
    BY <1>1, <1>3 DEF FlagsGood, InAcquire
<1>5. FlagsGood(x, s2, m2, b, ncli[c], intr[c], intena[c])
  <2>1. ~(s # <<>> /\ s[1].op = "intena")
    BY <1>1
  <2> HIDE DEF x
  <2> QED
    BY <2>1, <1>1, <1>4, FlagsKept
<1>6. /\ tstate' \in [Threads -> {"RUNNABLE", "RUNNING", "SLEEPING"}]
      /\ x \in Threads => (tstate'[x] = "RUNNING" <=> ~AtSched(s2))
      /\ \A t \in Threads \ {x} : tstate'[t] = "RUNNING" <=> tstate[t] = "RUNNING"
    BY <1>1, <1>2
<1>7. LkQuietMove(onStack, k, tstate, c, s2, m2, q2, intr[c], ncli[c], intena[c],
                  tstate')
    BY <1>1, <1>3, <1>5, <1>6 DEF LkQuietMove, a
<1> HIDE DEF x
<1> QED
    BY <1>2, <1>7, QuietStep DEF x

LEMMA StepWakeup1 ==
    ASSUME NEW m, NEW k, LkNow(m, k), NEW c \in LkCPUs, Wakeup1(c)
    PROVE  LkNextSound
<1> DEFINE x == onStack[c]
           s == todo[x]
           a == k[x][1]
           b == k[x][2]
           s2 == Tail(s)
           m2 == Popped(m[x])
           q2 == Tail(k[x])
<1>1. /\ Step(c) = s[1] /\ s[1].op = "wakeup1" /\ s[1] \in LkOps /\ s # <<>>
      /\ x \in Stacks /\ a \in LkPts /\ b \in LkPts /\ Link(s[1], a, b)
      /\ intr[c] \in BOOLEAN /\ ncli[c] \in Nat /\ intena[c] \in BOOLEAN
      /\ tstate \in [Threads -> {"RUNNABLE", "RUNNING", "SLEEPING"}]
      /\ m[x] \in Nat /\ m2 \in Nat /\ (m2 > 0 <=> m[x] > 0)
      /\ StackGood(x, s, m[x], k[x])
      /\ StackGood(x, s2, m2, q2) /\ q2[1] = b
      /\ Fk(s2) <=> Fk(s)
      /\ ~(s2 # <<>> /\ s2[1].op = "intena")
      /\ AtSched(s2) <=> FALSE
      /\ FlagsGood(x, s, m[x], a, ncli[c], intr[c], intena[c])
      /\ OwnsGood(c, a, locked, lkCpu)
      /\ x \in Threads => tstate[x] = "RUNNING"
  <2>1. Does(c, "wakeup1")
    BY DEF Wakeup1
  <2>2. LkLeaves(c, m, k, "wakeup1")
    BY <2>1, LkGoes
  <2> QED
    BY <2>2 DEF LkLeaves
<1>2. /\ todo' = [todo EXCEPT ![x] = s2] /\ lkPanic' = FALSE
      /\ UNCHANGED <<onStack, intr, ncli, intena, locked, lkCpu>>
      /\ tstate' = [t \in Threads |-> IF tstate[t] = "SLEEPING" THEN "RUNNABLE"
                                   ELSE tstate[t]]
    BY <1>1 DEF Wakeup1, Goes, Steps, LkNow
<1> HIDE DEF s, a, b, s2, m2, q2
<1>3. a.pc = "free" /\ b.pc \in {"free", "stated"} /\ b.held = a.held
  <2>1. Link(s[1], a, b) /\ s[1].op = "wakeup1"
    BY <1>1
  <2> HIDE DEF x
  <2>2. a = Free(a.held) /\ b = a
    BY <2>1 DEF Link, LinkAcquire, LinkRelease, LinkSwitch, LinkIret, Free, Pt,
              AtSwtch
  <2> QED
    BY <2>2 DEF Free, Pt, AtSwtch
<1>4. ncli[c] = Cardinality(b.held) + InAcquire(b)
    BY <1>1, <1>3 DEF FlagsGood, InAcquire
<1>5. FlagsGood(x, s2, m2, b, ncli[c], intr[c], intena[c])
  <2>1. ~(s # <<>> /\ s[1].op = "intena")
    BY <1>1
  <2> HIDE DEF x
  <2> QED
    BY <2>1, <1>1, <1>4, FlagsKept
<1>6. /\ tstate' \in [Threads -> {"RUNNABLE", "RUNNING", "SLEEPING"}]
      /\ x \in Threads => (tstate'[x] = "RUNNING" <=> ~AtSched(s2))
      /\ \A t \in Threads \ {x} : tstate'[t] = "RUNNING" <=> tstate[t] = "RUNNING"
  <2> HIDE DEF x
  <2> QED
    BY <1>1, <1>2
<1>7. LkQuietMove(onStack, k, tstate, c, s2, m2, q2, intr[c], ncli[c], intena[c],
                  tstate')
    BY <1>1, <1>3, <1>5, <1>6 DEF LkQuietMove, a
<1> HIDE DEF x
<1> QED
    BY <1>2, <1>7, QuietStep DEF x

LEMMA StepSchedReturns ==
    ASSUME NEW m, NEW k, LkNow(m, k), NEW c \in LkCPUs, SchedReturns(c)
    PROVE  LkNextSound
<1> DEFINE x == onStack[c]
           s == todo[x]
           a == k[x][1]
           b == k[x][2]
           s2 == Tail(s)
           m2 == Popped(m[x])
           q2 == Tail(k[x])
<1>1. /\ Step(c) = s[1] /\ s[1].op = "intena" /\ s[1] \in LkOps /\ s # <<>>
      /\ x \in Stacks /\ a \in LkPts /\ b \in LkPts /\ Link(s[1], a, b)
      /\ intr[c] \in BOOLEAN /\ ncli[c] \in Nat /\ intena[c] \in BOOLEAN
      /\ tstate \in [Threads -> {"RUNNABLE", "RUNNING", "SLEEPING"}]
      /\ m[x] \in Nat /\ m2 \in Nat /\ (m2 > 0 <=> m[x] > 0)
      /\ StackGood(x, s, m[x], k[x])
      /\ StackGood(x, s2, m2, q2) /\ q2[1] = b
      /\ Fk(s2) <=> Fk(s)
      /\ ~(s2 # <<>> /\ s2[1].op = "intena")
      /\ AtSched(s2) <=> FALSE
      /\ FlagsGood(x, s, m[x], a, ncli[c], intr[c], intena[c])
      /\ OwnsGood(c, a, locked, lkCpu)
      /\ x \in Threads => tstate[x] = "RUNNING"
      /\ x \in Threads
  <2>1. Does(c, "intena")
    BY DEF SchedReturns
  <2>2. LkLeaves(c, m, k, "intena")
    BY <2>1, LkGoes
  <2> QED
    BY <2>2 DEF LkLeaves
<1>2. /\ todo' = [todo EXCEPT ![x] = s2] /\ lkPanic' = FALSE
      /\ intena' = [intena EXCEPT ![c] = s[1].val]
      /\ UNCHANGED <<onStack, intr, ncli, locked, lkCpu, tstate>>
    BY <1>1 DEF SchedReturns, Restored, Goes, Steps, LkNow
<1> HIDE DEF s, a, b, s2, m2, q2
<1>3. /\ m[x] > 0 => ~s[1].val
      /\ m[x] = 0 /\ ~Fk(s) => s[1].val
    BY <1>1 DEF StackGood, StackVals
<1> DEFINE v == s[1].val
<1>v. v \in BOOLEAN
  <2> HIDE DEF x
  <2> QED
    BY <1>1 DEF LkOps
<1> HIDE DEF v
<1>4. a = AtSwtch /\ b = Free({PtableLock})
  <2>1. Link(s[1], a, b) /\ s[1].op = "intena"
    BY <1>1
  <2> HIDE DEF x
  <2> QED
    BY <2>1 DEF Link, LinkAcquire, LinkRelease, LinkSwitch, LinkIret
<1>5. a.pc = "stated" /\ b.pc = "free" /\ b.held = a.held
    BY <1>4 DEF Free, Pt, AtSwtch
<1>6. FlagsGood(x, s2, m2, b, ncli[c], intr[c], v)
  <2>1. ncli[c] = Cardinality(b.held) + InAcquire(b)
    BY <1>1, <1>5 DEF FlagsGood, InAcquire
  <2>2. m2 = 0 <=> m[x] = 0
    BY <1>1
  <2> HIDE DEF x
  <2> QED
    BY <2>1, <2>2, <1>1, <1>3 DEF FlagsGood, v
<1>7. LkQuietMove(onStack, k, tstate, c, s2, m2, q2, intr[c], ncli[c], v, tstate')
    BY <1>1, <1>2, <1>5, <1>6, <1>v DEF LkQuietMove, a
<1>8. intena' = [intena EXCEPT ![c] = v]
    BY <1>2 DEF v
<1> HIDE DEF x
<1> QED
    BY <1>2, <1>7, <1>8, QuietStep DEF x

LEMMA StepSyscall ==
    ASSUME NEW m, NEW k, LkNow(m, k), NEW c \in LkCPUs, Syscall(c)
    PROVE  LkNextSound
<1> DEFINE x == onStack[c]
           s == todo[x]
           a == k[x][1]
<1>1. /\ x \in Stacks /\ x \in {c} \cup Threads
      /\ intr[c] \in BOOLEAN /\ ncli[c] \in Nat /\ intena[c] \in BOOLEAN
      /\ tstate \in [Threads -> {"RUNNABLE", "RUNNING", "SLEEPING"}]
      /\ m[x] \in Nat /\ a \in LkPts
      /\ StackGood(x, s, m[x], k[x])
      /\ FlagsGood(x, s, m[x], a, ncli[c], intr[c], intena[c])
      /\ x \in Threads => (tstate[x] = "RUNNING" <=> ~AtSched(s))
    BY LkHere DEF LkNow
<1>2. x \in Threads /\ s = <<>>
    BY DEF Syscall
<1>3. /\ m[x] = 0 /\ a = Free({}) /\ ~Fk(s) /\ ~AtSched(s)
  <2>1. StackLaid(x, <<>>, m[x], k[x])
    BY <1>1, <1>2 DEF StackGood, StackLaid
  <2> HIDE DEF x
  <2> QED
    BY <2>1, <1>2, EmptyFacts DEF AtSched, a
<1>4. a.held = {} /\ a.pc = "free" /\ ncli[c] = 0
    BY <1>1, <1>3, FS_EmptySet DEF FlagsGood, InAcquire, Free, Pt
<1>5. intr[c] = TRUE
    BY <1>1, <1>2, <1>3, <1>4 DEF FlagsGood
<1>6. PICK body \in SyscallBodies :
            todo' = [todo EXCEPT ![x] = body \o <<Op("iret", "syscall")>>]
    BY DEF Syscall, Steps
<1>7. UNCHANGED <<onStack, intr, ncli, intena, locked, lkCpu, tstate, lkPanic>>
    BY DEF Syscall
<1> DEFINE s2 == body \o <<Op("iret", "syscall")>>
<1>8. PICK q2 : StackGood(x, s2, 0, q2) /\ q2[1] = Free({}) /\ ~Fk(s2)
    BY <1>2, SyscallLeads, GoodSyscall
<1> HIDE DEF s, a, s2
<1>9. q2[1].held = {} /\ q2[1].pc = "free"
    BY <1>8 DEF Free, Pt
<1>10. ~AtSched(s2)
    BY <1>8, <1>9, FreeNotAtSched
<1>11. FlagsGood(x, s2, 0, q2[1], ncli[c], intr[c], intena[c])
    BY <1>4, <1>5, <1>9, FS_EmptySet DEF FlagsGood, InAcquire
<1>12. LkQuietMove(onStack, k, tstate, c, s2, 0, q2, intr[c], ncli[c], intena[c],
                  tstate')
    BY <1>1, <1>3, <1>4, <1>7, <1>8, <1>9, <1>10, <1>11 DEF LkQuietMove, a
<1>13. todo' = [todo EXCEPT ![x] = s2] /\ lkPanic' = FALSE
    BY <1>6, <1>7 DEF s2, LkNow
<1> HIDE DEF x
<1> QED
    BY <1>7, <1>12, <1>13, QuietStep DEF x

LEMMA StepSti ==
    ASSUME NEW m, NEW k, LkNow(m, k), NEW c \in LkCPUs, Sti(c)
    PROVE  LkNextSound
<1> DEFINE x == onStack[c]
           s == todo[x]
           a == k[x][1]
<1>1. /\ x \in Stacks /\ x \in {c} \cup Threads
      /\ intr[c] \in BOOLEAN /\ ncli[c] \in Nat /\ intena[c] \in BOOLEAN
      /\ tstate \in [Threads -> {"RUNNABLE", "RUNNING", "SLEEPING"}]
      /\ m[x] \in Nat /\ a \in LkPts
      /\ StackGood(x, s, m[x], k[x])
      /\ FlagsGood(x, s, m[x], a, ncli[c], intr[c], intena[c])
      /\ x \in Threads => (tstate[x] = "RUNNING" <=> ~AtSched(s))
    BY LkHere DEF LkNow
<1>2. x = c /\ s = <<>> /\ x \notin Threads
    BY SpinlockAssumption DEF Sti, SpinlockAssumption
<1>3. /\ m[x] = 0 /\ a = Free({}) /\ ~Fk(s) /\ ~AtSched(s)
  <2>1. StackLaid(x, <<>>, m[x], k[x])
    BY <1>1, <1>2 DEF StackGood, StackLaid
  <2> HIDE DEF x
  <2> QED
    BY <2>1, <1>2, EmptyFacts DEF AtSched, a
<1>4. a.held = {} /\ a.pc = "free" /\ ncli[c] = 0
    BY <1>1, <1>3, FS_EmptySet DEF FlagsGood, InAcquire, Free, Pt
<1> DEFINE s2 == AcquireOps(PtableLock) \o <<Op("pick", PtableLock)>>
                 \o ReleaseOps(PtableLock)
<1>6. /\ todo' = [todo EXCEPT ![x] = s2] /\ intr' = [intr EXCEPT ![c] = TRUE]
      /\ UNCHANGED <<onStack, ncli, intena, locked, lkCpu, tstate>>
      /\ lkPanic' = FALSE
    BY DEF Sti, Steps, LkNow
<1>8. PICK q2 : StackGood(x, s2, 0, q2) /\ q2[1] = Free({})
    BY <1>2, GoodSti
<1> HIDE DEF s, a, s2
<1>9. q2[1].held = {} /\ q2[1].pc = "free"
    BY <1>8 DEF Free, Pt
<1>11. FlagsGood(x, s2, 0, q2[1], ncli[c], TRUE, intena[c])
    BY <1>2, <1>4, <1>9, FS_EmptySet DEF FlagsGood, InAcquire
<1>12. LkQuietMove(onStack, k, tstate, c, s2, 0, q2, TRUE, ncli[c], intena[c],
                  tstate')
    BY <1>1, <1>2, <1>4, <1>6, <1>8, <1>9, <1>11 DEF LkQuietMove, a
<1> HIDE DEF x
<1> QED
    BY <1>6, <1>12, QuietStep DEF x

LEMMA StepInterrupt ==
    ASSUME NEW m, NEW k, LkNow(m, k), NEW c \in LkCPUs, Interrupt(c)
    PROVE  LkNextSound
<1> DEFINE x == onStack[c]
           s == todo[x]
           a == k[x][1]
<1>1. /\ x \in Stacks /\ x \in {c} \cup Threads
      /\ intr[c] \in BOOLEAN /\ ncli[c] \in Nat /\ intena[c] \in BOOLEAN
      /\ tstate \in [Threads -> {"RUNNABLE", "RUNNING", "SLEEPING"}]
      /\ m[x] \in Nat /\ a \in LkPts
      /\ StackGood(x, s, m[x], k[x])
      /\ FlagsGood(x, s, m[x], a, ncli[c], intr[c], intena[c])
      /\ x \in Threads => (tstate[x] = "RUNNING" <=> ~AtSched(s))
    BY LkHere DEF LkNow
<1>2. intr[c] = TRUE
    BY <1>1 DEF Interrupt
<1>3. ncli[c] = 0 /\ m[x] = 0
    BY <1>1, <1>2 DEF FlagsGood
<1>4. a.held = {} /\ a.pc \in {"free", "flag"}
  <2> HIDE DEF x, s
  <2>1. IsFiniteSet(a.held) /\ Cardinality(a.held) \in Nat /\ a.pc \in LkPlaces
    BY <1>1, BusyFacts DEF LkPts
  <2>2. Cardinality(a.held) = 0 /\ a.pc \notin {"cli", "taken", "dis"}
    <3>1. 0 = Cardinality(a.held) + InAcquire(a)
        BY <1>1, <1>3 DEF FlagsGood
    <3> QED
        BY <3>1, <2>1 DEF InAcquire
  <2>3. a.held = {}
    BY <2>1, <2>2, FS_EmptySet
  <2>4. a.pc # "stated"
    <3>1. CASE s = <<>>
      <4>1. StackLaid(x, <<>>, m[x], k[x])
        BY <3>1, <1>1 DEF StackGood, StackLaid
      <4>2. a = Free({})
        BY <4>1, EmptyFacts
      <4> QED
        BY <4>2 DEF Free, Pt
    <3>2. CASE s # <<>>
      <4>1. Link(s[1], a, k[x][2])
        BY <3>2, <1>1, HeadFacts DEF StackGood, StackLaid
      <4> HIDE DEF a
      <4> QED
        BY <4>1, <2>3 DEF Link, LinkAcquire, LinkRelease, LinkSwitch, LinkIret,
                          Free, Pt, AtSwtch
    <3> QED
        BY <3>1, <3>2
  <2> QED
    BY <2>1, <2>2, <2>3, <2>4 DEF LkPlaces
<1>5. ~AtSched(s)
  <2>1. StackGood(x, s, m[x], k[x]) /\ k[x][1].pc # "stated"
    BY <1>1, <1>4
  <2> HIDE DEF x, s
  <2> QED
    BY <2>1, FreeNotAtSched
<1>6. PICK body \in HandlerBodies, end \in HandlerEnds(c) :
        todo' = [todo EXCEPT ![x] =
                    body \o end \o <<Op("iret", "handler")>> \o s]
    BY DEF Interrupt, Steps
<1>7. /\ intr' = [intr EXCEPT ![c] = FALSE]
      /\ UNCHANGED <<onStack, ncli, intena, locked, lkCpu, tstate, lkPanic>>
    BY DEF Interrupt
<1> DEFINE p == body \o end
           s2 == p \o <<Op("iret", "handler")>> \o s
           m2 == Len(p) + 1
<1>8. Leads(x, p, Free({}), Free({}))
  <2>1. Leads(x, body, Free({}), Free({}))
    BY HandlerLeads
  <2>2. end = <<>> \/ (end = YieldOps /\ x \in Threads)
    BY DEF HandlerEnds
  <2>3. Leads(x, end, Free({}), Free({}))
    BY <2>2, YieldLeads, NothingLeads, PtsKnown
  <2> QED
    BY <2>1, <2>3, LeadsJoin
<1>p. p \in Seq(LkOps)
    BY <1>8 DEF Leads, LkPath
<1> HIDE DEF p, x, s
<1>q. \E q2 : StackGood(x, s2, m2, q2) /\ q2[1] = Free({})
  <2> DEFINE q == k[x]
  <2>1. StackGood(x, s, 0, q) /\ q[1].held = {} /\ q[1].pc \in {"free", "flag"}
    BY <1>1, <1>3, <1>4
  <2> HIDE DEF q
  <2> QED
    BY <2>1, <1>8, GoodInterrupt
<1>9. PICK q2 : StackGood(x, s2, m2, q2) /\ q2[1] = Free({})
    BY <1>q
<1>m. m2 \in Nat /\ m2 > 0
    BY <1>p
<1>t. todo' = [todo EXCEPT ![x] = s2]
    BY <1>6 DEF p
<1> HIDE DEF s2, m2
<1>10. q2[1].held = {} /\ q2[1].pc = "free"
    BY <1>9 DEF Free, Pt
<1>11. ~AtSched(s2)
    BY <1>9, <1>10, FreeNotAtSched
<1>12. FlagsGood(x, s2, m2, q2[1], ncli[c], FALSE, intena[c])
    BY <1>3, <1>10, <1>m, FS_EmptySet DEF FlagsGood, InAcquire
<1>13. LkQuietMove(onStack, k, tstate, c, s2, m2, q2, FALSE, ncli[c], intena[c],
                  tstate')
    BY <1>1, <1>4, <1>5, <1>7, <1>9, <1>10, <1>11, <1>12 DEF LkQuietMove, x
<1>14. lkPanic' = FALSE
    BY <1>7 DEF LkNow
<1> QED
    BY <1>7, <1>13, <1>14, <1>t, QuietStep DEF x

LEMMA StepIret ==
    ASSUME NEW m, NEW k, LkNow(m, k), NEW c \in LkCPUs, Iret(c)
    PROVE  LkNextSound
<1> DEFINE x == onStack[c]
           s == todo[x]
           a == k[x][1]
<1>1. /\ x \in Stacks /\ x \in {c} \cup Threads
      /\ intr[c] \in BOOLEAN /\ ncli[c] \in Nat /\ intena[c] \in BOOLEAN
      /\ tstate \in [Threads -> {"RUNNABLE", "RUNNING", "SLEEPING"}]
      /\ m[x] \in Nat /\ a \in LkPts
      /\ StackGood(x, s, m[x], k[x])
      /\ FlagsGood(x, s, m[x], a, ncli[c], intr[c], intena[c])
      /\ x \in Threads => (tstate[x] = "RUNNING" <=> ~AtSched(s))
    BY LkHere DEF LkNow
<1>2. /\ s # <<>> /\ s[1].op = "iret"
      /\ a \in LkPts /\ Link(s[1], a, k[x][2])
      /\ m[x] = 1 \/ m[x] = 0
      /\ ~AtSched(s)
  <2>1. Does(c, "iret")
    BY DEF Iret
  <2> QED
    BY <2>1, LkDoes
<1> DEFINE s2 == Tail(s)
           m2 == Popped(m[x])
           q2 == Tail(k[x])
<1>3. /\ todo' = [todo EXCEPT ![x] = s2] /\ intr' = [intr EXCEPT ![c] = TRUE]
      /\ UNCHANGED <<onStack, ncli, intena, locked, lkCpu, tstate>>
      /\ lkPanic' = FALSE
    BY DEF Iret, Goes, Steps, LkNow
<1> HIDE DEF x, s
<1>4. StackGood(x, s2, m2, q2) /\ q2[1] = k[x][2] /\ ~AtSched(s2)
  <2>1. StackGood(x, s2, m2, q2)
    BY <1>1, <1>2, GoodTail
  <2>2. q2[1] = k[x][2] /\ (AtSched(s2) <=> s[1].op = "state")
    <3>1. StackLaid(x, s, m[x], k[x])
        BY <1>1 DEF StackGood, StackLaid
    <3> QED
        BY <3>1, <1>2, LaidTail
  <2> QED
    BY <2>1, <2>2, <1>2
<1>5. a = Free({}) /\ q2[1].held = {} /\ q2[1].pc \in {"free", "flag"}
  <2>1. Link(s[1], a, q2[1])
    BY <1>2, <1>4
  <2> HIDE DEF a, q2
  <2> QED
    BY <2>1, <1>2 DEF Link, LinkAcquire, LinkRelease, LinkSwitch, LinkIret
<1>6. a.held = {} /\ a.pc = "free"
    BY <1>5 DEF Free, Pt
<1>7. ncli[c] = 0
    BY <1>1, <1>6, FS_EmptySet DEF FlagsGood, InAcquire
<1>8. m2 = 0
    BY <1>2 DEF Popped
<1> HIDE DEF s2, m2, q2
<1>9. FlagsGood(x, s2, m2, q2[1], ncli[c], TRUE, intena[c])
    BY <1>5, <1>7, <1>8, FS_EmptySet DEF FlagsGood, InAcquire
<1>10. LkQuietMove(onStack, k, tstate, c, s2, m2, q2, TRUE, ncli[c], intena[c],
                  tstate')
    BY <1>1, <1>2, <1>3, <1>4, <1>5, <1>6, <1>9 DEF LkQuietMove, x
<1> QED
    BY <1>3, <1>10, QuietStep DEF x

LEMMA LockStep ==
    ASSUME NEW m, NEW k, LkNow(m, k), NEW c \in LkCPUs, lkPanic' = FALSE,
           NEW s2, NEW m2, NEW q2, NEW it2, NEW nc2, NEW ie2,
           LkMove(onStack, k, tstate, c, s2, m2, q2, it2, nc2, ie2, locked', lkCpu',
                  tstate'),
           todo' = [todo EXCEPT ![onStack[c]] = s2], onStack' = onStack,
           (intr' = intr /\ it2 = intr[c]) \/ intr' = [intr EXCEPT ![c] = it2],
           (ncli' = ncli /\ nc2 = ncli[c]) \/ ncli' = [ncli EXCEPT ![c] = nc2],
           (intena' = intena /\ ie2 = intena[c]) \/ intena' = [intena EXCEPT ![c] = ie2]
    PROVE  LkNextSound
<1>1. LkMoved(todo, onStack, intr, ncli, intena, locked', lkCpu', tstate', m, k,
              c, s2, m2, q2, it2, nc2, ie2)
    BY LkLocal DEF LkNow
<1> QED
    BY <1>1, LkAfter

\* The other CPUs.
LEMMA LkOthers ==
    ASSUME NEW m, NEW k, LkNow(m, k), NEW c \in LkCPUs
    PROVE  /\ locked \in [Locks -> BOOLEAN]
           /\ lkCpu \in [Locks -> LkCPUs \cup {NoLkCPU}]
           /\ \A d \in LkCPUs : /\ k[onStack[d]][1] \in LkPts
                                /\ OwnsGood(d, k[onStack[d]][1], locked, lkCpu)
           /\ \A d \in LkCPUs \ {c} :
                Busy(k[onStack[c]][1]) \cap Busy(k[onStack[d]][1]) = {}
<1>1. locked \in [Locks -> BOOLEAN] /\ lkCpu \in [Locks -> LkCPUs \cup {NoLkCPU}]
    BY DEF LkNow, LkSound, LkTypes
<1>2. \A d \in LkCPUs : /\ k[onStack[d]][1] \in LkPts
                         /\ OwnsGood(d, k[onStack[d]][1], locked, lkCpu)
    BY LkHere DEF LkNow
<1>3. \A d \in LkCPUs \ {c} :
                Busy(k[onStack[c]][1]) \cap Busy(k[onStack[d]][1]) = {}
    BY DEF LkNow, LkSound, CPUsApart
<1> QED
    BY <1>1, <1>2, <1>3

LEMMA StepXchg ==
    ASSUME NEW m, NEW k, LkNow(m, k), NEW c \in LkCPUs, Xchg(c)
    PROVE  LkNextSound
<1> DEFINE x == onStack[c]
           s == todo[x]
           a == k[x][1]
           b == k[x][2]
           s2 == Tail(s)
           m2 == Popped(m[x])
           q2 == Tail(k[x])
<1>1. /\ Step(c) = s[1] /\ s[1].op = "xchg" /\ s[1] \in LkOps /\ s # <<>>
      /\ x \in Stacks /\ a \in LkPts /\ b \in LkPts /\ Link(s[1], a, b)
      /\ intr[c] \in BOOLEAN /\ ncli[c] \in Nat /\ intena[c] \in BOOLEAN
      /\ tstate \in [Threads -> {"RUNNABLE", "RUNNING", "SLEEPING"}]
      /\ m[x] \in Nat /\ m2 \in Nat /\ (m2 > 0 <=> m[x] > 0)
      /\ StackGood(x, s, m[x], k[x])
      /\ StackGood(x, s2, m2, q2) /\ q2[1] = b
      /\ Fk(s2) <=> Fk(s)
      /\ ~(s2 # <<>> /\ s2[1].op = "intena")
      /\ AtSched(s2) <=> FALSE
      /\ FlagsGood(x, s, m[x], a, ncli[c], intr[c], intena[c])
      /\ OwnsGood(c, a, locked, lkCpu)
      /\ x \in Threads => tstate[x] = "RUNNING"
  <2>1. Does(c, "xchg")
    BY DEF Xchg
  <2>2. LkLeaves(c, m, k, "xchg")
    BY <2>1, LkGoes
  <2> QED
    BY <2>2 DEF LkLeaves
<1> DEFINE l == s[1].arg
           h == a.held
           P(d) == k[onStack[d]][1]
<1>2. /\ todo' = [todo EXCEPT ![x] = s2] /\ lkPanic' = FALSE
      /\ locked' = [locked EXCEPT ![l] = TRUE]
      /\ ~locked[l]
      /\ UNCHANGED <<onStack, intr, ncli, intena, lkCpu, tstate>>
    BY <1>1 DEF Xchg, Goes, Steps, LkNow
<1>o. /\ locked \in [Locks -> BOOLEAN]
      /\ lkCpu \in [Locks -> LkCPUs \cup {NoLkCPU}]
      /\ \A d \in LkCPUs : P(d) \in LkPts /\ OwnsGood(d, P(d), locked, lkCpu)
      /\ \A d \in LkCPUs \ {c} : Busy(a) \cap Busy(P(d)) = {}
    BY LkOthers
<1> HIDE DEF x, s, a, b, s2, m2, q2
<1>3. a = Pt(h, "cli", l) /\ b = Pt(h, "taken", l)
  <2>1. Link(s[1], a, b) /\ s[1].op = "xchg"
    BY <1>1
  <2> QED
    BY <2>1 DEF Link, LinkAcquire, LinkRelease, LinkSwitch, LinkIret
<1>4. /\ h \in SUBSET Locks /\ IsFiniteSet(h) /\ l \in Locks
      /\ Cardinality(h) \in Nat
    BY <1>1, <1>3, BusyFacts DEF Pt
<1>5. /\ Busy(a) = h /\ Busy(b) = h \cup {l} /\ b.held = h /\ b.lk = l
      /\ InAcquire(b) = InAcquire(a) /\ l \notin h /\ a.held = h
    BY <1>1, <1>3, BusyFacts DEF Pt, InAcquire, OnLock
<1>o2. \A d \in LkCPUs \ {c} : d # c /\ d \in LkCPUs /\ P(d) \in LkPts
            /\ OwnsGood(d, P(d), locked, lkCpu) /\ Busy(a) \cap Busy(P(d)) = {}
    BY <1>o
<1>c. OwnsGood(c, a, locked, lkCpu)
    BY <1>1
<1> HIDE DEF l, h, P
<1>6. /\ locked' \in [Locks -> BOOLEAN]
      /\ lkCpu' \in [Locks -> LkCPUs \cup {NoLkCPU}]
    BY <1>2, <1>4, <1>o
<1>7. OwnsGood(c, b, locked', lkCpu')
  <2>1. lkCpu[l] = NoLkCPU
    <3> SUFFICES ASSUME lkCpu[l] # NoLkCPU
                 PROVE  FALSE
        OBVIOUS
    <3> DEFINE e == lkCpu[l]
    <3>1. e \in LkCPUs
        BY <1>4, <1>o
    <3>2. P(e) \in LkPts /\ OwnsGood(e, P(e), locked, lkCpu)
        BY <3>1, <1>o DEF P
    <3>3. l \in P(e).held
        BY <3>2, <1>4 DEF OwnsGood
    <3>4. l \in Busy(P(e))
        BY <3>2, <3>3, BusyFacts
    <3> QED
        BY <3>2, <3>4, <1>2 DEF OwnsGood
  <2>2. (\A j \in Locks : lkCpu[j] = c <=> j \in h) /\ \A j \in h : locked[j]
    BY <1>5, <1>c DEF OwnsGood
  <2> QED
    BY <2>1, <2>2, <1>2, <1>4, <1>5, <1>o DEF OwnsGood
<1>8. ASSUME NEW d \in LkCPUs \ {c}
      PROVE  OwnsGood(d, P(d), locked', lkCpu') /\ Busy(b) \cap Busy(P(d)) = {}
  <2>1. /\ d # c /\ d \in LkCPUs /\ P(d) \in LkPts
        /\ OwnsGood(d, P(d), locked, lkCpu) /\ Busy(a) \cap Busy(P(d)) = {}
    BY <1>o2
  <2>2. /\ P(d).held \subseteq Busy(P(d)) /\ P(d).held \subseteq Locks
        /\ Busy(P(d)) \subseteq Locks
        /\ P(d).pc \in {"taken", "dis"} => P(d).lk \in Busy(P(d))
    BY <2>1, BusyFacts
  <2>3. l \notin Busy(P(d))
    BY <2>1, <1>2 DEF OwnsGood
  <2>4. \A j \in Busy(P(d)) : locked'[j]
    BY <2>1, <2>2, <1>2, <1>o DEF OwnsGood
  <2> QED
    BY <2>1, <2>3, <2>4, <1>2, <1>5 DEF OwnsGood
<1>9. FlagsGood(x, s2, m2, b, ncli[c], intr[c], intena[c])
  <2>1. ncli[c] = Cardinality(b.held) + InAcquire(b)
    BY <1>1, <1>4, <1>5 DEF FlagsGood
  <2>2. ~(s # <<>> /\ s[1].op = "intena")
    BY <1>1
  <2> QED
    BY <2>1, <2>2, <1>1, FlagsKept
<1>10. \A t \in Threads : tstate'[t] = tstate[t]
    BY <1>2
<1>11. LkMove(onStack, k, tstate, c, s2, m2, q2, intr[c], ncli[c], intena[c],
              locked', lkCpu', tstate')
  <2>1. ncli[c] \in Nat /\ (intr[c]) \in BOOLEAN
    BY <1>1
  <2>2. \A d \in LkCPUs \ {c} :
            /\ OwnsGood(d, k[onStack[d]][1], locked', lkCpu')
            /\ Busy(b) \cap Busy(k[onStack[d]][1]) = {}
    BY <1>8 DEF P
  <2> QED
    BY <2>1, <2>2, <1>1, <1>2, <1>6, <1>7, <1>9, <1>10 DEF LkMove, x
<1>12. lkPanic' = FALSE
    BY <1>2
<1> QED
    BY <1>2, <1>11, <1>12, LockStep DEF x

LEMMA StepOwn ==
    ASSUME NEW m, NEW k, LkNow(m, k), NEW c \in LkCPUs, Own(c)
    PROVE  LkNextSound
<1> DEFINE x == onStack[c]
           s == todo[x]
           a == k[x][1]
           b == k[x][2]
           s2 == Tail(s)
           m2 == Popped(m[x])
           q2 == Tail(k[x])
<1>1. /\ Step(c) = s[1] /\ s[1].op = "own" /\ s[1] \in LkOps /\ s # <<>>
      /\ x \in Stacks /\ a \in LkPts /\ b \in LkPts /\ Link(s[1], a, b)
      /\ intr[c] \in BOOLEAN /\ ncli[c] \in Nat /\ intena[c] \in BOOLEAN
      /\ tstate \in [Threads -> {"RUNNABLE", "RUNNING", "SLEEPING"}]
      /\ m[x] \in Nat /\ m2 \in Nat /\ (m2 > 0 <=> m[x] > 0)
      /\ StackGood(x, s, m[x], k[x])
      /\ StackGood(x, s2, m2, q2) /\ q2[1] = b
      /\ Fk(s2) <=> Fk(s)
      /\ ~(s2 # <<>> /\ s2[1].op = "intena")
      /\ AtSched(s2) <=> FALSE
      /\ FlagsGood(x, s, m[x], a, ncli[c], intr[c], intena[c])
      /\ OwnsGood(c, a, locked, lkCpu)
      /\ x \in Threads => tstate[x] = "RUNNING"
  <2>1. Does(c, "own")
    BY DEF Own
  <2>2. LkLeaves(c, m, k, "own")
    BY <2>1, LkGoes
  <2> QED
    BY <2>2 DEF LkLeaves
<1> DEFINE l == s[1].arg
           h == a.held
           P(d) == k[onStack[d]][1]
<1>2. /\ todo' = [todo EXCEPT ![x] = s2] /\ lkPanic' = FALSE
      /\ lkCpu' = [lkCpu EXCEPT ![l] = c]
      /\ UNCHANGED <<onStack, intr, ncli, intena, locked, tstate>>
    BY <1>1 DEF Own, Goes, Steps, LkNow
<1>o. /\ locked \in [Locks -> BOOLEAN]
      /\ lkCpu \in [Locks -> LkCPUs \cup {NoLkCPU}]
      /\ \A d \in LkCPUs : P(d) \in LkPts /\ OwnsGood(d, P(d), locked, lkCpu)
      /\ \A d \in LkCPUs \ {c} : Busy(a) \cap Busy(P(d)) = {}
    BY LkOthers
<1> HIDE DEF x, s, a, b, s2, m2, q2
<1>3. a = Pt(h, "taken", l) /\ b = Free(h \cup {l})
  <2>1. Link(s[1], a, b) /\ s[1].op = "own"
    BY <1>1
  <2> QED
    BY <2>1 DEF Link, LinkAcquire, LinkRelease, LinkSwitch, LinkIret
<1>4. /\ h \in SUBSET Locks /\ IsFiniteSet(h) /\ l \in Locks
      /\ Cardinality(h) \in Nat
    BY <1>1, <1>3, BusyFacts DEF Pt
<1>5. /\ Busy(a) = h \cup {l} /\ Busy(b) = h \cup {l} /\ b.held = h \cup {l}
      /\ InAcquire(b) = 0 /\ InAcquire(a) = 1 /\ b.pc = "free"
      /\ Cardinality(h \cup {l}) = Cardinality(h) + 1 /\ a.held = h
  <2>1. l \notin h /\ Busy(a) = h \cup {l}
    BY <1>1, <1>3, BusyFacts DEF Pt, OnLock
  <2>2. Busy(b) = h \cup {l}
    BY <1>1, <1>3, BusyFacts DEF Free, Pt
  <2>3. InAcquire(b) = 0 /\ InAcquire(a) = 1 /\ b.pc = "free" /\ b.held = h \cup {l}
    BY <1>3 DEF Free, Pt, InAcquire
  <2> HIDE DEF l, h, P
  <2>4. Cardinality(h \cup {l}) = Cardinality(h) + 1
    BY <2>1, <1>4, FS_AddElement
  <2>5. a.held = h
    BY DEF h
  <2> QED
    BY <2>1, <2>2, <2>3, <2>4, <2>5
<1>o2. \A d \in LkCPUs \ {c} : d # c /\ d \in LkCPUs /\ P(d) \in LkPts
            /\ OwnsGood(d, P(d), locked, lkCpu) /\ Busy(a) \cap Busy(P(d)) = {}
    BY <1>o
<1>c. OwnsGood(c, a, locked, lkCpu)
    BY <1>1
<1> HIDE DEF l, h, P
<1>6. /\ locked' \in [Locks -> BOOLEAN]
      /\ lkCpu' \in [Locks -> LkCPUs \cup {NoLkCPU}]
    BY <1>2, <1>4, <1>o
<1>7. OwnsGood(c, b, locked', lkCpu')
  <2>1. (\A j \in Locks : lkCpu[j] = c <=> j \in h) /\ \A j \in h \cup {l} : locked[j]
    BY <1>5, <1>c DEF OwnsGood
  <2> QED
    BY <2>1, <1>2, <1>4, <1>5, <1>o DEF OwnsGood
<1>8. ASSUME NEW d \in LkCPUs \ {c}
      PROVE  OwnsGood(d, P(d), locked', lkCpu') /\ Busy(b) \cap Busy(P(d)) = {}
  <2>1. /\ d # c /\ d \in LkCPUs /\ P(d) \in LkPts
        /\ OwnsGood(d, P(d), locked, lkCpu) /\ Busy(a) \cap Busy(P(d)) = {}
    BY <1>o2
  <2>2. /\ P(d).held \subseteq Busy(P(d)) /\ P(d).held \subseteq Locks
        /\ Busy(P(d)) \subseteq Locks
        /\ P(d).pc \in {"taken", "dis"} => P(d).lk \in Busy(P(d))
    BY <2>1, BusyFacts
  <2>3. l \notin Busy(P(d)) /\ Busy(b) \cap Busy(P(d)) = {}
    BY <2>1, <1>5
  <2>4. \A j \in Locks : lkCpu'[j] = d <=> j \in P(d).held
    BY <2>1, <2>2, <2>3, <1>2, <1>o DEF OwnsGood
  <2>5. P(d).pc \in {"taken", "dis"} => lkCpu'[P(d).lk] = NoLkCPU
    BY <2>1, <2>2, <2>3, <1>2, <1>o DEF OwnsGood
  <2>6. \A j \in Busy(P(d)) : locked'[j]
    BY <2>1, <1>2 DEF OwnsGood
  <2> QED
    BY <2>3, <2>4, <2>5, <2>6 DEF OwnsGood
<1>9. FlagsGood(x, s2, m2, b, ncli[c], intr[c], intena[c])
  <2>1. ncli[c] = Cardinality(b.held) + InAcquire(b)
    BY <1>1, <1>4, <1>5 DEF FlagsGood
  <2>2. ~(s # <<>> /\ s[1].op = "intena")
    BY <1>1
  <2> QED
    BY <2>1, <2>2, <1>1, FlagsKept
<1>10. \A t \in Threads : tstate'[t] = tstate[t]
    BY <1>2
<1>11. LkMove(onStack, k, tstate, c, s2, m2, q2, intr[c], ncli[c], intena[c],
              locked', lkCpu', tstate')
  <2>1. ncli[c] \in Nat /\ (intr[c]) \in BOOLEAN
    BY <1>1
  <2>2. \A d \in LkCPUs \ {c} :
            /\ OwnsGood(d, k[onStack[d]][1], locked', lkCpu')
            /\ Busy(b) \cap Busy(k[onStack[d]][1]) = {}
    BY <1>8 DEF P
  <2> QED
    BY <2>1, <2>2, <1>1, <1>2, <1>6, <1>7, <1>9, <1>10 DEF LkMove, x
<1>12. lkPanic' = FALSE
    BY <1>2
<1> QED
    BY <1>2, <1>11, <1>12, LockStep DEF x

LEMMA StepDisown ==
    ASSUME NEW m, NEW k, LkNow(m, k), NEW c \in LkCPUs, Disown(c)
    PROVE  LkNextSound
<1> DEFINE x == onStack[c]
           s == todo[x]
           a == k[x][1]
           b == k[x][2]
           s2 == Tail(s)
           m2 == Popped(m[x])
           q2 == Tail(k[x])
<1>1. /\ Step(c) = s[1] /\ s[1].op = "disown" /\ s[1] \in LkOps /\ s # <<>>
      /\ x \in Stacks /\ a \in LkPts /\ b \in LkPts /\ Link(s[1], a, b)
      /\ intr[c] \in BOOLEAN /\ ncli[c] \in Nat /\ intena[c] \in BOOLEAN
      /\ tstate \in [Threads -> {"RUNNABLE", "RUNNING", "SLEEPING"}]
      /\ m[x] \in Nat /\ m2 \in Nat /\ (m2 > 0 <=> m[x] > 0)
      /\ StackGood(x, s, m[x], k[x])
      /\ StackGood(x, s2, m2, q2) /\ q2[1] = b
      /\ Fk(s2) <=> Fk(s)
      /\ ~(s2 # <<>> /\ s2[1].op = "intena")
      /\ AtSched(s2) <=> FALSE
      /\ FlagsGood(x, s, m[x], a, ncli[c], intr[c], intena[c])
      /\ OwnsGood(c, a, locked, lkCpu)
      /\ x \in Threads => tstate[x] = "RUNNING"
  <2>1. Does(c, "disown")
    BY DEF Disown
  <2>2. LkLeaves(c, m, k, "disown")
    BY <2>1, LkGoes
  <2> QED
    BY <2>2 DEF LkLeaves
<1> DEFINE l == s[1].arg
           h == a.held
           P(d) == k[onStack[d]][1]
<1>2. /\ todo' = [todo EXCEPT ![x] = s2] /\ lkPanic' = ~Holding(c, l)
      /\ lkCpu' = [lkCpu EXCEPT ![l] = NoLkCPU]
      /\ UNCHANGED <<onStack, intr, ncli, intena, locked, tstate>>
    BY <1>1 DEF Disown, Goes, Steps, LkNow
<1>o. /\ locked \in [Locks -> BOOLEAN]
      /\ lkCpu \in [Locks -> LkCPUs \cup {NoLkCPU}]
      /\ \A d \in LkCPUs : P(d) \in LkPts /\ OwnsGood(d, P(d), locked, lkCpu)
      /\ \A d \in LkCPUs \ {c} : Busy(a) \cap Busy(P(d)) = {}
    BY LkOthers
<1> HIDE DEF x, s, a, b, s2, m2, q2
<1>3. l \in h /\ a = Free(h) /\ b = Pt(h \ {l}, "dis", l)
  <2>1. Link(s[1], a, b) /\ s[1].op = "disown"
    BY <1>1
  <2> QED
    BY <2>1 DEF Link, LinkAcquire, LinkRelease, LinkSwitch, LinkIret
<1>4. /\ h \in SUBSET Locks /\ IsFiniteSet(h) /\ l \in Locks
      /\ Cardinality(h) \in Nat
    BY <1>1, <1>3, BusyFacts
<1>5. /\ Busy(a) = h /\ Busy(b) = h /\ b.held = h \ {l} /\ b.lk = l /\ l \in h
      /\ InAcquire(b) = 1 /\ InAcquire(a) = 0
      /\ Cardinality(h \ {l}) + 1 = Cardinality(h) /\ a.held = h
  <2>1. Busy(b) = (h \ {l}) \cup {l}
    BY <1>1, <1>3, BusyFacts DEF Pt
  <2>2. Busy(a) = h
    BY <1>1, <1>3, BusyFacts DEF Free, Pt
  <2>3. /\ InAcquire(b) = 1 /\ InAcquire(a) = 0 /\ l \in h
        /\ b.held = h \ {l} /\ b.lk = l
    BY <1>3 DEF Free, Pt, InAcquire
  <2> HIDE DEF l, h, P
  <2>4. Cardinality(h \ {l}) = Cardinality(h) - 1
    BY <2>3, <1>4, FS_RemoveElement
  <2>5. Cardinality(h \ {l}) + 1 = Cardinality(h)
    BY <2>4, <1>4
  <2>6. a.held = h /\ h = (h \ {l}) \cup {l}
    BY <2>3 DEF h
  <2> QED
    BY <2>1, <2>2, <2>3, <2>5, <2>6
<1>o2. \A d \in LkCPUs \ {c} : d # c /\ d \in LkCPUs /\ P(d) \in LkPts
            /\ OwnsGood(d, P(d), locked, lkCpu) /\ Busy(a) \cap Busy(P(d)) = {}
    BY <1>o
<1>c. OwnsGood(c, a, locked, lkCpu)
    BY <1>1
<1> HIDE DEF l, h, P
<1>6. /\ locked' \in [Locks -> BOOLEAN]
      /\ lkCpu' \in [Locks -> LkCPUs \cup {NoLkCPU}]
    BY <1>2, <1>4, <1>o
<1>7. OwnsGood(c, b, locked', lkCpu')
  <2>1. (\A j \in Locks : lkCpu[j] = c <=> j \in h) /\ \A j \in h : locked[j]
    BY <1>5, <1>c DEF OwnsGood
  <2>2. NoLkCPU # c
    BY SpinlockAssumption DEF SpinlockAssumption
  <2> QED
    BY <2>1, <2>2, <1>2, <1>4, <1>5, <1>o DEF OwnsGood
<1>8. ASSUME NEW d \in LkCPUs \ {c}
      PROVE  OwnsGood(d, P(d), locked', lkCpu') /\ Busy(b) \cap Busy(P(d)) = {}
  <2>1. /\ d # c /\ d \in LkCPUs /\ P(d) \in LkPts
        /\ OwnsGood(d, P(d), locked, lkCpu) /\ Busy(a) \cap Busy(P(d)) = {}
    BY <1>o2
  <2>2. /\ P(d).held \subseteq Busy(P(d)) /\ P(d).held \subseteq Locks
        /\ Busy(P(d)) \subseteq Locks
        /\ P(d).pc \in {"taken", "dis"} => P(d).lk \in Busy(P(d))
    BY <2>1, BusyFacts
  <2>3. l \notin Busy(P(d)) /\ Busy(b) \cap Busy(P(d)) = {}
    BY <2>1, <1>5
  <2>n. NoLkCPU # d
    BY <2>1, SpinlockAssumption DEF SpinlockAssumption
  <2>4. \A j \in Locks : lkCpu'[j] = d <=> j \in P(d).held
    BY <2>1, <2>2, <2>3, <2>n, <1>2, <1>o DEF OwnsGood
  <2>5. P(d).pc \in {"taken", "dis"} => lkCpu'[P(d).lk] = NoLkCPU
    BY <2>1, <2>2, <2>3, <1>2, <1>o DEF OwnsGood
  <2>6. \A j \in Busy(P(d)) : locked'[j]
    BY <2>1, <1>2 DEF OwnsGood
  <2> QED
    BY <2>3, <2>4, <2>5, <2>6 DEF OwnsGood
<1>9. FlagsGood(x, s2, m2, b, ncli[c], intr[c], intena[c])
  <2>1. ncli[c] = Cardinality(b.held) + InAcquire(b)
    BY <1>1, <1>4, <1>5 DEF FlagsGood
  <2>2. ~(s # <<>> /\ s[1].op = "intena")
    BY <1>1
  <2> QED
    BY <2>1, <2>2, <1>1, FlagsKept
<1>10. \A t \in Threads : tstate'[t] = tstate[t]
    BY <1>2
<1>11. LkMove(onStack, k, tstate, c, s2, m2, q2, intr[c], ncli[c], intena[c],
              locked', lkCpu', tstate')
  <2>1. ncli[c] \in Nat /\ (intr[c]) \in BOOLEAN
    BY <1>1
  <2>2. \A d \in LkCPUs \ {c} :
            /\ OwnsGood(d, k[onStack[d]][1], locked', lkCpu')
            /\ Busy(b) \cap Busy(k[onStack[d]][1]) = {}
    BY <1>8 DEF P
  <2> QED
    BY <2>1, <2>2, <1>1, <1>2, <1>6, <1>7, <1>9, <1>10 DEF LkMove, x
<1>12. lkPanic' = FALSE
  <2>1. lkCpu[l] = c /\ locked[l]
    BY <1>4, <1>5, <1>c DEF OwnsGood, h
  <2> QED
    BY <2>1, <1>2 DEF Holding
<1> QED
    BY <1>2, <1>11, <1>12, LockStep DEF x

LEMMA StepUnlock ==
    ASSUME NEW m, NEW k, LkNow(m, k), NEW c \in LkCPUs, Unlock(c)
    PROVE  LkNextSound
<1> DEFINE x == onStack[c]
           s == todo[x]
           a == k[x][1]
           b == k[x][2]
           s2 == Tail(s)
           m2 == Popped(m[x])
           q2 == Tail(k[x])
<1>1. /\ Step(c) = s[1] /\ s[1].op = "unlock" /\ s[1] \in LkOps /\ s # <<>>
      /\ x \in Stacks /\ a \in LkPts /\ b \in LkPts /\ Link(s[1], a, b)
      /\ intr[c] \in BOOLEAN /\ ncli[c] \in Nat /\ intena[c] \in BOOLEAN
      /\ tstate \in [Threads -> {"RUNNABLE", "RUNNING", "SLEEPING"}]
      /\ m[x] \in Nat /\ m2 \in Nat /\ (m2 > 0 <=> m[x] > 0)
      /\ StackGood(x, s, m[x], k[x])
      /\ StackGood(x, s2, m2, q2) /\ q2[1] = b
      /\ Fk(s2) <=> Fk(s)
      /\ ~(s2 # <<>> /\ s2[1].op = "intena")
      /\ AtSched(s2) <=> FALSE
      /\ FlagsGood(x, s, m[x], a, ncli[c], intr[c], intena[c])
      /\ OwnsGood(c, a, locked, lkCpu)
      /\ x \in Threads => tstate[x] = "RUNNING"
  <2>1. Does(c, "unlock")
    BY DEF Unlock
  <2>2. LkLeaves(c, m, k, "unlock")
    BY <2>1, LkGoes
  <2> QED
    BY <2>2 DEF LkLeaves
<1> DEFINE l == s[1].arg
           h == a.held
           P(d) == k[onStack[d]][1]
<1>2. /\ todo' = [todo EXCEPT ![x] = s2] /\ lkPanic' = (intr[c] \/ ncli[c] = 0)
      /\ locked' = [locked EXCEPT ![l] = FALSE]
      /\ ncli' = [ncli EXCEPT ![c] = ncli[c] - 1]
      /\ intr' = [intr EXCEPT ![c] = intr[c] \/ (ncli[c] = 1 /\ intena[c])]
      /\ UNCHANGED <<onStack, intena, lkCpu, tstate>>
    BY <1>1 DEF Unlock, Goes, Steps, LkNow
<1>o. /\ locked \in [Locks -> BOOLEAN]
      /\ lkCpu \in [Locks -> LkCPUs \cup {NoLkCPU}]
      /\ \A d \in LkCPUs : P(d) \in LkPts /\ OwnsGood(d, P(d), locked, lkCpu)
      /\ \A d \in LkCPUs \ {c} : Busy(a) \cap Busy(P(d)) = {}
    BY LkOthers
<1> HIDE DEF x, s, a, b, s2, m2, q2
<1>3. a = Pt(h, "dis", l) /\ b = Free(h)
  <2>1. Link(s[1], a, b) /\ s[1].op = "unlock"
    BY <1>1
  <2> QED
    BY <2>1 DEF Link, LinkAcquire, LinkRelease, LinkSwitch, LinkIret
<1>4. /\ h \in SUBSET Locks /\ IsFiniteSet(h) /\ l \in Locks
      /\ Cardinality(h) \in Nat
    BY <1>1, <1>3, BusyFacts DEF Pt
<1>5. /\ Busy(a) = h \cup {l} /\ Busy(b) = h /\ b.held = h /\ b.pc = "free"
      /\ InAcquire(b) = 0 /\ l \notin h /\ a.held = h
      /\ ncli[c] = Cardinality(h) + 1 /\ ncli[c] > 0 /\ ncli[c] - 1 \in Nat
  <2>1. Busy(a) = h \cup {l} /\ l \notin h /\ InAcquire(a) = 1
    BY <1>1, <1>3, BusyFacts DEF Pt, OnLock, InAcquire
  <2>2. Busy(b) = h /\ b.held = h /\ b.pc = "free" /\ InAcquire(b) = 0
    BY <1>1, <1>3, BusyFacts DEF Free, Pt, InAcquire
  <2>3. ncli[c] = Cardinality(h) + 1
    BY <2>1, <1>1 DEF FlagsGood
  <2> QED
    BY <2>1, <2>2, <2>3, <1>4
<1>o2. \A d \in LkCPUs \ {c} : d # c /\ d \in LkCPUs /\ P(d) \in LkPts
            /\ OwnsGood(d, P(d), locked, lkCpu) /\ Busy(a) \cap Busy(P(d)) = {}
    BY <1>o
<1>c. OwnsGood(c, a, locked, lkCpu)
    BY <1>1
<1> HIDE DEF l, h, P
<1>6. /\ locked' \in [Locks -> BOOLEAN]
      /\ lkCpu' \in [Locks -> LkCPUs \cup {NoLkCPU}]
    BY <1>2, <1>4, <1>o
<1>7. OwnsGood(c, b, locked', lkCpu')
  <2>1. (\A j \in Locks : lkCpu[j] = c <=> j \in h) /\ \A j \in h : locked[j]
    BY <1>5, <1>c DEF OwnsGood
  <2> QED
    BY <2>1, <1>2, <1>4, <1>5, <1>o DEF OwnsGood
<1>8. ASSUME NEW d \in LkCPUs \ {c}
      PROVE  OwnsGood(d, P(d), locked', lkCpu') /\ Busy(b) \cap Busy(P(d)) = {}
  <2>1. /\ d # c /\ d \in LkCPUs /\ P(d) \in LkPts
        /\ OwnsGood(d, P(d), locked, lkCpu) /\ Busy(a) \cap Busy(P(d)) = {}
    BY <1>o2
  <2>2. /\ P(d).held \subseteq Busy(P(d)) /\ P(d).held \subseteq Locks
        /\ Busy(P(d)) \subseteq Locks
        /\ P(d).pc \in {"taken", "dis"} => P(d).lk \in Busy(P(d))
    BY <2>1, BusyFacts
  <2>3. l \notin Busy(P(d)) /\ Busy(b) \cap Busy(P(d)) = {}
    BY <2>1, <1>5
  <2>6. \A j \in Busy(P(d)) : locked'[j]
    BY <2>1, <2>2, <2>3, <1>2, <1>o DEF OwnsGood
  <2> QED
    BY <2>1, <2>3, <2>6, <1>2 DEF OwnsGood
<1>9. FlagsGood(x, s2, m2, b, ncli[c] - 1, intr[c] \/ (ncli[c] = 1 /\ intena[c]),
                intena[c])
  <2>1. ~(s # <<>> /\ s[1].op = "intena")
    BY <1>1
  <2>2. /\ ~intr[c]
        /\ m[x] > 0 => ~intena[c]
        /\ m[x] = 0 /\ x \in Threads /\ ~Fk(s) => intena[c]
    BY <2>1, <1>1, <1>5 DEF FlagsGood
  <2>3. ncli[c] - 1 = Cardinality(b.held) + InAcquire(b)
    BY <1>4, <1>5
  <2>4. (ncli[c] - 1 > 0 => ncli[c] # 1) /\ (ncli[c] - 1 = 0 => ncli[c] = 1)
        /\ (m2 = 0 <=> m[x] = 0)
    BY <1>1
  <2> QED
    BY <2>2, <2>3, <2>4, <1>1 DEF FlagsGood
<1>10. \A t \in Threads : tstate'[t] = tstate[t]
    BY <1>2
<1>11. LkMove(onStack, k, tstate, c, s2, m2, q2,
              intr[c] \/ (ncli[c] = 1 /\ intena[c]), ncli[c] - 1, intena[c],
              locked', lkCpu', tstate')
  <2>1. ncli[c] - 1 \in Nat /\ (intr[c] \/ (ncli[c] = 1 /\ intena[c])) \in BOOLEAN
    BY <1>1, <1>5
  <2>2. \A d \in LkCPUs \ {c} :
            /\ OwnsGood(d, k[onStack[d]][1], locked', lkCpu')
            /\ Busy(b) \cap Busy(k[onStack[d]][1]) = {}
    BY <1>8 DEF P
  <2> QED
    BY <2>1, <2>2, <1>1, <1>2, <1>6, <1>7, <1>9, <1>10 DEF LkMove, x
<1>12. lkPanic' = FALSE
    BY <1>1, <1>2, <1>5 DEF FlagsGood
<1> QED
    BY <1>2, <1>11, <1>12, LockStep DEF x

\* The CPU c goes from its stack x to y, and leaves s2 before x.
LEMMA LkSwitched ==
    ASSUME NEW td, NEW on, NEW it, NEW nc, NEW ie, NEW lo, NEW lc, NEW ts,
           NEW m, NEW k,
           LkSound(td, on, it, nc, ie, lo, lc, ts, m, k),
           NEW c \in LkCPUs, NEW x, x = on[c],
           NEW y \in {c} \cup Threads, \A d \in LkCPUs : on[d] # y,
           NEW s2, NEW ts2 \in [Threads -> {"RUNNABLE", "RUNNING", "SLEEPING"}],
           StackGood(x, s2, m[x], k[x]),
           k[y][1].held = k[x][1].held,
           k[x][1].pc \notin {"taken", "dis"}, k[y][1].pc \notin {"taken", "dis"},
           FlagsGood(y, td[y], m[y], k[y][1], nc[c], it[c], ie[c]),
           y \in Threads => ts2[y] = "RUNNING" /\ ~AtSched(td[y]),
           x \in Threads => ts2[x] # "RUNNING" /\ ThreadWaits(x, s2, m[x], k[x][1]),
           y # c => x = c /\ s2 # <<>> /\ s2[1].op = "pick",
           \A t \in Threads \ {x, y} : ts2[t] = ts[t]
    PROVE  LkSound([td EXCEPT ![x] = s2], [on EXCEPT ![c] = y], it, nc, ie, lo, lc,
                   ts2, m, k)
<1> DEFINE td2 == [td EXCEPT ![x] = s2]
           on2 == [on EXCEPT ![c] = y]
<1>1. /\ LkTypes(td, on, it, nc, ie, lo, lc, ts, m, k)
      /\ StacksGood(td, m, k)
      /\ CPUsApart(on, k)
      /\ CPUsGood(td, on, it, nc, ie, lo, lc, m, k)
      /\ ActiveGood(td, on, ts)
      /\ WaitersGood(td, on, ts, m, k)
    BY DEF LkSound
<1>2. /\ td = [z \in Stacks |-> td[z]]
      /\ on \in [LkCPUs -> Stacks] /\ \A d \in LkCPUs : on[d] \in {d} \cup Threads
    BY <1>1 DEF LkTypes
<1>3. /\ x \in Stacks /\ y \in Stacks /\ x \in {c} \cup Threads /\ x # y
      /\ LkCPUs \cap Threads = {}
    BY <1>2, SpinlockAssumption DEF Stacks, SpinlockAssumption
<1>4. /\ td2 = [z \in Stacks |-> td2[z]] /\ td2[x] = s2
      /\ \A z \in Stacks \ {x} : td2[z] = td[z]
  <2>1. td2 = [z \in Stacks |-> IF z = x THEN s2 ELSE td[z]]
    BY <1>2, <1>3
  <2> HIDE DEF td2
  <2> QED
    BY <2>1, <1>3
<1>5. /\ on2 \in [LkCPUs -> Stacks] /\ on2[c] = y
      /\ \A d \in LkCPUs \ {c} : on2[d] = on[d]
    BY <1>2, <1>3
<1> HIDE DEF td2, on2
<1>6. LkTypes(td2, on2, it, nc, ie, lo, lc, ts2, m, k)
  <2>1. \A d \in LkCPUs : on2[d] \in {d} \cup Threads
    BY <1>2, <1>5
  <2> QED
    BY <2>1, <1>1, <1>4, <1>5 DEF LkTypes
<1>7. StacksGood(td2, m, k)
    BY <1>1, <1>4 DEF StacksGood
<1>8. Busy(k[y][1]) = Busy(k[x][1])
    BY DEF Busy
<1>9. CPUsApart(on2, k)
    BY <1>1, <1>5, <1>8 DEF CPUsApart
<1>10. CPUsGood(td2, on2, it, nc, ie, lo, lc, m, k)
  <2>1. ASSUME NEW d \in LkCPUs
        PROVE  /\ FlagsGood(on2[d], td2[on2[d]], m[on2[d]], k[on2[d]][1], nc[d], it[d],
                            ie[d])
               /\ OwnsGood(d, k[on2[d]][1], lo, lc)
    <3>1. CASE d = c
      <4>1. OwnsGood(c, k[x][1], lo, lc)
        BY <1>1 DEF CPUsGood
      <4>2. OwnsGood(c, k[y][1], lo, lc)
        BY <4>1, <1>8 DEF OwnsGood
      <4> QED
        BY <4>2, <3>1, <1>3, <1>4, <1>5
    <3>2. CASE d # c
      <4>1. on[d] \in Stacks \ {x} /\ on2[d] = on[d]
        BY <3>2, <1>1, <1>2, <1>5 DEF CPUsApart
      <4>2. td2[on2[d]] = td[on[d]]
        BY <4>1, <1>4
      <4> QED
        BY <4>1, <4>2, <1>1 DEF CPUsGood
    <3> QED
        BY <3>1, <3>2
  <2> QED
    BY <2>1 DEF CPUsGood
<1>11. ActiveGood(td2, on2, ts2)
  <2>1. ASSUME NEW d \in LkCPUs, on2[d] \in Threads
        PROVE  ts2[on2[d]] = "RUNNING" <=> ~AtSched(td2[on2[d]])
    <3>1. CASE d = c
        BY <3>1, <2>1, <1>3, <1>4, <1>5
    <3>2. CASE d # c
      <4>1. on[d] \in Stacks \ {x, y} /\ on2[d] = on[d]
        BY <3>2, <1>1, <1>2, <1>5 DEF CPUsApart
      <4>2. td2[on2[d]] = td[on[d]] /\ ts2[on2[d]] = ts[on[d]]
        BY <4>1, <2>1, <1>4
      <4> QED
        BY <4>1, <4>2, <2>1, <1>1 DEF ActiveGood
    <3> QED
        BY <3>1, <3>2
  <2> QED
    BY <2>1 DEF ActiveGood
<1>12. WaitersGood(td2, on2, ts2, m, k)
  <2>1. ASSUME NEW t \in Threads, \A d \in LkCPUs : on2[d] # t
        PROVE  ts2[t] # "RUNNING" /\ ThreadWaits(t, td2[t], m[t], k[t][1])
    <3>1. CASE t = x
        BY <3>1, <1>4
    <3>2. CASE t # x
      <4>1. \A d \in LkCPUs : on[d] # t
        BY <3>2, <2>1, <1>5
      <4>2. t \in Stacks \ {x} /\ t # y
        BY <3>2, <2>1, <1>5 DEF Stacks
      <4>3. td2[t] = td[t] /\ ts2[t] = ts[t]
        BY <4>2, <1>4
      <4> QED
        BY <4>1, <4>3, <1>1 DEF WaitersGood
    <3> QED
        BY <3>1, <3>2
  <2>2. ASSUME NEW d \in LkCPUs, on2[d] # d
        PROVE  td2[d] # <<>> /\ td2[d][1].op = "pick"
    <3>1. CASE d = c
        BY <3>1, <2>2, <1>4, <1>5
    <3>2. CASE d # c
      <4>1. on[d] # d /\ d \in Stacks \ {x}
        BY <3>2, <2>2, <1>3, <1>5 DEF Stacks
      <4>2. td2[d] = td[d]
        BY <4>1, <1>4
      <4> QED
        BY <4>1, <4>2, <1>1 DEF WaitersGood
    <3> QED
        BY <3>1, <3>2
  <2> QED
    BY <2>1, <2>2 DEF WaitersGood
<1> QED
    BY <1>6, <1>7, <1>9, <1>10, <1>11, <1>12 DEF LkSound, td2, on2

\* A scheduler() at its swtch().
LEMMA PickFacts ==
    ASSUME NEW x, NEW s, NEW m, NEW q, StackGood(x, s, m, q), s # <<>>,
           s[1].op = "pick"
    PROVE  m = 0 /\ q[1] = Free({PtableLock}) /\ x \in LkCPUs
<1>1. StackLaid(x, s, m, q)
    BY DEF StackGood, StackLaid
<1>2. Link(s[1], q[1], q[2]) /\ m = 0 /\ x \in LkCPUs
    BY <1>1, HeadFacts
<1> QED
    BY <1>2 DEF Link, LinkAcquire, LinkRelease, LinkSwitch, LinkIret

LEMMA StepSched ==
    ASSUME NEW m, NEW k, LkNow(m, k), NEW c \in LkCPUs, Sched(c)
    PROVE  LkNextSound
<1> DEFINE x == onStack[c]
           s == todo[x]
           v == intena[c]
           s2 == SchedLeaves(s, v)
<1>1. LkLeaves(c, m, k, "sched")
    BY LkGoes DEF Sched
<1>2. /\ s[1].op = "sched" /\ s # <<>> /\ x \in Threads /\ v \in BOOLEAN
      /\ ncli[c] \in Nat /\ intr[c] \in BOOLEAN /\ m[x] \in Nat
      /\ k[x][1] \in LkPts
      /\ StackGood(x, s, m[x], k[x]) /\ tstate[x] # "RUNNING"
      /\ tstate \in [Threads -> {"RUNNABLE", "RUNNING", "SLEEPING"}]
      /\ FlagsGood(x, s, m[x], k[x][1], ncli[c], intr[c], v)
      /\ OwnsGood(c, k[x][1], locked, lkCpu)
    BY <1>1 DEF LkLeaves
<1>3. /\ todo' = [todo EXCEPT ![x] = s2] /\ onStack' = [onStack EXCEPT ![c] = c]
      /\ UNCHANGED <<intr, ncli, intena, locked, lkCpu, tstate>>
      /\ lkPanic' = (\/ ~Holding(c, PtableLock) \/ ncli[c] # 1
                     \/ tstate[x] = "RUNNING" \/ intr[c])
    BY DEF Sched, Steps, SchedLeaves
<1>4. /\ LkSound(todo, onStack, intr, ncli, intena, locked, lkCpu, tstate, m, k)
      /\ lkPanic = FALSE
    BY DEF LkNow
<1>5. /\ onStack \in [LkCPUs -> Stacks]
      /\ \A d \in LkCPUs : onStack[d] \in {d} \cup Threads
      /\ StacksGood(todo, m, k) /\ WaitersGood(todo, onStack, tstate, m, k)
    BY <1>4 DEF LkSound, LkTypes
<1>6. c \notin Threads /\ c \in Stacks /\ \A d \in LkCPUs : onStack[d] # c
    BY <1>2, <1>5, SpinlockAssumption DEF SpinlockAssumption, Stacks
<1>7. m[c] = 0 /\ k[c][1] = Free({PtableLock}) /\ todo[c] # <<>> /\ todo[c][1].op = "pick"
  <2>1. todo[c] # <<>> /\ todo[c][1].op = "pick"
    BY <1>5, <1>6 DEF WaitersGood
  <2>2. StackGood(c, todo[c], m[c], k[c])
    BY <1>5, <1>6 DEF StacksGood
  <2> QED
    BY <2>1, <2>2, PickFacts
<1> HIDE DEF x, s, v
<1>8. k[x][1] = AtSwtch
  <2>1. StackLaid(x, s, m[x], k[x])
    BY <1>2 DEF StackGood, StackLaid
  <2>2. Link(s[1], k[x][1], k[x][2])
    BY <2>1, <1>2, HeadFacts
  <2> QED
    BY <2>2, <1>2 DEF Link, LinkAcquire, LinkRelease, LinkSwitch, LinkIret
<1>9. /\ k[x][1].held = {PtableLock} /\ k[x][1].pc = "stated"
      /\ k[c][1].held = {PtableLock} /\ k[c][1].pc = "free"
    BY <1>7, <1>8 DEF AtSwtch, Free, Pt
<1>10. ncli[c] = 1
  <2>1. Cardinality({PtableLock}) = 1
    BY FS_Singleton
  <2> QED
    BY <2>1, <1>2, <1>9 DEF FlagsGood, InAcquire
<1>11. ~intr[c] /\ (m[x] > 0 => ~v) /\ (m[x] = 0 /\ ~Fk(s) => v)
    BY <1>2, <1>10 DEF FlagsGood
<1>12. /\ StackGood(x, s2, m[x], k[x]) /\ s2 # <<>> /\ s2[1].op = "intena"
    BY <1>2, <1>11, GoodSched
<1> HIDE DEF s2
<1>13. FlagsGood(c, todo[c], m[c], k[c][1], ncli[c], intr[c], intena[c])
  <2>1. ncli[c] = Cardinality(k[c][1].held) + InAcquire(k[c][1])
    BY <1>2, <1>9 DEF FlagsGood, InAcquire
  <2> QED
    BY <2>1, <1>6, <1>7, <1>10, <1>11 DEF FlagsGood
<1>14. LkSound([todo EXCEPT ![x] = s2], [onStack EXCEPT ![c] = c], intr, ncli, intena,
               locked, lkCpu, tstate, m, k)
  <2>1. ThreadWaits(x, s2, m[x], k[x][1])
    BY <1>8, <1>12 DEF ThreadWaits
  <2>2. x = onStack[c]
    BY DEF x
  <2> QED
    BY <2>1, <2>2, <1>2, <1>4, <1>6, <1>9, <1>12, <1>13, LkSwitched
<1>15. Holding(c, PtableLock)
    BY <1>2, <1>9, BusyFacts DEF OwnsGood, Holding, Locks
<1>16. lkPanic' = FALSE
    BY <1>2, <1>3, <1>10, <1>11, <1>15
<1> QED
    BY <1>3, <1>14, <1>16 DEF LkNextSound

LEMMA StepSwtchTo ==
    ASSUME NEW m, NEW k, LkNow(m, k), NEW c \in LkCPUs, NEW t \in Threads,
           SwtchTo(c, t)
    PROVE  LkNextSound
<1> DEFINE x == onStack[c]
           s == todo[x]
<1>1. LkLeaves(c, m, k, "pick")
    BY LkGoes DEF SwtchTo
<1>2. /\ s[1].op = "pick" /\ s # <<>> /\ x \in LkCPUs /\ x \in {c} \cup Threads
      /\ ncli[c] \in Nat /\ intr[c] \in BOOLEAN /\ intena[c] \in BOOLEAN
      /\ StackGood(x, s, m[x], k[x])
      /\ tstate \in [Threads -> {"RUNNABLE", "RUNNING", "SLEEPING"}]
      /\ FlagsGood(x, s, m[x], k[x][1], ncli[c], intr[c], intena[c])
    BY <1>1 DEF LkLeaves
<1>3. /\ tstate[t] = "RUNNABLE" /\ tstate' = [tstate EXCEPT ![t] = "RUNNING"]
      /\ onStack' = [onStack EXCEPT ![c] = t]
      /\ UNCHANGED <<todo, intr, ncli, intena, locked, lkCpu, lkPanic>>
    BY DEF SwtchTo
<1>4. /\ LkSound(todo, onStack, intr, ncli, intena, locked, lkCpu, tstate, m, k)
      /\ lkPanic = FALSE
    BY DEF LkNow
<1>5. /\ onStack \in [LkCPUs -> Stacks] /\ todo = [z \in Stacks |-> todo[z]]
      /\ \A d \in LkCPUs : onStack[d] \in {d} \cup Threads
      /\ StacksGood(todo, m, k) /\ WaitersGood(todo, onStack, tstate, m, k)
      /\ CPUsApart(onStack, k) /\ ActiveGood(todo, onStack, tstate)
    BY <1>4 DEF LkSound, LkTypes
<1>6. /\ x = c /\ m[c] = 0 /\ k[c][1] = Free({PtableLock})
      /\ t \in Stacks /\ t # c
  <2>1. x = c /\ t \in Stacks /\ t # c
    BY <1>2, SpinlockAssumption DEF SpinlockAssumption, Stacks
  <2>2. m[x] = 0 /\ k[x][1] = Free({PtableLock})
    <3> HIDE DEF x, s
    <3> QED
      BY <1>2, PickFacts
  <2> QED
    BY <2>1, <2>2
<1>7. StackGood(t, todo[t], m[t], k[t])
    BY <1>5, <1>6 DEF StacksGood
<1> HIDE DEF x, s
<1>8. \A d \in LkCPUs : onStack[d] # t
  <2> SUFFICES ASSUME NEW d \in LkCPUs, onStack[d] = t
               PROVE  FALSE
    OBVIOUS
  <2>1. AtSched(todo[t])
    BY <1>3, <1>5 DEF ActiveGood
  <2>2. k[t][1] = AtSwtch
    <3>1. todo[t] # <<>> /\ todo[t][1].op = "sched"
      BY <2>1 DEF AtSched
    <3>2. StackLaid(t, todo[t], m[t], k[t])
      BY <1>7 DEF StackGood, StackLaid
    <3>3. Link(todo[t][1], k[t][1], k[t][2])
      BY <3>1, <3>2, HeadFacts
    <3> QED
      BY <3>1, <3>3 DEF Link, LinkAcquire, LinkRelease, LinkSwitch, LinkIret
  <2>3. PtableLock \in Busy(k[t][1]) /\ PtableLock \in Busy(k[c][1])
    BY <2>2, <1>6 DEF Busy, AtSwtch, Free, Pt
  <2>4. d # c /\ onStack[c] = c
    BY <1>6 DEF x
  <2> QED
    BY <2>3, <2>4, <1>5 DEF CPUsApart
<1>9. ThreadWaits(t, todo[t], m[t], k[t][1])
    BY <1>5, <1>8 DEF WaitersGood
<1>10. /\ k[t][1].held = {PtableLock} /\ k[t][1].pc \in {"free", "stated"}
       /\ k[c][1].held = {PtableLock} /\ k[c][1].pc = "free"
    BY <1>6, <1>9 DEF ThreadWaits, AtSwtch, Free, Pt
<1>11. ~AtSched(todo[t])
  <2>1. CASE todo[t] # <<>> /\ todo[t][1].op = "intena"
    BY <2>1 DEF AtSched
  <2>2. CASE k[t][1] = Free({PtableLock})
    BY <2>2, <1>7, FreeNotAtSched DEF Free, Pt
  <2> QED
    BY <2>1, <2>2, <1>9 DEF ThreadWaits
<1>12. ncli[c] = 1
  <2>1. Cardinality({PtableLock}) = 1
    BY FS_Singleton
  <2>2. ncli[c] = Cardinality(k[x][1].held) + InAcquire(k[x][1])
    BY <1>2 DEF FlagsGood
  <2>3. k[x][1].held = {PtableLock} /\ k[x][1].pc = "free"
    BY <1>6, <1>10
  <2> QED
    BY <2>1, <2>2, <2>3 DEF InAcquire
<1>13. FlagsGood(t, todo[t], m[t], k[t][1], ncli[c], intr[c], intena[c])
  <2>1. ncli[c] = Cardinality(k[t][1].held) + InAcquire(k[t][1])
    BY <1>2, <1>6, <1>10 DEF FlagsGood, InAcquire
  <2>2. ~intr[c]
    BY <1>2, <1>12 DEF FlagsGood
  <2>3. (todo[t] # <<>> /\ todo[t][1].op = "intena") \/ (m[t] = 0 /\ Fk(todo[t]))
    BY <1>9 DEF ThreadWaits
  <2> QED
    BY <2>1, <2>2, <2>3, <1>12 DEF FlagsGood
<1>14. [todo EXCEPT ![x] = s] = todo
    BY <1>5, <1>6 DEF s, Stacks
<1>15. LkSound([todo EXCEPT ![x] = s], [onStack EXCEPT ![c] = t], intr, ncli, intena,
               locked, lkCpu, tstate', m, k)
  <2>1. /\ tstate' \in [Threads -> {"RUNNABLE", "RUNNING", "SLEEPING"}]
        /\ tstate'[t] = "RUNNING"
        /\ \A u \in Threads \ {x, t} : tstate'[u] = tstate[u]
    BY <1>2, <1>3
  <2>2. x = onStack[c] /\ x \notin Threads
    BY <1>6, SpinlockAssumption DEF x, SpinlockAssumption
  <2>3. StackGood(x, s, m[x], k[x]) /\ s # <<>> /\ s[1].op = "pick"
    BY <1>2
  <2> QED
    <3>1. /\ k[t][1].held = k[x][1].held
          /\ k[x][1].pc \notin {"taken", "dis"} /\ k[t][1].pc \notin {"taken", "dis"}
      BY <1>6, <1>10
    <3>2. t \in {c} \cup Threads /\ t # c /\ x = c
      BY <1>6
    <3> QED
      BY <3>1, <3>2, <2>1, <2>2, <2>3, <1>4, <1>8, <1>11, <1>13, LkSwitched
<1> QED
    BY <1>3, <1>4, <1>14, <1>15 DEF LkNextSound

-----------------------------------------------------------------------------
(* The locks and the flags in every state.                                 *)

LEMMA LockInitSound ==
    ASSUME LockInit
    PROVE  LockInv
<1> DEFINE F(x, q) == /\ StackGood(x, ForkretOps, 0, q)
                      /\ q[1] = Free({PtableLock}) /\ Fk(ForkretOps)
           m == [x \in Stacks |-> 0]
           k == [x \in Stacks |-> IF x \in Threads THEN CHOOSE q : F(x, q)
                                  ELSE <<Free({})>>]
<1>1. /\ todo = [x \in Stacks |-> IF x \in Threads THEN ForkretOps ELSE <<>>]
      /\ onStack = [c \in LkCPUs |-> c] /\ intr = [c \in LkCPUs |-> FALSE]
      /\ ncli = [c \in LkCPUs |-> 0] /\ intena = [c \in LkCPUs |-> FALSE]
      /\ locked = [l \in Locks |-> FALSE] /\ lkCpu = [l \in Locks |-> NoLkCPU]
      /\ tstate = [t \in Threads |-> "RUNNABLE"] /\ lkPanic = FALSE
    BY DEF LockInit
<1>2. /\ LkCPUs \cap Threads = {} /\ NoLkCPU \notin LkCPUs
      /\ Stacks = LkCPUs \cup Threads
    BY SpinlockAssumption DEF SpinlockAssumption, Stacks
<1>3. \A t \in Threads : F(t, k[t]) /\ m[t] = 0 /\ todo[t] = ForkretOps
  <2>1. ASSUME NEW t \in Threads
        PROVE  F(t, k[t]) /\ m[t] = 0 /\ todo[t] = ForkretOps
    <3>1. \E q : F(t, q)
        BY GoodForkret
    <3>2. F(t, CHOOSE q : F(t, q))
      <4> HIDE DEF F
      <4> QED
        BY <3>1
    <3>3. k[t] = (CHOOSE q : F(t, q)) /\ m[t] = 0 /\ todo[t] = ForkretOps
        BY <1>1, <1>2
    <3> HIDE DEF F, k, m
    <3> QED
        BY <3>2, <3>3
  <2> QED
    BY <2>1
<1>4. \A c \in LkCPUs : k[c] = <<Free({})>> /\ m[c] = 0 /\ todo[c] = <<>>
    BY <1>1, <1>2
<1>5. k = [x \in Stacks |-> k[x]] /\ m = [x \in Stacks |-> m[x]]
    OBVIOUS
<1> HIDE DEF F, k, m
<1>6. LkTypes(todo, onStack, intr, ncli, intena, locked, lkCpu, tstate, m, k)
    BY <1>1, <1>2, <1>5 DEF LkTypes
<1>7. StacksGood(todo, m, k)
    BY <1>2, <1>3, <1>4, EmptyGood DEF StacksGood, F
<1>8. \A c \in LkCPUs : /\ onStack[c] = c /\ k[c][1] = Free({})
                         /\ Busy(k[c][1]) = {} /\ k[c][1].held = {}
                         /\ InAcquire(k[c][1]) = 0 /\ k[c][1].pc = "free"
  <2>1. /\ Free({}).held = {} /\ Free({}).pc = "free" /\ Busy(Free({})) = {}
        /\ InAcquire(Free({})) = 0
    BY DEF Busy, Free, Pt, InAcquire
  <2>2. \A c \in LkCPUs : onStack[c] = c /\ k[c][1] = Free({})
    <3>1. <<Free({})>>[1] = Free({})
        OBVIOUS
    <3>2. \A c \in LkCPUs : onStack[c] = c
        BY <1>1
    <3> QED
        BY <3>1, <3>2, <1>4
  <2> QED
    BY <2>1, <2>2
<1>9. CPUsApart(onStack, k)
    BY <1>8 DEF CPUsApart
<1>10. CPUsGood(todo, onStack, intr, ncli, intena, locked, lkCpu, m, k)
  <2>1. ASSUME NEW c \in LkCPUs
        PROVE  /\ FlagsGood(c, todo[c], m[c], k[c][1], ncli[c], intr[c], intena[c])
               /\ OwnsGood(c, k[c][1], locked, lkCpu)
    <3>1. ncli[c] = 0 /\ ~intr[c] /\ m[c] = 0 /\ c \notin Threads
        BY <1>1, <1>2, <1>4
    <3>2. FlagsGood(c, todo[c], m[c], k[c][1], ncli[c], intr[c], intena[c])
      <4>1. Cardinality(k[c][1].held) = 0
        <5>1. Cardinality({}) = 0
          BY FS_EmptySet
        <5> QED
          BY <5>1, <1>8
      <4>2. ncli[c] = Cardinality(k[c][1].held) + InAcquire(k[c][1])
        BY <4>1, <3>1, <1>8
      <4> QED
        BY <4>2, <3>1 DEF FlagsGood
    <3>3. OwnsGood(c, k[c][1], locked, lkCpu)
        BY <1>1, <1>2, <1>8 DEF OwnsGood
    <3> QED
        BY <3>2, <3>3
  <2> QED
    BY <2>1, <1>8 DEF CPUsGood
<1>11. ActiveGood(todo, onStack, tstate)
    BY <1>1, <1>2 DEF ActiveGood
<1>12. WaitersGood(todo, onStack, tstate, m, k)
  <2>1. \A t \in Threads : ThreadWaits(t, todo[t], m[t], k[t][1])
    BY <1>3 DEF ThreadWaits, F
  <2> QED
    BY <2>1, <1>1 DEF WaitersGood
<1>13. LkSound(todo, onStack, intr, ncli, intena, locked, lkCpu, tstate, m, k)
    BY <1>6, <1>7, <1>9, <1>10, <1>11, <1>12 DEF LkSound
<1> QED
    BY <1>1, <1>13 DEF LockInv

LEMMA LockInvKept ==
    ASSUME LockInv, [LockNext]_lockVars
    PROVE  LockInv'
<1>1. PICK m, k : LkNow(m, k)
    BY DEF LockInv, LkNow
<1>2. CASE UNCHANGED lockVars
    BY <1>2 DEF lockVars, LockInv
<1>3. CASE LockNext
  <2>1. PICK c \in LkCPUs :
            \/ Readeflags(c) \/ Pushcli(c) \/ Xchg(c) \/ Own(c)
            \/ Disown(c) \/ Unlock(c)
            \/ SetState(c) \/ Sched(c) \/ SchedReturns(c) \/ Wakeup1(c)
            \/ Sti(c) \/ EndOfScan(c) \/ \E t \in Threads : SwtchTo(c, t)
            \/ Syscall(c) \/ Interrupt(c) \/ Iret(c)
    BY <1>3 DEF LockNext
  <2>2. LkNextSound
    BY <1>1, <2>1, StepReadeflags, StepPushcli, StepXchg, StepOwn, StepDisown,
       StepUnlock, StepSetState, StepSched, StepSchedReturns, StepWakeup1, StepSti,
       StepEndOfScan, StepSwtchTo, StepSyscall, StepInterrupt, StepIret
  <2> QED
    BY <2>2 DEF LkNextSound, LockInv
<1> QED
    BY <1>2, <1>3

\* The handlers on a stack: the m of its points.
LEMMA FramesKnown ==
    ASSUME NEW x \in Stacks, NEW m, NEW q, StackGood(x, todo[x], m, q)
    PROVE  /\ Frames(x, "handler") # {} <=> m > 0
           /\ Cardinality(Frames(x, "handler")) <= 1
           /\ Frames(x, "forkret") = {} <=> ~Fk(todo[x])
<1> DEFINE s == todo[x]
<1>1. /\ s \in Seq(LkOps) /\ m \in 0..Len(s) /\ Len(s) \in Nat /\ DOMAIN s = 1..Len(s)
      /\ \A i \in 1..Len(s) : s[i] = Op("iret", "handler") <=> i = m
    BY DEF StackGood, StackPlaced, LkPath
<1>2. Frames(x, "handler") = IF m = 0 THEN {} ELSE {m}
    BY <1>1 DEF Frames
<1>3. Cardinality({}) = 0 /\ Cardinality({m}) = 1
    BY FS_EmptySet, FS_Singleton
<1>4. Frames(x, "forkret") = {} <=> ~Fk(s)
    BY <1>1 DEF Frames, Fk
<1>5. CASE m = 0
    BY <1>2, <1>3, <1>4, <1>5
<1>6. CASE m # 0
  <2>1. Frames(x, "handler") = {m} /\ {m} # {} /\ m > 0
    BY <1>1, <1>2, <1>6
  <2>2. Cardinality(Frames(x, "handler")) = 1
    BY <2>1, <1>3
  <2> QED
    BY <2>1, <2>2, <1>4
<1> QED
    BY <1>5, <1>6

LEMMA LockInvImplies ==
    ASSUME LockInv
    PROVE  InterruptsRight
<1>1. PICK m, k :
        LkSound(todo, onStack, intr, ncli, intena, locked, lkCpu, tstate, m, k)
    BY DEF LockInv
<1>2. ASSUME NEW c \in LkCPUs
      PROVE  LET x == onStack[c] IN
             /\ (ncli[c] > 0 \/ Frames(x, "handler") # {}) => ~intr[c]
             /\ Cardinality({l \in Locks : Holding(c, l)}) <= ncli[c]
             /\ (/\ x \in Threads /\ ncli[c] = 0
                 /\ Frames(x, "handler") = {} /\ Frames(x, "forkret") = {}) => intr[c]
  <2> DEFINE x == onStack[c]
             a == k[x][1]
  <2>1. /\ x \in Stacks /\ StackGood(x, todo[x], m[x], k[x]) /\ m[x] \in Nat
        /\ a \in LkPts /\ ncli[c] \in Nat
        /\ FlagsGood(x, todo[x], m[x], a, ncli[c], intr[c], intena[c])
        /\ OwnsGood(c, a, locked, lkCpu)
    BY <1>1, LkHere
  <2> HIDE DEF x, a
  <2>2. /\ Frames(x, "handler") # {} <=> m[x] > 0
        /\ Frames(x, "forkret") = {} <=> ~Fk(todo[x])
    BY <2>1, FramesKnown
  <2>3. {l \in Locks : Holding(c, l)} = a.held
    BY <2>1, BusyFacts DEF OwnsGood, Holding
  <2>4. Cardinality(a.held) <= ncli[c]
    BY <2>1, BusyFacts DEF FlagsGood, InAcquire
  <2>5. ncli[c] > 0 \/ m[x] > 0 => ~intr[c]
    BY <2>1 DEF FlagsGood
  <2>6. x \in Threads /\ m[x] = 0 /\ ~Fk(todo[x]) /\ ncli[c] = 0 => intr[c]
    BY <2>1 DEF FlagsGood
  <2>7. (ncli[c] > 0 \/ Frames(x, "handler") # {}) => ~intr[c]
    BY <2>2, <2>5
  <2>8. (/\ x \in Threads /\ ncli[c] = 0
         /\ Frames(x, "handler") = {} /\ Frames(x, "forkret") = {}) => intr[c]
    BY <2>1, <2>2, <2>6
  <2> QED
    BY <2>3, <2>4, <2>7, <2>8 DEF x
<1>3. \A x \in Stacks : Cardinality(Frames(x, "handler")) <= 1
    BY <1>1, FramesKnown DEF LkSound, StacksGood
<1> QED
    BY <1>2, <1>3 DEF LockInv, InterruptsRight

\* Wherever the steps of a stack may be cut by an interrupt or by another CPU,
\* it holds the locks its path says, and the flag of its CPU is the one that
\* pushcli(), popcli(), sched() and the gates owe it.
THEOREM LocksFollowStacks == LockSpec => []LockInv
<1>1. LockInit => LockInv
    BY LockInitSound
<1>2. LockInv /\ [LockNext]_lockVars => LockInv'
    BY LockInvKept
<1> QED
    BY <1>1, <1>2, PTL DEF LockSpec

\* No panic() of spinlock.c or sched(), no interrupt while a lock is held or in
\* a handler, and interrupts on in a thread without locks: for any number of
\* CPUs, threads and device locks.
THEOREM InterruptsStayRight == LockSpec => []InterruptsRight
<1>1. LockInv => InterruptsRight
    BY LockInvImplies
<1> QED
    BY <1>1, LocksFollowStacks, PTL
=============================================================================

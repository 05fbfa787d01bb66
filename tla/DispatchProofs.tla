--------------------------- MODULE DispatchProofs ---------------------------
(***************************************************************************)
(* Round robin (RR.c) and first come first served (FCFS.c) implement Proc, *)
(* and each keeps its own promise: the times waitx() reports add up, the   *)
(* process forked first is run first, and nobody is overtaken twice.  The  *)
(* last two are about a machine with one CPU, as in the runs: with several *)
(* the times of two forks, and the scans of two schedulers, interleave.    *)
(***************************************************************************)
EXTENDS FCFS, MCRR, ProcProofs

(***************************************************************************)
(* First come first served: the invariant.                                 *)
(***************************************************************************)
FCFSTypes ==
    /\ ticks \in Nat
    /\ ctime \in [Slots -> Nat]
    /\ etime \in [Slots -> Nat]
    /\ rtime \in [Slots -> Nat]
    /\ iotime \in [Slots -> Nat]
    /\ ran \in [CPUs -> BOOLEAN]

\* No slot has been charged for more ticks than have passed since its ctime,
\* whether it is in use or keeps the times of a process that is gone.
TimesSpent ==
    \A p \in Slots : ctime[p] + rtime[p] + iotime[p] <= ticks

\* A zombie is charged no more.
ZombieTimes ==
    \A p \in Slots : state[p] = "ZOMBIE" =>
        ctime[p] + rtime[p] + iotime[p] <= etime[p]

FCFSInv == IInv /\ FCFSTypes /\ TimesSpent /\ ZombieTimes

\* Slots whose ctime is that of the process they hold: from the second half
\* of allocproc() on.
Timed(p) == Used(p) \/ sw[p] = "forkret"

\* The only CPU does not leave a fork() it has begun: nothing in it sleeps,
\* and this trap() does not yield.
ForkOn ==
    \A p \in Slots : pc[p] \in Building => exec[0] = p /\ sw[p] = "no"

\* A slot that waits for its ctime has the last pid handed out.
LastPid ==
    \A p \in Slots : pc[p] = "embryo" => pid[np[p]] = nextpid - 1

\* ctime grows with pid.
CtimeOrder ==
    \A p, q \in Slots :
        Timed(p) /\ Timed(q) /\ pid[p] < pid[q] => ctime[p] <= ctime[q]

OrderInv == ForkOn /\ LastPid /\ CtimeOrder

-----------------------------------------------------------------------------
\* What a step does to the slots that carry times, allocproc() and exit()
\* aside: none is added or renamed, and there is no new zombie.
NoneTimed ==
    \A q \in Slots : Timed(q)' => Timed(q) /\ pid'[q] = pid[q]
NoZombie ==
    \A q \in Slots : state'[q] = "ZOMBIE" => state[q] = "ZOMBIE"

\* The scheduler's steps and wakeup().
LEMMA SchedQuiet ==
    ASSUME IInv, NEW c \in CPUs, NEW p \in Slots, NEW ch \in Chans,
           SchedAcquire(c) \/ SchedRelease(c) \/ Pick(c, p) \/ Wakeup(c, ch)
    PROVE  NoneTimed /\ NoZombie
<1>1. CASE SchedAcquire(c) \/ SchedRelease(c)
    BY <1>1 DEF SchedAcquire, SchedRelease, NoneTimed, NoZombie, Timed, Used
<1>2. CASE Pick(c, p)
    BY <1>2 DEF IInv, TypeOK, Pick, NoneTimed, NoZombie, Timed, Used
<1>3. CASE Wakeup(c, ch)
    BY <1>3 DEF IInv, TypeOK, Wakeup, Woken, NoneTimed, NoZombie, Timed, Used
<1> QED
    BY <1>1, <1>2, <1>3

\* The steps in which no field of FCFS is involved.
LEMMA OtherQuiet ==
    ASSUME IInv, NEW c \in CPUs, NEW p \in Slots, FCFSOther(c, p)
    PROVE  NoneTimed /\ NoZombie
<1> USE DEF IInv, TypeOK, NoneTimed, NoZombie, Timed, Used
<1>1. CASE Switching(c, p)
    BY <1>1 DEF Switching, Swtch, Resume, ResumeSleep
<1>2. ASSUME NEW ch \in Chans, Sleep(c, p, ch)
      PROVE  NoneTimed /\ NoZombie
    BY <1>2 DEF Sleep, Runs, OnCPU
<1>3. CASE Trap(c, p)
    BY <1>3 DEF Trap, SysEnter, TrapExit, Fault, Kill
<1>4. ASSUME NEW q \in Slots, AllocProc(c, p, q)
      PROVE  NoneTimed /\ NoZombie
    BY <1>4 DEF AllocProc, SlotShape
<1>5. CASE AllocProcFull(c, p) \/ ForkCopy(c, p)
    BY <1>5 DEF AllocProcFull, ForkCopy
<1>6. CASE AllocStackFail(c, p) \/ ForkCopyFail(c, p) \/ ForkDone(c, p)
  <2>1. /\ np[p] \in Slots
        /\ state[np[p]] = "EMBRYO"
        /\ pc[p] = "embryo" => sw[np[p]] = "no"
        /\ pc[p] = "ready" => sw[np[p]] = "forkret"
    BY <1>6, Consts DEF AllocStackFail, ForkCopyFail, ForkDone, ForkShape,
       Building, Refs
  <2> QED
    BY <1>6, <2>1 DEF AllocStackFail, ForkCopyFail, ForkDone
<1>7. CASE WaitAcquire(c, p) \/ WaitFail(c, p)
    BY <1>7 DEF WaitAcquire, WaitFail
<1>8. CASE WaitSleep(c, p)
    BY <1>8 DEF WaitSleep, RunsLocked, OnCPU
<1> QED
    BY <1>1, <1>2, <1>3, <1>4, <1>5, <1>6, <1>7, <1>8 DEF FCFSOther

\* wait() takes times away, exit() makes a zombie of a slot that has them.
LEMMA ExitReapQuiet ==
    ASSUME IInv, NEW c \in CPUs, NEW p \in Slots, NEW q \in Slots
    PROVE  /\ WaitReap(c, p, q) => NoneTimed /\ NoZombie
           /\ Exit(c, p) =>
                /\ NoneTimed
                /\ \A r \in Slots \ {p} :
                        state'[r] = "ZOMBIE" => state[r] = "ZOMBIE"
<1> USE DEF IInv, TypeOK, NoneTimed, NoZombie, Timed, Used
<1>1. ASSUME WaitReap(c, p, q)
      PROVE  NoneTimed /\ NoZombie
    BY <1>1 DEF WaitReap
<1>2. ASSUME Exit(c, p)
      PROVE  /\ NoneTimed
             /\ \A r \in Slots \ {p} :
                    state'[r] = "ZOMBIE" => state[r] = "ZOMBIE"
    BY <1>2 DEF Exit, Woken, Runs, OnCPU
<1> QED
    BY <1>1, <1>2

-----------------------------------------------------------------------------
\* Every step of the first-come-first-served kernel is a step of Proc.
LEMMA FCFSStep == [FCFSNext]_fcfsVars => [Next]_vars
<1> SUFFICES ASSUME [FCFSNext]_fcfsVars
             PROVE  [Next]_vars
    OBVIOUS
<1>1. CASE UNCHANGED fcfsVars
    BY <1>1 DEF fcfsVars
<1>2. CASE Tick
  <2>1. 0 \in CPUs
    BY ProcAssumption DEF CPUs
  <2> QED
    BY <1>2, <2>1, FCFSAssumption DEF Tick, Next
<1>3. ASSUME NEW c \in CPUs, FCFSAcquire(c) \/ FCFSRelease(c)
      PROVE  Next
    BY <1>3 DEF FCFSAcquire, FCFSRelease, Next, Scheduler
<1>4. ASSUME NEW c \in CPUs, NEW ch \in Chans \ {TicksChan}, FCFSWakeup(c, ch)
      PROVE  Next
    BY <1>4 DEF FCFSWakeup, Next
<1>5. ASSUME NEW c \in CPUs, NEW p \in Slots, FCFSPick(c, p)
      PROVE  Next
    BY <1>5 DEF FCFSPick, Next, Scheduler
<1>6. ASSUME NEW c \in CPUs, NEW p \in Slots,
             FCFSAllocStack(c, p) \/ FCFSExit(c, p)
      PROVE  Next
    BY <1>6 DEF FCFSAllocStack, FCFSExit, Next, Thread, Fork
<1>7. ASSUME NEW c \in CPUs, NEW p \in Slots, FCFSOther(c, p)
      PROVE  Next
    BY <1>7 DEF FCFSOther, Next, Thread, Fork, Wait
<1>8. ASSUME NEW c \in CPUs, NEW p \in Slots, NEW q \in Slots,
             FCFSReap(c, p, q)
      PROVE  Next
    BY <1>8 DEF FCFSReap, Next, Thread, Wait
<1> QED
    BY <1>1, <1>2, <1>3, <1>4, <1>5, <1>6, <1>7, <1>8 DEF FCFSNext

\* A step that changes no time and makes no zombie.
LEMMA UnchargedTimes ==
    ASSUME FCFSInv, IInv', NoZombie, UNCHANGED <<ticks, times>>,
           ran' \in [CPUs -> BOOLEAN]
    PROVE  FCFSInv'
<1>1. FCFSTypes'
    BY DEF FCFSInv, FCFSTypes, times
<1> QED
    BY <1>1 DEF FCFSInv, TimesSpent, ZombieTimes, NoZombie, times

\* The initial times.
LEMMA FCFSInitInv == FCFSInit => FCFSInv
<1> SUFFICES ASSUME FCFSInit
             PROVE  FCFSInv
    OBVIOUS
<1>1. IInv
    BY InitIInv DEF FCFSInit
<1>2. FCFSTypes /\ TimesSpent /\ ZombieTimes
    BY DEF FCFSInit, FCFSTypes, TimesSpent, ZombieTimes
<1> QED
    BY <1>1, <1>2 DEF FCFSInv

\* One step of the first-come-first-served kernel.
LEMMA FCFSNextInv == FCFSInv /\ [FCFSNext]_fcfsVars => FCFSInv'
<1> SUFFICES ASSUME FCFSInv, [FCFSNext]_fcfsVars
             PROVE  FCFSInv'
    OBVIOUS
<1>1. IInv /\ IInv'
    BY FCFSStep, NextIInv DEF FCFSInv
<1>2. CASE UNCHANGED fcfsVars
    BY <1>1, <1>2, UnchargedTimes
       DEF fcfsVars, vars, NoZombie, FCFSInv, FCFSTypes
<1>3. CASE Tick
  <2>1. \A p \in Slots : ~(p \in MyProcIn("RUNNING") /\ p \in MyProcIn("SLEEPING"))
    BY DEF MyProcIn
  <2>2. \A p \in Slots : state'[p] = "ZOMBIE" =>
            /\ state[p] = "ZOMBIE"
            /\ p \notin MyProcIn("RUNNING")
            /\ p \notin MyProcIn("SLEEPING")
    BY <1>1, <1>3 DEF Tick, Wakeup, Woken, MyProcIn, IInv, TypeOK
  <2>3. FCFSTypes'
    BY <1>3 DEF Tick, Plus1, FCFSInv, FCFSTypes
  <2>4. TimesSpent'
    BY <1>3, <2>1 DEF Tick, Plus1, FCFSInv, FCFSTypes, TimesSpent
  <2>5. ZombieTimes'
    BY <1>3, <2>2 DEF Tick, Plus1, FCFSInv, FCFSTypes, ZombieTimes
  <2> QED
    BY <1>1, <2>3, <2>4, <2>5 DEF FCFSInv
<1>4. ASSUME NEW c \in CPUs, FCFSAcquire(c) \/ FCFSRelease(c)
      PROVE  FCFSInv'
  <2>1. NoZombie
    BY <1>4 DEF FCFSAcquire, FCFSRelease, SchedAcquire, SchedRelease, NoZombie
  <2> QED
    BY <1>1, <1>4, <2>1, UnchargedTimes
       DEF FCFSAcquire, FCFSRelease, FCFSInv, FCFSTypes
<1>5. ASSUME NEW c \in CPUs, NEW ch \in Chans \ {TicksChan}, FCFSWakeup(c, ch)
      PROVE  FCFSInv'
  <2>1. NoZombie
    BY <1>1, <1>5 DEF FCFSWakeup, Wakeup, Woken, NoZombie, IInv, TypeOK
  <2> QED
    BY <1>1, <1>5, <2>1, UnchargedTimes DEF FCFSWakeup, FCFSInv, FCFSTypes
<1>6. ASSUME NEW c \in CPUs, NEW p \in Slots, FCFSPick(c, p)
      PROVE  FCFSInv'
  <2>1. NoZombie
    BY <1>1, <1>6 DEF FCFSPick, Pick, NoZombie, IInv, TypeOK
  <2> QED
    BY <1>1, <1>6, <2>1, UnchargedTimes DEF FCFSPick, FCFSInv, FCFSTypes
<1>7. ASSUME NEW c \in CPUs, NEW p \in Slots, FCFSOther(c, p)
      PROVE  FCFSInv'
    BY <1>1, <1>7, OtherQuiet, UnchargedTimes DEF FCFSOther, FCFSInv, FCFSTypes
<1>8. ASSUME NEW c \in CPUs, NEW p \in Slots, FCFSAllocStack(c, p)
      PROVE  FCFSInv'
  <2>1. np[p] \in Slots /\ state[np[p]] = "EMBRYO" /\ state' = state
    BY <1>1, <1>8, Consts DEF FCFSAllocStack, AllocStack, IInv, TypeOK,
       ForkShape, Building, Refs
  <2>2. FCFSTypes'
    BY <1>8, <2>1 DEF FCFSAllocStack, FreshRtime, FCFSInv, FCFSTypes
  <2>3. TimesSpent' /\ ZombieTimes'
    BY <1>8, <2>1 DEF FCFSAllocStack, FreshRtime, FCFSInv, FCFSTypes,
       TimesSpent, ZombieTimes
  <2> QED
    BY <1>1, <2>2, <2>3 DEF FCFSInv
<1>9. ASSUME NEW c \in CPUs, NEW p \in Slots, FCFSExit(c, p)
      PROVE  FCFSInv'
  <2>1. \A r \in Slots \ {p} : state'[r] = "ZOMBIE" => state[r] = "ZOMBIE"
    BY <1>1, <1>9, ExitReapQuiet DEF FCFSExit
  <2>2. FCFSTypes' /\ TimesSpent' /\ ZombieTimes'
    BY <1>9, <2>1 DEF FCFSExit, FCFSInv, FCFSTypes, TimesSpent, ZombieTimes
  <2> QED
    BY <1>1, <2>2 DEF FCFSInv
<1>10. ASSUME NEW c \in CPUs, NEW p \in Slots, NEW q \in Slots,
              FCFSReap(c, p, q)
       PROVE  FCFSInv'
  <2>1. NoZombie
    BY <1>1, <1>10, ExitReapQuiet DEF FCFSReap
  <2>2. state'[q] # "ZOMBIE"
    BY <1>1, <1>10 DEF FCFSReap, WaitReap, IInv, TypeOK
  <2>3. CASE UNCHANGED times
    BY <1>1, <1>10, <2>1, <2>3, UnchargedTimes DEF FCFSReap, FCFSInv, FCFSTypes
  <2>4. CASE ~UNCHANGED times
    BY <1>1, <1>10, <2>1, <2>2, <2>4
       DEF FCFSReap, FCFSInv, FCFSTypes, TimesSpent, ZombieTimes, NoZombie
  <2> QED
    BY <2>3, <2>4
<1> QED
    BY <1>2, <1>3, <1>4, <1>5, <1>6, <1>7, <1>8, <1>9, <1>10 DEF FCFSNext

\* The invariant of the times holds in every reachable state, on any number
\* of CPUs.
THEOREM FCFSInvariance == FCFSSpec => []FCFSInv
BY FCFSInitInv, FCFSNextInv, PTL DEF FCFSSpec

\* The kernel built with SCHEDULER=FCFS is a refinement of proc.c with the
\* choice of the next process left open: the theorems of ProcProofs hold in
\* it.
THEOREM FCFSImplementsProc == FCFSSpec => Spec
<1>1. FCFSInit => Init
    BY DEF FCFSInit
<1> QED
    BY <1>1, FCFSStep, PTL DEF FCFSSpec, Spec

\* waitx() never returns a negative wait time: the ticks charged to a zombie
\* fall between its ctime and its etime, through every reuse of its slot and
\* on any number of CPUs.
THEOREM WaitTimesAreSane == FCFSSpec => []WaitTimeSane
<1>1. FCFSInv => WaitTimeSane
    BY DEF FCFSInv, FCFSTypes, ZombieTimes, WaitTimeSane, Wtime
<1> QED
    BY <1>1, FCFSInvariance, PTL

-----------------------------------------------------------------------------
\* The only CPU is CPU 0.
LEMMA OneCPU == NCPU = 1 => CPUs = {0}
BY DEF CPUs

\* A step that times no slot and changes no ctime.
LEMMA UntimedOrder ==
    ASSUME CtimeOrder, NoneTimed, UNCHANGED ctime
    PROVE  CtimeOrder'
BY DEF CtimeOrder, NoneTimed

\* With one CPU, a fork() is carried to its end: no step of the kernel takes
\* the CPU from it, and no other thread takes a pid meanwhile.
LEMMA ForkKept ==
    ASSUME NCPU = 1, IInv, IInv', ForkOn, LastPid, FCFSNext
    PROVE  ForkOn' /\ LastPid'
<1> USE OneCPU DEF IInv, TypeOK
<1>1. CASE Tick
    BY <1>1 DEF Tick, Wakeup, ForkOn, LastPid
<1>2. ASSUME NEW c \in CPUs, FCFSAcquire(c) \/ FCFSRelease(c)
      PROVE  ForkOn' /\ LastPid'
    BY <1>2 DEF FCFSAcquire, FCFSRelease, SchedAcquire, SchedRelease, ForkOn,
       LastPid
<1>3. ASSUME NEW c \in CPUs, NEW ch \in Chans \ {TicksChan}, FCFSWakeup(c, ch)
      PROVE  ForkOn' /\ LastPid'
    BY <1>3 DEF FCFSWakeup, Wakeup, ForkOn, LastPid
<1>4. ASSUME NEW c \in CPUs, NEW p \in Slots, FCFSPick(c, p)
      PROVE  ForkOn' /\ LastPid'
    BY <1>4, Consts DEF FCFSPick, Pick, ForkOn, LastPid
<1>5. ASSUME NEW c \in CPUs, NEW p \in Slots, FCFSAllocStack(c, p)
      PROVE  ForkOn' /\ LastPid'
  <2>1. np[p] \in Slots /\ pc[np[p]] \notin Building /\ pc[p] \in Building
    BY <1>5, Consts DEF FCFSAllocStack, AllocStack, ForkShape, SlotShape, Used,
       Building, Refs
  <2> QED
    BY <1>5, <2>1, Consts DEF FCFSAllocStack, AllocStack, ForkOn, LastPid,
       Building
<1>6. ASSUME NEW c \in CPUs, NEW p \in Slots, FCFSExit(c, p)
      PROVE  ForkOn' /\ LastPid'
    BY <1>6 DEF FCFSExit, Exit, ForkOn, LastPid, Building
<1>7. ASSUME NEW c \in CPUs, NEW p \in Slots, NEW q \in Slots,
             FCFSReap(c, p, q)
      PROVE  ForkOn' /\ LastPid'
  <2>1. \A r \in Slots : pc'[r] \in Building => pc[r] = pc'[r] /\ r # q
    BY <1>7 DEF FCFSReap, WaitReap, SlotShape, Building
  <2>2. \A r \in Slots : pc[r] = "embryo" => np[r] \in Slots /\ np[r] # q
    BY <1>7, Consts DEF FCFSReap, WaitReap, ForkShape, Building, Refs
  <2>3. ForkOn'
    BY <1>7, <2>1 DEF FCFSReap, WaitReap, ForkOn
  <2>4. LastPid'
    BY <1>7, <2>1, <2>2 DEF FCFSReap, WaitReap, LastPid, Building
  <2> QED
    BY <2>3, <2>4
<1>8. ASSUME NEW c \in CPUs, NEW p \in Slots, FCFSOther(c, p)
      PROVE  ForkOn' /\ LastPid'
  <2>1. CASE Switching(c, p)
    BY <2>1, Consts DEF Switching, Swtch, Resume, ResumeSleep, ForkOn, LastPid
  <2>2. ASSUME NEW ch \in Chans, Sleep(c, p, ch)
        PROVE  ForkOn' /\ LastPid'
    BY <2>2 DEF Sleep, ForkOn, LastPid, Building
  <2>3. CASE Trap(c, p)
    BY <2>3 DEF Trap, SysEnter, TrapExit, Fault, Kill, ForkOn, LastPid, Building
  <2>4. ASSUME NEW q \in Slots, AllocProc(c, p, q)
        PROVE  ForkOn' /\ LastPid'
    <3>1. exec[0] = p /\ sw[p] = "no"
      BY <2>4 DEF AllocProc, Runs
    <3>2. \A r \in Slots : pc[r] \notin Building
      BY <2>4, <3>1 DEF AllocProc, ForkOn, Building
    <3>3. ForkOn'
      BY <2>4, <3>1, <3>2 DEF AllocProc, ForkOn, Building
    <3>4. LastPid'
      BY <2>4, <3>2, Consts
         DEF AllocProc, GivenPid, FollowingPid, LastPid, Building
    <3> QED
      BY <3>3, <3>4
  <2>5. CASE AllocProcFull(c, p) \/ ForkCopy(c, p)
    BY <2>5 DEF AllocProcFull, ForkCopy, ForkOn, LastPid, Building
  <2>6. CASE AllocStackFail(c, p) \/ ForkCopyFail(c, p) \/ ForkDone(c, p)
    <3>1. np[p] \in Slots /\ pc[np[p]] \notin Building
      BY <2>6, Consts DEF AllocStackFail, ForkCopyFail, ForkDone, ForkShape,
         SlotShape, Used, Building, Refs
    <3> QED
      BY <2>6, <3>1 DEF AllocStackFail, ForkCopyFail, ForkDone, ForkOn, LastPid,
         Building
  <2>7. CASE WaitAcquire(c, p) \/ WaitFail(c, p) \/ WaitSleep(c, p)
    BY <2>7 DEF WaitAcquire, WaitFail, WaitSleep, ForkOn, LastPid, Building
  <2> QED
    BY <1>8, <2>1, <2>2, <2>3, <2>4, <2>5, <2>6, <2>7 DEF FCFSOther
<1> QED
    BY <1>1, <1>2, <1>3, <1>4, <1>5, <1>6, <1>7, <1>8 DEF FCFSNext

\* The slot that gets its ctime last has the largest pid and the latest time.
LEMMA AllocOrder ==
    ASSUME FCFSInv, LastPid, CtimeOrder, NEW c \in CPUs, NEW p \in Slots,
           FCFSAllocStack(c, p)
    PROVE  CtimeOrder'
<1> DEFINE e == np[p]
<1>1. e \in Slots /\ pid[e] = nextpid - 1
    BY Consts DEF FCFSAllocStack, AllocStack, FCFSInv, IInv, TypeOK, ForkShape,
       Building, Refs, LastPid
<1>2. \A q \in Slots : pid[q] \in Int /\ pid[q] <= pid[e]
    BY <1>1 DEF FCFSInv, IInv, TypeOK, PidShape
<1>3. \A q \in Slots : ctime[q] <= ticks
    BY DEF FCFSInv, FCFSTypes, TimesSpent
<1>4. /\ pid' = pid
      /\ ctime'[e] = ticks
      /\ \A q \in Slots \ {e} : ctime'[q] = ctime[q] /\ (Timed(q)' <=> Timed(q))
    BY <1>1 DEF FCFSAllocStack, AllocStack, FCFSInv, FCFSTypes, IInv, TypeOK,
       Timed, Used
<1> SUFFICES ASSUME NEW q \in Slots, NEW r \in Slots,
                    Timed(q)', Timed(r)', pid[q] < pid[r]
             PROVE  ctime'[q] <= ctime'[r]
    BY <1>4 DEF CtimeOrder
<1>5. q # e
    BY <1>2
<1>6. CASE r = e
    BY <1>3, <1>4, <1>5, <1>6
<1>7. CASE r # e
    BY <1>4, <1>5, <1>7 DEF CtimeOrder
<1> QED
    BY <1>6, <1>7

\* One step of the kernel on one CPU.
LEMMA OrderKept ==
    ASSUME NCPU = 1, FCFSInv, FCFSInv', OrderInv, [FCFSNext]_fcfsVars
    PROVE  OrderInv'
<1> USE DEF FCFSInv, OrderInv
<1>1. CASE UNCHANGED fcfsVars
    BY <1>1 DEF fcfsVars, vars, times, ForkOn, LastPid, CtimeOrder, Timed, Used
<1>2. CASE FCFSNext
  <2>1. ForkOn' /\ LastPid'
    BY <1>2, ForkKept
  <2>2. CASE Tick
    BY <2>1, <2>2, SchedQuiet, UntimedOrder, FCFSAssumption, Consts, OneCPU
       DEF Tick
  <2>3. ASSUME NEW c \in CPUs, FCFSAcquire(c) \/ FCFSRelease(c)
        PROVE  CtimeOrder'
    BY <2>3, SchedQuiet, UntimedOrder, FCFSAssumption, Consts
       DEF FCFSAcquire, FCFSRelease, times
  <2>4. ASSUME NEW c \in CPUs, NEW ch \in Chans \ {TicksChan}, FCFSWakeup(c, ch)
        PROVE  CtimeOrder'
    BY <2>4, SchedQuiet, UntimedOrder, Consts DEF FCFSWakeup, times
  <2>5. ASSUME NEW c \in CPUs, NEW p \in Slots, FCFSPick(c, p)
        PROVE  CtimeOrder'
    BY <2>5, SchedQuiet, UntimedOrder, FCFSAssumption DEF FCFSPick, times
  <2>6. ASSUME NEW c \in CPUs, NEW p \in Slots, FCFSAllocStack(c, p)
        PROVE  CtimeOrder'
    BY <2>6, AllocOrder
  <2>7. ASSUME NEW c \in CPUs, NEW p \in Slots, FCFSExit(c, p)
        PROVE  CtimeOrder'
    BY <2>7, ExitReapQuiet, UntimedOrder DEF FCFSExit
  <2>8. ASSUME NEW c \in CPUs, NEW p \in Slots, FCFSOther(c, p)
        PROVE  CtimeOrder'
    BY <2>8, OtherQuiet, UntimedOrder DEF FCFSOther, times
  <2>9. ASSUME NEW c \in CPUs, NEW p \in Slots, NEW q \in Slots,
               FCFSReap(c, p, q)
        PROVE  CtimeOrder'
    <3>1. NoneTimed /\ ~Timed(q)'
      BY <2>9, ExitReapQuiet DEF FCFSReap, WaitReap, IInv, TypeOK, Timed, Used
    <3>2. \A r \in Slots \ {q} : ctime'[r] = ctime[r]
      BY <2>9 DEF FCFSReap, times, FCFSTypes
    <3> QED
      BY <3>1, <3>2 DEF CtimeOrder, NoneTimed
  <2> QED
    BY <1>2, <2>1, <2>2, <2>3, <2>4, <2>5, <2>6, <2>7, <2>8, <2>9 DEF FCFSNext
<1> QED
    BY <1>1, <1>2

\* The scheduler is left only by a pick.
LEMMA OnlyPickLeaves ==
    ASSUME IInv, FCFSNext, NEW c \in CPUs, NEW p \in Slots,
           exec[c] = 0, exec'[c] = p
    PROVE  FCFSPick(c, p)
<1> USE Consts DEF IInv, TypeOK
<1>1. exec' # exec
    OBVIOUS
<1>2. ~Tick
    BY <1>1 DEF Tick, Wakeup
<1>3. ASSUME NEW d \in CPUs, NEW r \in Slots, FCFSOther(d, r)
      PROVE  FALSE
  <2>1. ~Switching(d, r)
    BY DEF Switching, Swtch, Resume, ResumeSleep
  <2> QED
    BY <1>1, <1>3, <2>1 DEF FCFSOther, Sleep, Trap, SysEnter, TrapExit, Fault,
       Kill, AllocProc, AllocProcFull, AllocStackFail, ForkCopy, ForkCopyFail,
       ForkDone, WaitAcquire, WaitFail, WaitSleep
<1>4. ASSUME NEW d \in CPUs
      PROVE  /\ ~FCFSAcquire(d) /\ ~FCFSRelease(d)
             /\ \A ch \in Chans \ {TicksChan} : ~FCFSWakeup(d, ch)
             /\ \A r \in Slots : ~FCFSAllocStack(d, r) /\ ~FCFSExit(d, r)
             /\ \A r, q \in Slots : ~FCFSReap(d, r, q)
    BY <1>1 DEF FCFSAcquire, FCFSRelease, FCFSWakeup, FCFSAllocStack, FCFSExit,
       FCFSReap, SchedAcquire, SchedRelease, Wakeup, AllocStack, Exit, WaitReap
<1>5. PICK d \in CPUs, r \in Slots : FCFSPick(d, r)
    BY <1>2, <1>3, <1>4 DEF FCFSNext
<1>6. d = c /\ r = p
    BY <1>5 DEF FCFSPick, Pick
<1> QED
    BY <1>5, <1>6

\* On a machine with one CPU, the process scheduler() (FCFS.c) switches to is
\* one of the oldest: no RUNNABLE process forked before it has an earlier
\* ctime, although fork() takes the pid and the time in two separate steps.
THEOREM FirstComeFirstServed == NCPU = 1 => (FCFSSpec => FirstCome)
<1> DEFINE First == \A c \in CPUs, p \in Slots :
                        exec[c] = 0 /\ exec'[c] = p =>
                            \A q \in Runnable :
                                pid[q] < pid[p] => ctime[q] = ctime[p]
<1> SUFFICES ASSUME NCPU = 1
             PROVE  FCFSSpec => FirstCome
    OBVIOUS
<1>1. FCFSInit => OrderInv
  <2> SUFFICES ASSUME FCFSInit
               PROVE  OrderInv
    OBVIOUS
  <2> QED
    BY Consts DEF FCFSInit, Init, OrderInv, ForkOn, LastPid, CtimeOrder, Building
<1>2. FCFSInv /\ FCFSInv' /\ OrderInv /\ [FCFSNext]_fcfsVars => OrderInv'
    BY OrderKept
<1>3. FCFSInv /\ OrderInv /\ [FCFSNext]_fcfsVars => [First]_fcfsVars
  <2> SUFFICES ASSUME FCFSInv, OrderInv, FCFSNext, NEW c \in CPUs,
                      NEW p \in Slots, exec[c] = 0, exec'[c] = p,
                      NEW q \in Runnable, pid[q] < pid[p]
               PROVE  ctime[q] = ctime[p]
    OBVIOUS
  <2>1. FCFSPick(c, p)
    BY OnlyPickLeaves DEF FCFSInv
  <2>2. ctime[p] <= ctime[q]
    BY <2>1 DEF FCFSPick, IsOldest, Runnable, FCFSInv, FCFSTypes
  <2>3. Timed(p) /\ Timed(q)
    BY <2>1 DEF FCFSPick, Pick, Timed, Used, Runnable
  <2>4. ctime[q] <= ctime[p]
    BY <2>3 DEF OrderInv, CtimeOrder, Runnable
  <2> QED
    BY <2>2, <2>4 DEF FCFSInv, FCFSTypes, Runnable
<1>4. FCFSSpec => []OrderInv
    BY <1>1, <1>2, FCFSInvariance, PTL DEF FCFSSpec
<1> QED
    BY <1>3, <1>4, FCFSInvariance, PTL DEF FCFSSpec, FirstCome

-----------------------------------------------------------------------------
(***************************************************************************)
(* Round robin.  RR.c picks no slot twice in one scan, and a slot it has   *)
(* not reached yet is reached before the scan ends: so what has been run   *)
(* since p became RUNNABLE was run in this scan, before p's turn, or in    *)
(* the last one, after it.                                                 *)
(***************************************************************************)
BypassTypes ==
    /\ scan \in [CPUs -> Nat]
    /\ passed \in [Slots -> SUBSET Slots]

\* Where the slots lie that were run while p has been RUNNABLE.
PassedWhere ==
    \A p \in Slots : state[p] = "RUNNABLE" =>
        \A q \in passed[p] :
            /\ scan[0] <= p => q < scan[0] \/ p < q
            /\ p < scan[0] => p < q /\ q < scan[0]

\* Between two scans, what is ahead of the old loop variable is new.
BetweenScans ==
    exec[0] = 0 /\ lock # 0 =>
        \A p \in Slots : state[p] = "RUNNABLE" /\ scan[0] <= p => passed[p] = {}

BypassInv == BypassTypes /\ PassedWhere /\ BetweenScans

\* Every step of the round-robin kernel is a step of Proc.
LEMMA RRStep == [RRNext]_rrVars => [Next]_vars
<1> SUFFICES ASSUME [RRNext]_rrVars
             PROVE  [Next]_vars
    OBVIOUS
<1>1. CASE UNCHANGED rrVars
    BY <1>1 DEF rrVars
<1>2. ASSUME NEW c \in CPUs, RRScheduler(c)
      PROVE  Next
    BY <1>2 DEF RRScheduler, RRAcquire, RRPick, RRRelease, Next, Scheduler
<1>3. ASSUME NEW c \in CPUs, NEW ch \in Chans, RRWakeup(c, ch)
      PROVE  Next
    BY <1>3 DEF RRWakeup, Next
<1>4. ASSUME NEW c \in CPUs, NEW p \in Slots, RRThread(c, p)
      PROVE  Next
    BY <1>4 DEF RRThread, Next
<1> QED
    BY <1>1, <1>2, <1>3, <1>4 DEF RRNext

\* The kernel built with the default scheduler is a refinement of proc.c with
\* the choice of the next process left open, on any number of CPUs.
THEOREM RRImplementsProc == RRSpec => Spec
<1>1. RRInit => Init
    BY DEF RRInit
<1> QED
    BY <1>1, RRStep, PTL DEF RRSpec, Spec

\* Threads switch to nobody, and leave their CPU only with the lock held.
LEMMA ThreadPicksNone ==
    ASSUME IInv, NEW c \in CPUs, NEW p \in Slots, Thread(c, p)
    PROVE  /\ Picked = {}
           /\ exec'[c] = 0 => lock' = c
<1> USE Consts DEF IInv, TypeOK, Picked
<1>1. CASE Switching(c, p)
    BY <1>1 DEF Switching, Swtch, Resume, ResumeSleep
<1>2. CASE Yield(c, p) \/ \E ch \in Chans : Sleep(c, p, ch)
    BY <1>2 DEF Yield, Sleep, Runs
<1>3. CASE Trap(c, p)
    BY <1>3 DEF Trap, SysEnter, TrapExit, Fault, Kill, Runs
<1>4. CASE Fork(c, p)
  <2>1. ASSUME NEW q \in Slots, AllocProc(c, p, q)
        PROVE  /\ Picked = {}
               /\ exec'[c] = 0 => lock' = c
    BY <2>1 DEF AllocProc, Runs
  <2>2. CASE AllocProcFull(c, p) \/ AllocStack(c, p) \/ ForkCopy(c, p)
    BY <2>2 DEF AllocProcFull, AllocStack, ForkCopy, Runs
  <2>3. CASE AllocStackFail(c, p) \/ ForkCopyFail(c, p) \/ ForkDone(c, p)
    <3>1. np[p] \in Slots
      BY <2>3 DEF AllocStackFail, ForkCopyFail, ForkDone, ForkShape, Building,
         Refs
    <3> QED
      BY <2>3, <3>1 DEF AllocStackFail, ForkCopyFail, ForkDone, Runs
  <2> QED
    BY <1>4, <2>1, <2>2, <2>3 DEF Fork
<1>5. CASE Exit(c, p)
    BY <1>5 DEF Exit, Woken, Runs
<1>6. CASE Wait(c, p)
    BY <1>6 DEF Wait, WaitAcquire, WaitReap, WaitFail, WaitSleep, Runs,
       RunsLocked
<1> QED
    BY <1>1, <1>2, <1>3, <1>4, <1>5, <1>6 DEF Thread

\* A step that picks nobody, goes on with the scan it found and begins no new
\* interval between scans.
LEMMA NoPickKept ==
    ASSUME BypassInv, UNCHANGED scan, Picked = {},
           passed' = [p \in Slots |->
                        IF state[p] = "RUNNABLE" /\ state'[p] = "RUNNABLE"
                        THEN passed[p] \cup Picked ELSE {}],
           exec'[0] = 0 /\ lock' # 0 => exec[0] = 0 /\ lock # 0
    PROVE  BypassInv'
<1>1. BypassTypes'
    BY DEF BypassInv, BypassTypes
<1>2. \A p \in Slots : \A q \in passed'[p] :
            state[p] = "RUNNABLE" /\ q \in passed[p]
    OBVIOUS
<1>3. \A p \in Slots : passed[p] = {} => passed'[p] = {}
    BY <1>2
<1>4. PassedWhere'
    BY <1>2 DEF BypassInv, PassedWhere
<1>5. BetweenScans'
    BY <1>2, <1>3 DEF BypassInv, BetweenScans
<1> QED
    BY <1>1, <1>4, <1>5 DEF BypassInv

\* The slot scheduler() runs next comes before any other that stays RUNNABLE
\* in the rest of the scan, and was not run before in that slot's wait.
LEMMA PickNotPassed ==
    ASSUME NCPU = 1, IInv, BypassInv, NEW q \in Slots, RRPick(0, q)
    PROVE  /\ Picked = {q}
           /\ \A p \in Slots : state[p] = "RUNNABLE" /\ p # q =>
                /\ q \notin passed[p]
                /\ scan[0] <= p => q < p
<1>1. /\ state[q] = "RUNNABLE" /\ scan[0] <= q
      /\ \A p \in Slots : scan[0] <= p /\ p < q => state[p] # "RUNNABLE"
      /\ state' = [state EXCEPT ![q] = "RUNNING"]
    BY DEF RRPick, Pick
<1>2. Picked = {q}
    BY <1>1 DEF Picked, IInv, TypeOK
<1>3. scan[0] \in Nat /\ Slots \subseteq Nat
    BY OneCPU DEF BypassInv, BypassTypes, Slots
<1> SUFFICES ASSUME NEW p \in Slots, state[p] = "RUNNABLE", p # q
             PROVE  /\ q \notin passed[p]
                    /\ scan[0] <= p => q < p
    BY <1>2
<1>4. scan[0] <= p => q < p
    BY <1>1, <1>3
<1>5. q \notin passed[p]
    BY <1>1, <1>3, <1>4 DEF BypassInv, PassedWhere
<1> QED
    BY <1>4, <1>5

\* One step of the round-robin kernel on one CPU.
LEMMA BypassKept ==
    ASSUME NCPU = 1, IInv, BypassInv, [MCNext]_mcVars
    PROVE  BypassInv'
<1>1. CASE UNCHANGED mcVars
    BY <1>1 DEF mcVars, rrVars, vars, BypassInv, BypassTypes, PassedWhere,
       BetweenScans
<1> SUFFICES ASSUME MCNext
             PROVE  BypassInv'
    BY <1>1
<1> USE OneCPU
<1>2. PICK c \in CPUs : \/ RRScheduler(c)
                        \/ \E ch \in Chans : RRWakeup(c, ch)
                        \/ \E p \in Slots : RRThread(c, p)
    BY DEF MCNext, RRNext
<1>3. c = 0
    OBVIOUS
<1>4. /\ BypassTypes'
      /\ \A p \in Slots :
            \/ passed'[p] = {}
            \/ /\ state[p] = "RUNNABLE" /\ state'[p] = "RUNNABLE"
               /\ passed'[p] = passed[p] \cup Picked
  <2>1. Picked \subseteq Slots
    BY DEF Picked
  <2>2. passed' \in [Slots -> SUBSET Slots]
    BY <2>1 DEF MCNext, BypassInv, BypassTypes
  <2>3. scan' \in [CPUs -> Nat]
    BY <1>2 DEF RRScheduler, RRAcquire, RRPick, RRRelease, NextScan, RRWakeup,
       RRThread, BypassInv, BypassTypes, Slots
  <2> QED
    BY <2>2, <2>3 DEF MCNext, BypassTypes
<1>5. CASE RRAcquire(0)
  <2>1. /\ state' = state /\ exec[0] = 0 /\ lock # 0 /\ lock' = 0
        /\ scan'[0] = 1 /\ Picked = {}
    BY <1>5, Consts DEF RRAcquire, SchedAcquire, Acquire, NoCPU, BypassInv,
       BypassTypes, Picked
  <2>2. \A p \in Slots : state[p] = "RUNNABLE" => \A q \in passed[p] : p < q
    BY <2>1 DEF BypassInv, BypassTypes, PassedWhere, BetweenScans, Slots
  <2>3. PassedWhere'
    BY <1>4, <2>1, <2>2 DEF PassedWhere, Slots
  <2> QED
    BY <1>4, <2>1, <2>3 DEF BypassInv, BetweenScans
<1>6. ASSUME NEW q \in Slots, RRPick(0, q)
      PROVE  BypassInv'
  <2>1. /\ Picked = {q}
        /\ \A p \in Slots : state[p] = "RUNNABLE" /\ p # q =>
                (scan[0] <= p => q < p)
    BY <1>6, PickNotPassed
  <2>2. /\ scan[0] <= q /\ scan'[0] = q + 1 /\ exec'[0] = q
        /\ state'[q] # "RUNNABLE" /\ scan[0] \in Nat
    BY <1>6 DEF RRPick, Pick, NextScan, BypassInv, BypassTypes, IInv, TypeOK
  <2>3. PassedWhere'
    BY <1>4, <2>1, <2>2 DEF BypassInv, BypassTypes, PassedWhere, Slots
  <2> QED
    BY <1>4, <2>2, <2>3, Consts DEF BypassInv, BetweenScans
<1>7. CASE RRRelease(0)
  <2>1. /\ UNCHANGED <<scan, state, exec>> /\ Picked = {}
        /\ \A p \in Slots : scan[0] <= p => state[p] # "RUNNABLE"
    BY <1>7 DEF RRRelease, SchedRelease, AtEnd, Picked
  <2>2. PassedWhere' /\ BetweenScans'
    BY <1>4, <2>1 DEF BypassInv, PassedWhere, BetweenScans
  <2> QED
    BY <1>4, <2>2 DEF BypassInv
<1>8. ASSUME NEW ch \in Chans, RRWakeup(0, ch)
      PROVE  BypassInv'
  <2>1. Picked = {} /\ UNCHANGED <<scan, exec, lock>>
    BY <1>8 DEF RRWakeup, Wakeup, Woken, Picked, IInv, TypeOK
  <2> QED
    BY <2>1, NoPickKept DEF MCNext
<1>9. ASSUME NEW p \in Slots, RRThread(0, p)
      PROVE  BypassInv'
  <2>1. Picked = {} /\ (exec'[0] = 0 => lock' = 0) /\ UNCHANGED scan
    BY <1>9, ThreadPicksNone DEF RRThread
  <2> QED
    BY <2>1, NoPickKept DEF MCNext
<1> QED
    BY <1>2, <1>3, <1>5, <1>6, <1>7, <1>8, <1>9 DEF RRScheduler

\* On a machine with one CPU, scheduler() (RR.c) runs no process twice while
\* another one stays RUNNABLE: in any wait for the CPU every other slot is
\* served at most once.
THEOREM NoDoubleBypass ==
    NCPU = 1 => (MCInit /\ [][MCNext]_mcVars => BoundedBypass)
<1> DEFINE Once == \A p \in Slots :
                        state[p] = "RUNNABLE" /\ state'[p] = "RUNNABLE"
                            => Picked \cap passed[p] = {}
<1> SUFFICES ASSUME NCPU = 1
             PROVE  MCInit /\ [][MCNext]_mcVars => BoundedBypass
    OBVIOUS
<1>1. MCInit => IInv /\ BypassInv
  <2> SUFFICES ASSUME MCInit
               PROVE  IInv /\ BypassInv
    OBVIOUS
  <2>1. IInv
    BY InitIInv DEF MCInit, RRInit
  <2>2. BypassInv
    BY DEF MCInit, RRInit, BypassInv, BypassTypes, PassedWhere, BetweenScans
  <2> QED
    BY <2>1, <2>2
<1>2. IInv /\ BypassInv /\ [MCNext]_mcVars => IInv' /\ BypassInv'
  <2>1. [MCNext]_mcVars => [RRNext]_rrVars
    BY DEF MCNext, mcVars
  <2> QED
    BY <2>1, RRStep, NextIInv, BypassKept
<1>3. IInv /\ BypassInv /\ [MCNext]_mcVars => [Once]_mcVars
  <2> SUFFICES ASSUME IInv, BypassInv, MCNext, NEW p \in Slots,
                      state[p] = "RUNNABLE", state'[p] = "RUNNABLE"
               PROVE  Picked \cap passed[p] = {}
    OBVIOUS
  <2>1. PICK c \in CPUs : \/ RRScheduler(c)
                          \/ \E ch \in Chans : RRWakeup(c, ch)
                          \/ \E r \in Slots : RRThread(c, r)
    BY DEF MCNext, RRNext
  <2>2. c = 0
    BY OneCPU
  <2>3. CASE RRAcquire(0) \/ RRRelease(0) \/ \E ch \in Chans : RRWakeup(0, ch)
    BY <2>3 DEF RRAcquire, RRRelease, RRWakeup, SchedAcquire, SchedRelease,
       Wakeup, Woken, Picked, IInv, TypeOK
  <2>4. ASSUME NEW q \in Slots, RRPick(0, q)
        PROVE  Picked \cap passed[p] = {}
    <3>1. Picked = {q} /\ p # q
      BY <2>4, PickNotPassed DEF RRPick, Pick, IInv, TypeOK
    <3> QED
      BY <2>4, <3>1, PickNotPassed
  <2>5. ASSUME NEW r \in Slots, RRThread(0, r)
        PROVE  Picked \cap passed[p] = {}
    BY <2>2, <2>5, ThreadPicksNone DEF RRThread
  <2> QED
    BY <2>1, <2>2, <2>3, <2>4, <2>5 DEF RRScheduler
<1> QED
    BY <1>1, <1>2, <1>3, PTL DEF BoundedBypass

=============================================================================

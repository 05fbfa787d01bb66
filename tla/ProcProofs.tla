----------------------------- MODULE ProcProofs -----------------------------
(***************************************************************************)
(* Proofs about Proc, for every table size, every number of CPUs, every    *)
(* set of channels and every bound on pids.                                *)
(*                                                                         *)
(* IInv is inductive: InitIInv and NextIInv, the latter from one lemma per *)
(* action.  A lemma first finds the state of the acting thread (<1>0) and, *)
(* inside fork(), of the child (<1>1), then has one step per conjunct of   *)
(* IInv that the action can disturb and one step for those it leaves       *)
(* alone.                                                                  *)
(***************************************************************************)
EXTENDS Proc, TLAPS

\* The null pointer, the free lock and the channels are not slots or CPUs.
LEMMA Consts ==
    /\ 0 \notin Slots
    /\ InitProc \in Slots
    /\ \A c \in CPUs : c # NoCPU
    /\ \A ch \in Chans : ch \notin Slots /\ ch # 0
    /\ MaxPid \in Nat \ {0}
BY ProcAssumption DEF Slots, CPUs, NoCPU, InitProc

\* The table userinit() leaves satisfies the invariant.
LEMMA InitIInv == Init => IInv
<1> SUFFICES ASSUME Init
             PROVE  IInv
    OBVIOUS
<1>1. TypeOK
    BY Consts DEF Init, TypeOK, Refs, States, Places, Switches, NoCPU
<1>2. OnCPU /\ SlotShape /\ InitLives
    BY Consts DEF Init, OnCPU, SlotShape, InitLives, Used
<1>3. ForkShape /\ NoMissedExit /\ ParentAlive
    BY Consts DEF Init, ForkShape, NoMissedExit, ParentAlive, Used, Building
<1>4. PidShape
    BY Consts DEF Init, PidShape, PidUnique
<1> QED
    BY <1>1, <1>2, <1>3, <1>4 DEF IInv


\* The scheduler of an idle CPU takes the lock.
LEMMA SchedAcquireInv ==
    ASSUME IInv, NEW c \in CPUs,
           SchedAcquire(c)
    PROVE  IInv'
<1>2. TypeOK'
    BY Consts DEF SchedAcquire, Acquire, IInv, TypeOK, Refs, States, Places, Switches
<1>3. OnCPU'
    BY Consts DEF SchedAcquire, Acquire, IInv, TypeOK, OnCPU, SlotShape
<1>4. SlotShape' /\ ForkShape' /\ InitLives' /\ NoMissedExit' /\ ParentAlive' /\ PidShape'
    BY DEF SchedAcquire, Acquire, IInv, SlotShape, Used, ForkShape, InitLives,
       NoMissedExit, ParentAlive, PidShape, PidUnique
<1> QED
    BY <1>2, <1>3, <1>4 DEF IInv

\* The scheduler gives the lock up after a scan.
LEMMA SchedReleaseInv ==
    ASSUME IInv, NEW c \in CPUs,
           SchedRelease(c)
    PROVE  IInv'
<1>2. TypeOK'
    BY Consts DEF SchedRelease, IInv, TypeOK, Refs, States, Places, Switches
<1>3. OnCPU'
    BY Consts DEF SchedRelease, IInv, TypeOK, OnCPU, SlotShape
<1>4. SlotShape' /\ ForkShape' /\ InitLives' /\ NoMissedExit' /\ ParentAlive' /\ PidShape'
    BY DEF SchedRelease, IInv, SlotShape, Used, ForkShape, InitLives,
       NoMissedExit, ParentAlive, PidShape, PidUnique
<1> QED
    BY <1>2, <1>3, <1>4 DEF IInv

\* The scheduler switches to a RUNNABLE thread.
LEMMA PickInv ==
    ASSUME IInv, NEW c \in CPUs, NEW p \in Slots,
           Pick(c, p)
    PROVE  IInv'
<1>2. TypeOK'
    BY Consts DEF Pick, IInv, TypeOK, Refs, States, Places, Switches
<1>3. OnCPU'
    BY Consts DEF Pick, IInv, TypeOK, OnCPU, SlotShape
<1>4. SlotShape'
    BY Consts DEF Pick, IInv, TypeOK, OnCPU, SlotShape, InitLives, Used
<1>5. ForkShape'
    BY Consts DEF Pick, IInv, TypeOK, SlotShape, ForkShape, Used, Building,
       Refs
<1>6. InitLives'
    BY Consts DEF Pick, IInv, TypeOK, SlotShape, InitLives, Used
<1>7. NoMissedExit'
    BY Consts DEF Pick, IInv, TypeOK, SlotShape, NoMissedExit, ParentAlive,
       Used
<1>8. ParentAlive'
    BY Consts DEF Pick, IInv, TypeOK, SlotShape, InitLives, ParentAlive, Used
<1>9. PidShape'
    BY DEF Pick, IInv, PidShape, PidUnique
<1> QED
    BY <1>2, <1>3, <1>4, <1>5, <1>6, <1>7, <1>8, <1>9 DEF IInv

\* A thread inside sched() leaves its stack.
LEMMA SwtchInv ==
    ASSUME IInv, NEW c \in CPUs, NEW p \in Slots,
           Swtch(c, p)
    PROVE  IInv'
<1>2. TypeOK'
    BY Consts DEF Swtch, IInv, TypeOK, Refs, States, Places, Switches
<1>3. OnCPU'
    BY Consts DEF Swtch, IInv, TypeOK, OnCPU, SlotShape
<1>4. SlotShape' /\ ForkShape' /\ InitLives' /\ NoMissedExit' /\ ParentAlive' /\ PidShape'
    BY DEF Swtch, IInv, SlotShape, Used, ForkShape, InitLives, NoMissedExit,
       ParentAlive, PidShape, PidUnique
<1> QED
    BY <1>2, <1>3, <1>4 DEF IInv

\* A thread returns from yield(), or starts in forkret().
LEMMA ResumeInv ==
    ASSUME IInv, NEW c \in CPUs, NEW p \in Slots,
           Resume(c, p)
    PROVE  IInv'
<1>2. TypeOK'
    BY Consts DEF Resume, IInv, TypeOK, Refs, States, Places, Switches
<1>3. OnCPU'
    BY Consts DEF Resume, IInv, TypeOK, OnCPU, SlotShape
<1>4. SlotShape'
    BY Consts DEF Resume, IInv, TypeOK, OnCPU, SlotShape, InitLives, Used
<1>5. ForkShape'
    BY Consts DEF Resume, IInv, TypeOK, SlotShape, ForkShape, Used, Building,
       Refs
<1>6. InitLives' /\ NoMissedExit' /\ ParentAlive' /\ PidShape'
    BY DEF Resume, IInv, InitLives, Used, NoMissedExit, ParentAlive,
       PidShape, PidUnique
<1> QED
    BY <1>2, <1>3, <1>4, <1>5, <1>6 DEF IInv

\* A thread returns from sleep().
LEMMA ResumeSleepInv ==
    ASSUME IInv, NEW c \in CPUs, NEW p \in Slots,
           ResumeSleep(c, p)
    PROVE  IInv'
<1>2. TypeOK'
    BY Consts DEF ResumeSleep, IInv, TypeOK, Refs, States, Places, Switches
<1>3. OnCPU'
    BY Consts DEF ResumeSleep, IInv, TypeOK, OnCPU, SlotShape
<1>4. SlotShape'
    BY Consts DEF ResumeSleep, IInv, TypeOK, OnCPU, SlotShape, InitLives,
       Used
<1>5. ForkShape'
    BY Consts DEF ResumeSleep, IInv, TypeOK, SlotShape, ForkShape, Used,
       Building, Refs
<1>6. NoMissedExit'
    BY Consts DEF ResumeSleep, IInv, TypeOK, SlotShape, NoMissedExit,
       ParentAlive, Used
<1>7. InitLives' /\ ParentAlive' /\ PidShape'
    BY DEF ResumeSleep, IInv, InitLives, Used, ParentAlive, PidShape,
       PidUnique
<1> QED
    BY <1>2, <1>3, <1>4, <1>5, <1>6, <1>7 DEF IInv

\* yield() on a timer interrupt.
LEMMA YieldInv ==
    ASSUME IInv, NEW c \in CPUs, NEW p \in Slots,
           Yield(c, p)
    PROVE  IInv'
<1>0. state[p] = "RUNNING" /\ exec[c] = p /\ sw[p] = "no"
    BY DEF Yield, Acquire, Runs, IInv, OnCPU
<1>2. TypeOK'
    BY <1>0, Consts DEF Yield, Acquire, Runs, IInv, TypeOK, Refs, States, Places,
       Switches
<1>3. OnCPU'
    BY <1>0, Consts DEF Yield, Acquire, Runs, IInv, TypeOK, OnCPU, SlotShape
<1>4. SlotShape'
    BY <1>0, Consts DEF Yield, Acquire, Runs, IInv, TypeOK, OnCPU, SlotShape,
       InitLives, Used
<1>5. ForkShape'
    BY <1>0, Consts DEF Yield, Acquire, Runs, IInv, TypeOK, SlotShape, ForkShape,
       Used, Building, Refs
<1>6. InitLives'
    BY <1>0, Consts DEF Yield, Acquire, Runs, IInv, TypeOK, SlotShape, InitLives, Used
<1>7. NoMissedExit'
    BY <1>0, Consts DEF Yield, Acquire, Runs, IInv, TypeOK, SlotShape, NoMissedExit,
       ParentAlive, Used
<1>8. ParentAlive'
    BY <1>0, Consts DEF Yield, Acquire, Runs, IInv, TypeOK, SlotShape, InitLives,
       ParentAlive, Used
<1>9. PidShape'
    BY DEF Yield, Acquire, IInv, PidShape, PidUnique
<1> QED
    BY <1>2, <1>3, <1>4, <1>5, <1>6, <1>7, <1>8, <1>9 DEF IInv

\* sleep() on a channel that is not a slot.
LEMMA SleepInv ==
    ASSUME IInv, NEW c \in CPUs, NEW p \in Slots, NEW ch \in Chans,
           Sleep(c, p, ch)
    PROVE  IInv'
<1>0. state[p] = "RUNNING" /\ exec[c] = p /\ sw[p] = "no"
    BY DEF Sleep, Acquire, Runs, IInv, OnCPU
<1>2. TypeOK'
    BY <1>0, Consts DEF Sleep, Acquire, Runs, IInv, TypeOK, Refs, States, Places,
       Switches
<1>3. OnCPU'
    BY <1>0, Consts DEF Sleep, Acquire, Runs, IInv, TypeOK, OnCPU, SlotShape
<1>4. SlotShape'
    BY <1>0, Consts DEF Sleep, Acquire, Runs, IInv, TypeOK, OnCPU, SlotShape,
       InitLives, Used
<1>5. ForkShape'
    BY <1>0, Consts DEF Sleep, Acquire, Runs, IInv, TypeOK, SlotShape, ForkShape,
       Used, Building, Refs
<1>6. InitLives'
    BY <1>0, Consts DEF Sleep, Acquire, Runs, IInv, TypeOK, SlotShape, InitLives, Used
<1>7. NoMissedExit'
    BY <1>0, Consts DEF Sleep, Acquire, Runs, IInv, TypeOK, SlotShape, NoMissedExit,
       ParentAlive, Used
<1>8. ParentAlive'
    BY <1>0, Consts DEF Sleep, Acquire, Runs, IInv, TypeOK, SlotShape, InitLives,
       ParentAlive, Used
<1>9. PidShape'
    BY DEF Sleep, Acquire, IInv, PidShape, PidUnique
<1> QED
    BY <1>2, <1>3, <1>4, <1>5, <1>6, <1>7, <1>8, <1>9 DEF IInv

\* wakeup() on a channel that is not a slot.
LEMMA WakeupInv ==
    ASSUME IInv, NEW c \in CPUs, NEW ch \in Chans,
           Wakeup(c, ch)
    PROVE  IInv'
<1>2. TypeOK'
    BY Consts DEF Wakeup, Woken, IInv, TypeOK, Refs, States, Places, Switches
<1>3. OnCPU'
    BY Consts DEF Wakeup, Woken, IInv, TypeOK, OnCPU, SlotShape
<1>4. SlotShape'
    BY Consts DEF Wakeup, Woken, IInv, TypeOK, OnCPU, SlotShape, InitLives,
       Used
<1>5. ForkShape'
    BY Consts DEF Wakeup, Woken, IInv, TypeOK, SlotShape, ForkShape, Used,
       Building, Refs
<1>6. InitLives'
    BY Consts DEF Wakeup, Woken, IInv, TypeOK, SlotShape, InitLives, Used
<1>7. NoMissedExit'
    BY Consts DEF Wakeup, Woken, IInv, TypeOK, SlotShape, NoMissedExit,
       ParentAlive, Used
<1>8. ParentAlive'
    BY Consts DEF Wakeup, Woken, IInv, TypeOK, SlotShape, InitLives,
       ParentAlive, Used
<1>9. PidShape'
    BY DEF Wakeup, IInv, PidShape, PidUnique
<1> QED
    BY <1>2, <1>3, <1>4, <1>5, <1>6, <1>7, <1>8, <1>9 DEF IInv

\* kill() marks a slot and wakes it.
LEMMA KillInv ==
    ASSUME IInv, NEW c \in CPUs, NEW p \in Slots, NEW i \in 0..MaxPid, NEW q \in Slots,
           Kill(c, p, i, q)
    PROVE  IInv'
<1>0. state[p] = "RUNNING" /\ exec[c] = p /\ sw[p] = "no"
    BY DEF Kill, Runs, IInv, OnCPU
<1>2. TypeOK'
    BY <1>0, Consts DEF Kill, Runs, IInv, TypeOK, Refs, States, Places,
       Switches
<1>3. OnCPU'
    BY <1>0, Consts DEF Kill, Runs, IInv, TypeOK, OnCPU, SlotShape
<1>4. SlotShape'
    BY <1>0, Consts DEF Kill, Runs, IInv, TypeOK, OnCPU, SlotShape,
       InitLives, Used
<1>5. ForkShape'
    BY <1>0, Consts DEF Kill, Runs, IInv, TypeOK, SlotShape, ForkShape, Used,
       Building, Refs
<1>6. InitLives'
    BY <1>0, Consts DEF Kill, Runs, IInv, TypeOK, SlotShape, InitLives, Used
<1>7. NoMissedExit'
    BY <1>0, Consts DEF Kill, Runs, IInv, TypeOK, SlotShape, NoMissedExit,
       ParentAlive, Used
<1>8. ParentAlive'
    BY <1>0, Consts DEF Kill, Runs, IInv, TypeOK, SlotShape, InitLives,
       ParentAlive, Used
<1>9. PidShape'
    BY DEF Kill, IInv, PidShape, PidUnique
<1> QED
    BY <1>2, <1>3, <1>4, <1>5, <1>6, <1>7, <1>8, <1>9 DEF IInv

\* A system call begins.
LEMMA SysEnterInv ==
    ASSUME IInv, NEW c \in CPUs, NEW p \in Slots, NEW call \in {"fork", "exit", "wait"},
           SysEnter(c, p, call)
    PROVE  IInv'
<1>0. state[p] = "RUNNING" /\ exec[c] = p /\ sw[p] = "no"
    BY DEF SysEnter, Runs, IInv, OnCPU
<1>2. TypeOK'
    BY <1>0, Consts DEF SysEnter, Runs, IInv, TypeOK, Refs, States, Places,
       Switches
<1>3. SlotShape'
    BY <1>0, Consts DEF SysEnter, Runs, IInv, TypeOK, OnCPU, SlotShape,
       InitLives, Used
<1>4. ForkShape'
    BY <1>0, Consts DEF SysEnter, Runs, IInv, TypeOK, SlotShape, ForkShape,
       Used, Building, Refs
<1>5. InitLives'
    BY <1>0, Consts DEF SysEnter, Runs, IInv, TypeOK, SlotShape, InitLives,
       Used
<1>6. OnCPU' /\ NoMissedExit' /\ ParentAlive' /\ PidShape'
    BY DEF SysEnter, IInv, OnCPU, NoMissedExit, ParentAlive, Used, PidShape,
       PidUnique
<1> QED
    BY <1>2, <1>3, <1>4, <1>5, <1>6 DEF IInv

\* A killed thread turns to exit().
LEMMA TrapExitInv ==
    ASSUME IInv, NEW c \in CPUs, NEW p \in Slots,
           TrapExit(c, p)
    PROVE  IInv'
<1>0. state[p] = "RUNNING" /\ exec[c] = p /\ sw[p] = "no"
    BY DEF TrapExit, Runs, IInv, OnCPU
<1>2. TypeOK'
    BY <1>0, Consts DEF TrapExit, Runs, IInv, TypeOK, Refs, States, Places,
       Switches
<1>3. SlotShape'
    BY <1>0, Consts DEF TrapExit, Runs, IInv, TypeOK, OnCPU, SlotShape,
       InitLives, Used
<1>4. ForkShape'
    BY <1>0, Consts DEF TrapExit, Runs, IInv, TypeOK, SlotShape, ForkShape,
       Used, Building, Refs
<1>5. InitLives'
    BY <1>0, Consts DEF TrapExit, Runs, IInv, TypeOK, SlotShape, InitLives,
       Used
<1>6. OnCPU' /\ NoMissedExit' /\ ParentAlive' /\ PidShape'
    BY DEF TrapExit, IInv, OnCPU, NoMissedExit, ParentAlive, Used, PidShape,
       PidUnique
<1> QED
    BY <1>2, <1>3, <1>4, <1>5, <1>6 DEF IInv

\* A fault marks the thread killed.
LEMMA FaultInv ==
    ASSUME IInv, NEW c \in CPUs, NEW p \in Slots,
           Fault(c, p)
    PROVE  IInv'
<1>0. state[p] = "RUNNING" /\ exec[c] = p /\ sw[p] = "no"
    BY DEF Fault, Runs, IInv, OnCPU
<1>2. TypeOK'
    BY <1>0, Consts DEF Fault, Runs, IInv, TypeOK, Refs, States, Places,
       Switches
<1>3. SlotShape'
    BY <1>0, Consts DEF Fault, Runs, IInv, TypeOK, OnCPU, SlotShape,
       InitLives, Used
<1>4. ForkShape'
    BY <1>0, Consts DEF Fault, Runs, IInv, TypeOK, SlotShape, ForkShape,
       Used, Building, Refs
<1>5. InitLives'
    BY <1>0, Consts DEF Fault, Runs, IInv, TypeOK, SlotShape, InitLives, Used
<1>6. OnCPU' /\ NoMissedExit' /\ ParentAlive' /\ PidShape'
    BY DEF Fault, IInv, OnCPU, NoMissedExit, ParentAlive, Used, PidShape,
       PidUnique
<1> QED
    BY <1>2, <1>3, <1>4, <1>5, <1>6 DEF IInv

\* allocproc() takes a slot.
LEMMA AllocProcInv ==
    ASSUME IInv, NEW c \in CPUs, NEW p \in Slots, NEW q \in Slots,
           AllocProc(c, p, q)
    PROVE  IInv'
<1>0. state[p] = "RUNNING" /\ exec[c] = p /\ sw[p] = "no"
    BY DEF AllocProc, GivenPid, FollowingPid, Runs, IInv, OnCPU
<1>2. TypeOK'
    BY <1>0, Consts DEF AllocProc, GivenPid, FollowingPid, Runs, IInv, TypeOK, Refs, States, Places,
       Switches
<1>3. OnCPU'
    BY <1>0, Consts DEF AllocProc, GivenPid, FollowingPid, Runs, IInv, TypeOK, OnCPU, SlotShape,
       ForkShape, Building
<1>4. SlotShape'
    BY <1>0, Consts DEF AllocProc, GivenPid, FollowingPid, Runs, IInv, TypeOK, OnCPU, SlotShape,
       InitLives, Used, ForkShape, Building
<1>5. ForkShape'
    BY <1>0, Consts DEF AllocProc, GivenPid, FollowingPid, Runs, IInv, TypeOK, SlotShape, ForkShape,
       Used, Building, Refs
<1>6. InitLives'
    BY <1>0, Consts DEF AllocProc, GivenPid, FollowingPid, Runs, IInv, TypeOK, SlotShape, InitLives,
       Used, ForkShape, Building
<1>7. NoMissedExit'
    BY <1>0, Consts DEF AllocProc, GivenPid, FollowingPid, Runs, IInv, TypeOK, SlotShape,
       NoMissedExit, ParentAlive, Used, ForkShape, Building
<1>8. ParentAlive'
    BY <1>0, Consts DEF AllocProc, GivenPid, FollowingPid, Runs, IInv, TypeOK, SlotShape, InitLives,
       ParentAlive, Used, ForkShape, Building
<1>9. PidShape'
    BY <1>0, Consts DEF AllocProc, GivenPid, FollowingPid, Runs, IInv, TypeOK, PidShape, PidUnique,
       ForkShape, Building
<1> QED
    BY <1>2, <1>3, <1>4, <1>5, <1>6, <1>7, <1>8, <1>9 DEF IInv

\* allocproc() finds the table full.
LEMMA AllocProcFullInv ==
    ASSUME IInv, NEW c \in CPUs, NEW p \in Slots,
           AllocProcFull(c, p)
    PROVE  IInv'
<1>0. state[p] = "RUNNING" /\ exec[c] = p /\ sw[p] = "no"
    BY DEF AllocProcFull, Runs, IInv, OnCPU
<1>2. TypeOK'
    BY <1>0, Consts DEF AllocProcFull, Runs, IInv, TypeOK, Refs, States,
       Places, Switches
<1>3. SlotShape'
    BY <1>0, Consts DEF AllocProcFull, Runs, IInv, TypeOK, OnCPU, SlotShape,
       InitLives, Used
<1>4. ForkShape'
    BY <1>0, Consts DEF AllocProcFull, Runs, IInv, TypeOK, SlotShape,
       ForkShape, Used, Building, Refs
<1>5. InitLives'
    BY <1>0, Consts DEF AllocProcFull, Runs, IInv, TypeOK, SlotShape,
       InitLives, Used
<1>6. OnCPU' /\ NoMissedExit' /\ ParentAlive' /\ PidShape'
    BY DEF AllocProcFull, IInv, OnCPU, NoMissedExit, ParentAlive, Used,
       PidShape, PidUnique
<1> QED
    BY <1>2, <1>3, <1>4, <1>5, <1>6 DEF IInv

\* The child gets its kernel stack.
LEMMA AllocStackInv ==
    ASSUME IInv, NEW c \in CPUs, NEW p \in Slots,
           AllocStack(c, p)
    PROVE  IInv'
<1>0. state[p] = "RUNNING" /\ exec[c] = p /\ sw[p] = "no"
    BY DEF AllocStack, Runs, IInv, OnCPU
<1>1. np[p] \in Slots /\ state[np[p]] = "EMBRYO" /\ np[p] # p
    BY <1>0, Consts DEF AllocStack, Runs, IInv, TypeOK, ForkShape, Refs,
       Building
<1>2. TypeOK'
    BY <1>0, <1>1, Consts DEF AllocStack, Runs, IInv, TypeOK, Refs, States,
       Places, Switches
<1>3. OnCPU'
    BY <1>0, <1>1, Consts DEF AllocStack, Runs, IInv, TypeOK, OnCPU,
       SlotShape, ForkShape, Building
<1>4. SlotShape'
    BY <1>0, <1>1, Consts DEF AllocStack, Runs, IInv, TypeOK, OnCPU,
       SlotShape, InitLives, Used, ForkShape, Building
<1>5. ForkShape'
    BY <1>0, <1>1, Consts DEF AllocStack, Runs, IInv, TypeOK, SlotShape,
       ForkShape, Used, Building, Refs
<1>6. InitLives'
    BY <1>0, <1>1, Consts DEF AllocStack, Runs, IInv, TypeOK, SlotShape,
       InitLives, Used, ForkShape, Building
<1>7. NoMissedExit' /\ ParentAlive' /\ PidShape'
    BY DEF AllocStack, IInv, NoMissedExit, ParentAlive, Used, PidShape,
       PidUnique
<1> QED
    BY <1>2, <1>3, <1>4, <1>5, <1>6, <1>7 DEF IInv

\* kalloc() fails and the slot is given back.
LEMMA AllocStackFailInv ==
    ASSUME IInv, NEW c \in CPUs, NEW p \in Slots,
           AllocStackFail(c, p)
    PROVE  IInv'
<1>0. state[p] = "RUNNING" /\ exec[c] = p /\ sw[p] = "no"
    BY DEF AllocStackFail, Runs, IInv, OnCPU
<1>1. np[p] \in Slots /\ state[np[p]] = "EMBRYO" /\ np[p] # p
    BY <1>0, Consts DEF AllocStackFail, Runs, IInv, TypeOK, ForkShape, Refs,
       Building
<1>2. TypeOK'
    BY <1>0, <1>1, Consts DEF AllocStackFail, Runs, IInv, TypeOK, Refs,
       States, Places, Switches
<1>3. OnCPU'
    BY <1>0, <1>1, Consts DEF AllocStackFail, Runs, IInv, TypeOK, OnCPU,
       SlotShape, ForkShape, Building
<1>4. SlotShape'
    BY <1>0, <1>1, Consts DEF AllocStackFail, Runs, IInv, TypeOK, OnCPU,
       SlotShape, InitLives, Used, ForkShape, Building
<1>5. ForkShape'
    BY <1>0, <1>1, Consts DEF AllocStackFail, Runs, IInv, TypeOK, SlotShape,
       ForkShape, Used, Building, Refs
<1>6. InitLives'
    BY <1>0, <1>1, Consts DEF AllocStackFail, Runs, IInv, TypeOK, SlotShape,
       InitLives, Used, ForkShape, Building
<1>7. NoMissedExit'
    BY <1>0, <1>1, Consts DEF AllocStackFail, Runs, IInv, TypeOK, SlotShape,
       NoMissedExit, ParentAlive, Used, ForkShape, Building
<1>8. ParentAlive'
    BY <1>0, <1>1, Consts DEF AllocStackFail, Runs, IInv, TypeOK, SlotShape,
       InitLives, ParentAlive, Used, ForkShape, Building
<1>9. PidShape'
    BY DEF AllocStackFail, IInv, PidShape, PidUnique
<1> QED
    BY <1>2, <1>3, <1>4, <1>5, <1>6, <1>7, <1>8, <1>9 DEF IInv

\* copyuvm() succeeds and the child gets its parent.
LEMMA ForkCopyInv ==
    ASSUME IInv, NEW c \in CPUs, NEW p \in Slots,
           ForkCopy(c, p)
    PROVE  IInv'
<1>0. state[p] = "RUNNING" /\ exec[c] = p /\ sw[p] = "no"
    BY DEF ForkCopy, Runs, IInv, OnCPU
<1>1. np[p] \in Slots /\ state[np[p]] = "EMBRYO" /\ np[p] # p
    BY <1>0, Consts DEF ForkCopy, Runs, IInv, TypeOK, ForkShape, Refs,
       Building
<1>2. TypeOK'
    BY <1>0, <1>1, Consts DEF ForkCopy, Runs, IInv, TypeOK, Refs, States,
       Places, Switches
<1>3. SlotShape'
    BY <1>0, <1>1, Consts DEF ForkCopy, Runs, IInv, TypeOK, OnCPU, SlotShape,
       InitLives, Used, ForkShape, Building
<1>4. ForkShape'
    BY <1>0, <1>1, Consts DEF ForkCopy, Runs, IInv, TypeOK, SlotShape,
       ForkShape, Used, Building, Refs
<1>5. InitLives'
    BY <1>0, <1>1, Consts DEF ForkCopy, Runs, IInv, TypeOK, SlotShape,
       InitLives, Used, ForkShape, Building
<1>6. NoMissedExit'
    BY <1>0, <1>1, Consts DEF ForkCopy, Runs, IInv, TypeOK, SlotShape,
       NoMissedExit, ParentAlive, Used, ForkShape, Building
<1>7. ParentAlive'
    BY <1>0, <1>1, Consts DEF ForkCopy, Runs, IInv, TypeOK, SlotShape,
       InitLives, ParentAlive, Used, ForkShape, Building
<1>8. OnCPU' /\ PidShape'
    BY DEF ForkCopy, IInv, OnCPU, PidShape, PidUnique
<1> QED
    BY <1>2, <1>3, <1>4, <1>5, <1>6, <1>7, <1>8 DEF IInv

\* copyuvm() fails and the slot is given back.
LEMMA ForkCopyFailInv ==
    ASSUME IInv, NEW c \in CPUs, NEW p \in Slots,
           ForkCopyFail(c, p)
    PROVE  IInv'
<1>0. state[p] = "RUNNING" /\ exec[c] = p /\ sw[p] = "no"
    BY DEF ForkCopyFail, Runs, IInv, OnCPU
<1>1. np[p] \in Slots /\ state[np[p]] = "EMBRYO" /\ np[p] # p
    BY <1>0, Consts DEF ForkCopyFail, Runs, IInv, TypeOK, ForkShape, Refs,
       Building
<1>2. TypeOK'
    BY <1>0, <1>1, Consts DEF ForkCopyFail, Runs, IInv, TypeOK, Refs, States,
       Places, Switches
<1>3. OnCPU'
    BY <1>0, <1>1, Consts DEF ForkCopyFail, Runs, IInv, TypeOK, OnCPU,
       SlotShape, ForkShape, Building
<1>4. SlotShape'
    BY <1>0, <1>1, Consts DEF ForkCopyFail, Runs, IInv, TypeOK, OnCPU,
       SlotShape, InitLives, Used, ForkShape, Building
<1>5. ForkShape'
    BY <1>0, <1>1, Consts DEF ForkCopyFail, Runs, IInv, TypeOK, SlotShape,
       ForkShape, Used, Building, Refs
<1>6. InitLives'
    BY <1>0, <1>1, Consts DEF ForkCopyFail, Runs, IInv, TypeOK, SlotShape,
       InitLives, Used, ForkShape, Building
<1>7. NoMissedExit'
    BY <1>0, <1>1, Consts DEF ForkCopyFail, Runs, IInv, TypeOK, SlotShape,
       NoMissedExit, ParentAlive, Used, ForkShape, Building
<1>8. ParentAlive'
    BY <1>0, <1>1, Consts DEF ForkCopyFail, Runs, IInv, TypeOK, SlotShape,
       InitLives, ParentAlive, Used, ForkShape, Building
<1>9. PidShape'
    BY DEF ForkCopyFail, IInv, PidShape, PidUnique
<1> QED
    BY <1>2, <1>3, <1>4, <1>5, <1>6, <1>7, <1>8, <1>9 DEF IInv

\* The child becomes RUNNABLE.
LEMMA ForkDoneInv ==
    ASSUME IInv, NEW c \in CPUs, NEW p \in Slots,
           ForkDone(c, p)
    PROVE  IInv'
<1>0. state[p] = "RUNNING" /\ exec[c] = p /\ sw[p] = "no"
    BY DEF ForkDone, Runs, IInv, OnCPU
<1>1. np[p] \in Slots /\ state[np[p]] = "EMBRYO" /\ np[p] # p
    BY <1>0, Consts DEF ForkDone, Runs, IInv, TypeOK, ForkShape, Refs,
       Building
<1>2. TypeOK'
    BY <1>0, <1>1, Consts DEF ForkDone, Runs, IInv, TypeOK, Refs, States,
       Places, Switches
<1>3. OnCPU'
    BY <1>0, <1>1, Consts DEF ForkDone, Runs, IInv, TypeOK, OnCPU, SlotShape,
       ForkShape, Building
<1>4. SlotShape'
    BY <1>0, <1>1, Consts DEF ForkDone, Runs, IInv, TypeOK, OnCPU, SlotShape,
       InitLives, Used, ForkShape, Building
<1>5. ForkShape'
    BY <1>0, <1>1, Consts DEF ForkDone, Runs, IInv, TypeOK, SlotShape,
       ForkShape, Used, Building, Refs
<1>6. InitLives'
    BY <1>0, <1>1, Consts DEF ForkDone, Runs, IInv, TypeOK, SlotShape,
       InitLives, Used, ForkShape, Building
<1>7. NoMissedExit'
    BY <1>0, <1>1, Consts DEF ForkDone, Runs, IInv, TypeOK, SlotShape,
       NoMissedExit, ParentAlive, Used, ForkShape, Building
<1>8. ParentAlive'
    BY <1>0, <1>1, Consts DEF ForkDone, Runs, IInv, TypeOK, SlotShape,
       InitLives, ParentAlive, Used, ForkShape, Building
<1>9. PidShape'
    BY DEF ForkDone, IInv, PidShape, PidUnique
<1> QED
    BY <1>2, <1>3, <1>4, <1>5, <1>6, <1>7, <1>8, <1>9 DEF IInv

\* exit(): the one action that makes zombies and moves children.
LEMMA ExitInv ==
    ASSUME IInv, NEW c \in CPUs, NEW p \in Slots,
           Exit(c, p)
    PROVE  IInv'
<1>0. state[p] = "RUNNING" /\ exec[c] = p /\ sw[p] = "no"
    BY DEF Exit, Acquire, ExitWakes, Reparented, Runs, IInv, OnCPU
<1>2. TypeOK'
    BY <1>0, Consts DEF Exit, Acquire, ExitWakes, Reparented, Runs, Woken, Children, IInv, TypeOK, Refs,
       States, Places, Switches
<1>3. OnCPU'
    BY <1>0, Consts DEF Exit, Acquire, ExitWakes, Reparented, Runs, Woken, Children, IInv, TypeOK, OnCPU,
       SlotShape
<1>4. SlotShape'
    BY <1>0, Consts DEF Exit, Acquire, ExitWakes, Reparented, Runs, Woken, Children, IInv, TypeOK, OnCPU,
       SlotShape, InitLives, Used
<1>5. ForkShape'
    BY <1>0, Consts DEF Exit, Acquire, ExitWakes, Reparented, Runs, Woken, Children, IInv, TypeOK, SlotShape,
       ForkShape, Used, Building, Refs
<1>6. InitLives'
    BY <1>0, Consts DEF Exit, Acquire, ExitWakes, Reparented, Runs, Woken, Children, IInv, TypeOK, SlotShape,
       InitLives, Used
<1>7. NoMissedExit'
  <2> SUFFICES ASSUME NEW r \in Slots, NEW s \in Slots,
                      state'[r] = "SLEEPING", chan'[r] = r, parent'[s] = r
               PROVE  state'[s] # "ZOMBIE"
    BY DEF NoMissedExit
  <2>1. r # p /\ state[r] = "SLEEPING" /\ chan[r] = r
    BY <1>0, Consts DEF Exit, Acquire, ExitWakes, Reparented, Woken, IInv, TypeOK
  <2>2. r # parent[p]
    BY <2>1, Consts DEF Exit, Acquire, ExitWakes, Reparented, Woken, IInv, TypeOK
  <2>3. CASE s = p
    <3>1. parent'[p] = IF parent[p] = p THEN InitProc ELSE parent[p]
      BY DEF Exit, Acquire, ExitWakes, Reparented
    <3>2. parent[p] # p
      BY DEF IInv, SlotShape
    <3> QED
      BY <2>3, <3>1, <3>2, <2>2
  <2>4. CASE s # p /\ parent[s] = p
    <3>1. r = InitProc
      BY <2>4 DEF Exit, Acquire, ExitWakes, Reparented
    <3>2. SUFFICES ASSUME state[s] = "ZOMBIE"
                   PROVE  FALSE
      BY <2>4 DEF Exit, Acquire, ExitWakes, Reparented, Woken, IInv, TypeOK
    <3> QED
      BY <2>1, <2>4, <3>1, <3>2 DEF Exit, Acquire, ExitWakes, Reparented, Woken, Children, IInv, TypeOK
  <2>5. CASE s # p /\ parent[s] # p
    <3>1. parent[s] = r
      BY <2>5 DEF Exit, Acquire, ExitWakes, Reparented
    <3>2. state[s] # "ZOMBIE"
      BY <2>1, <3>1 DEF IInv, NoMissedExit
    <3> QED
      BY <2>5, <3>2 DEF Exit, Acquire, ExitWakes, Reparented, Woken, IInv, TypeOK
  <2> QED
    BY <2>3, <2>4, <2>5
<1>8. ParentAlive'
    BY <1>0, Consts DEF Exit, Acquire, ExitWakes, Reparented, Runs, Woken, Children, IInv, TypeOK, SlotShape,
       InitLives, ParentAlive, Used
<1>9. PidShape'
    BY DEF Exit, Acquire, ExitWakes, Reparented, IInv, PidShape, PidUnique
<1> QED
    BY <1>2, <1>3, <1>4, <1>5, <1>6, <1>7, <1>8, <1>9 DEF IInv

\* wait() takes the lock.
LEMMA WaitAcquireInv ==
    ASSUME IInv, NEW c \in CPUs, NEW p \in Slots,
           WaitAcquire(c, p)
    PROVE  IInv'
<1>0. state[p] = "RUNNING" /\ exec[c] = p /\ sw[p] = "no"
    BY DEF WaitAcquire, Acquire, Runs, IInv, OnCPU
<1>2. TypeOK'
    BY <1>0, Consts DEF WaitAcquire, Acquire, Runs, IInv, TypeOK, Refs, States,
       Places, Switches
<1>3. OnCPU'
    BY <1>0, Consts DEF WaitAcquire, Acquire, Runs, IInv, TypeOK, OnCPU, SlotShape
<1>4. SlotShape' /\ ForkShape' /\ InitLives' /\ NoMissedExit' /\ ParentAlive' /\ PidShape'
    BY DEF WaitAcquire, Acquire, IInv, SlotShape, Used, ForkShape, InitLives,
       NoMissedExit, ParentAlive, PidShape, PidUnique
<1> QED
    BY <1>2, <1>3, <1>4 DEF IInv

\* wait() frees the slot of a zombie child.
LEMMA WaitReapInv ==
    ASSUME IInv, NEW c \in CPUs, NEW p \in Slots, NEW q \in Slots,
           WaitReap(c, p, q)
    PROVE  IInv'
<1>0. state[p] = "RUNNING" /\ exec[c] = p /\ sw[p] = "no"
    BY DEF WaitReap, RunsLocked, IInv, OnCPU
<1>2. TypeOK'
    BY <1>0, Consts DEF WaitReap, RunsLocked, Children, IInv, TypeOK, Refs,
       States, Places, Switches
<1>3. OnCPU'
    BY <1>0, Consts DEF WaitReap, RunsLocked, Children, IInv, TypeOK, OnCPU,
       SlotShape
<1>4. SlotShape'
    BY <1>0, Consts DEF WaitReap, RunsLocked, Children, IInv, TypeOK, OnCPU,
       SlotShape, InitLives, Used
<1>5. ForkShape'
  <2>1. pc[p] \notin Building /\ pc[q] \notin Building /\ p # q
    BY <1>0 DEF WaitReap, IInv, SlotShape, Building
  <2>2. \A r \in Slots : np[r] # q
    BY Consts DEF WaitReap, IInv, ForkShape
  <2>3. \A r \in Slots : pc'[r] \in Building <=> pc[r] \in Building
    BY <2>1 DEF WaitReap, IInv, TypeOK, Building
  <2>4. \A r \in Slots : pc[r] \in Building => r # p /\ r # q /\ pc'[r] = pc[r]
    BY <2>1 DEF WaitReap, IInv, TypeOK
  <2>5. \A r \in Slots : pc[r] \in Building =>
            /\ np[r] \in Slots
            /\ state'[np[r]] = state[np[r]]
            /\ sw'[np[r]] = sw[np[r]]
            /\ kstack'[np[r]] = kstack[np[r]]
            /\ parent'[np[r]] = parent[np[r]]
    BY <2>2, Consts DEF WaitReap, IInv, TypeOK, ForkShape, Refs
  <2>6. np' = np
    BY DEF WaitReap
  <2>7. \A r \in Slots : np'[r] # 0 <=> pc'[r] \in Building
    BY <2>3, <2>6 DEF IInv, ForkShape
  <2>8. ASSUME NEW r \in Slots, pc'[r] \in Building
        PROVE  /\ state'[np'[r]] = "EMBRYO"
               /\ pc'[r] = "embryo" => sw'[np'[r]] = "no" /\ parent'[np'[r]] = 0
               /\ pc'[r] \in {"copy", "ready"} =>
                    kstack'[np'[r]] /\ sw'[np'[r]] = "forkret"
               /\ pc'[r] = "copy" => parent'[np'[r]] = 0
               /\ pc'[r] = "ready" => parent'[np'[r]] = r
    <3>1. /\ pc[r] \in Building
          /\ pc'[r] = pc[r]
          /\ np'[r] = np[r]
      BY <2>3, <2>4, <2>6, <2>8
    <3>2. /\ state'[np[r]] = state[np[r]]
          /\ sw'[np[r]] = sw[np[r]]
          /\ kstack'[np[r]] = kstack[np[r]]
          /\ parent'[np[r]] = parent[np[r]]
      BY <2>5, <3>1
    <3> QED
      BY <3>1, <3>2 DEF IInv, ForkShape
  <2>9. \A r, s \in Slots : np'[r] # 0 /\ np'[r] = np'[s] => r = s
    BY <2>6 DEF IInv, ForkShape
  <2> QED
    BY <2>7, <2>8, <2>9 DEF ForkShape
<1>6. InitLives'
    BY <1>0, Consts DEF WaitReap, RunsLocked, Children, IInv, TypeOK,
       SlotShape, InitLives, Used
<1>7. NoMissedExit'
    BY <1>0, Consts DEF WaitReap, RunsLocked, Children, IInv, TypeOK,
       SlotShape, NoMissedExit, ParentAlive, Used
<1>8. ParentAlive'
    BY <1>0, Consts DEF WaitReap, RunsLocked, Children, IInv, TypeOK,
       SlotShape, InitLives, ParentAlive, Used
<1>9. PidShape'
    BY <1>0, Consts DEF WaitReap, RunsLocked, Children, IInv, TypeOK,
       PidShape, PidUnique
<1> QED
    BY <1>2, <1>3, <1>4, <1>5, <1>6, <1>7, <1>8, <1>9 DEF IInv

\* wait() returns -1.
LEMMA WaitFailInv ==
    ASSUME IInv, NEW c \in CPUs, NEW p \in Slots,
           WaitFail(c, p)
    PROVE  IInv'
<1>0. state[p] = "RUNNING" /\ exec[c] = p /\ sw[p] = "no"
    BY DEF WaitFail, RunsLocked, IInv, OnCPU
<1>2. TypeOK'
    BY <1>0, Consts DEF WaitFail, RunsLocked, Children, IInv, TypeOK, Refs,
       States, Places, Switches
<1>3. OnCPU'
    BY <1>0, Consts DEF WaitFail, RunsLocked, Children, IInv, TypeOK, OnCPU,
       SlotShape
<1>4. SlotShape'
    BY <1>0, Consts DEF WaitFail, RunsLocked, Children, IInv, TypeOK, OnCPU,
       SlotShape, InitLives, Used
<1>5. ForkShape'
    BY <1>0, Consts DEF WaitFail, RunsLocked, Children, IInv, TypeOK,
       SlotShape, ForkShape, Used, Building, Refs
<1>6. InitLives'
    BY <1>0, Consts DEF WaitFail, RunsLocked, Children, IInv, TypeOK,
       SlotShape, InitLives, Used
<1>7. NoMissedExit' /\ ParentAlive' /\ PidShape'
    BY DEF WaitFail, IInv, NoMissedExit, ParentAlive, Used, PidShape,
       PidUnique
<1> QED
    BY <1>2, <1>3, <1>4, <1>5, <1>6, <1>7 DEF IInv

\* wait() goes to sleep, its scan having found no zombie.
LEMMA WaitSleepInv ==
    ASSUME IInv, NEW c \in CPUs, NEW p \in Slots,
           WaitSleep(c, p)
    PROVE  IInv'
<1>0. state[p] = "RUNNING" /\ exec[c] = p /\ sw[p] = "no"
    BY DEF WaitSleep, RunsLocked, IInv, OnCPU
<1>2. TypeOK'
    BY <1>0, Consts DEF WaitSleep, RunsLocked, Children, IInv, TypeOK, Refs,
       States, Places, Switches
<1>3. OnCPU'
    BY <1>0, Consts DEF WaitSleep, RunsLocked, Children, IInv, TypeOK, OnCPU,
       SlotShape
<1>4. SlotShape'
    BY <1>0, Consts DEF WaitSleep, RunsLocked, Children, IInv, TypeOK, OnCPU,
       SlotShape, InitLives, Used
<1>5. ForkShape'
    BY <1>0, Consts DEF WaitSleep, RunsLocked, Children, IInv, TypeOK,
       SlotShape, ForkShape, Used, Building, Refs
<1>6. InitLives'
    BY <1>0, Consts DEF WaitSleep, RunsLocked, Children, IInv, TypeOK,
       SlotShape, InitLives, Used
<1>7. NoMissedExit'
    BY <1>0, Consts DEF WaitSleep, RunsLocked, Children, IInv, TypeOK,
       SlotShape, NoMissedExit, ParentAlive, Used
<1>8. ParentAlive'
    BY <1>0, Consts DEF WaitSleep, RunsLocked, Children, IInv, TypeOK,
       SlotShape, InitLives, ParentAlive, Used
<1>9. PidShape'
    BY DEF WaitSleep, IInv, PidShape, PidUnique
<1> QED
    BY <1>2, <1>3, <1>4, <1>5, <1>6, <1>7, <1>8, <1>9 DEF IInv

\* Every step of Next keeps the invariant.
LEMMA NextIInv == IInv /\ [Next]_vars => IInv'
<1> SUFFICES ASSUME IInv, [Next]_vars
             PROVE  IInv'
    OBVIOUS
<1>1. CASE UNCHANGED vars
    BY <1>1 DEF vars, IInv, TypeOK, OnCPU, SlotShape, ForkShape, InitLives,
       NoMissedExit, ParentAlive, PidShape, PidUnique, Used
<1>2. ASSUME NEW c \in CPUs, Scheduler(c)
      PROVE  IInv'
    BY <1>2, SchedAcquireInv, SchedReleaseInv, PickInv DEF Scheduler
<1>3. ASSUME NEW c \in CPUs, NEW ch \in Chans, Wakeup(c, ch)
      PROVE  IInv'
    BY <1>3, WakeupInv
<1>4. ASSUME NEW c \in CPUs, NEW p \in Slots, Thread(c, p)
      PROVE  IInv'
  <2>1. CASE Switching(c, p)
    BY <2>1, SwtchInv, ResumeInv, ResumeSleepInv DEF Switching
  <2>2. CASE Yield(c, p) \/ \E ch \in Chans : Sleep(c, p, ch)
    BY <2>2, YieldInv, SleepInv
  <2>3. CASE Trap(c, p)
    BY <2>3, SysEnterInv, TrapExitInv, FaultInv, KillInv DEF Trap
  <2>4. CASE Fork(c, p)
    BY <2>4, AllocProcInv, AllocProcFullInv, AllocStackInv, AllocStackFailInv,
       ForkCopyInv, ForkCopyFailInv, ForkDoneInv DEF Fork
  <2>5. CASE Exit(c, p)
    BY <2>5, ExitInv
  <2>6. CASE Wait(c, p)
    BY <2>6, WaitAcquireInv, WaitReapInv, WaitFailInv, WaitSleepInv DEF Wait
  <2> QED
    BY <1>4, <2>1, <2>2, <2>3, <2>4, <2>5, <2>6 DEF Thread
<1> QED
    BY <1>1, <1>2, <1>3, <1>4 DEF Next

\* The invariant holds in every reachable state.
THEOREM Invariance == Spec => []IInv
BY InitIInv, NextIInv, PTL DEF Spec

\* Every variable keeps its type.
THEOREM TypeCorrect == Spec => []TypeOK
<1>1. IInv => TypeOK
    BY DEF IInv
<1> QED
    BY <1>1, Invariance, PTL

\* The lock handed across swtch() keeps two CPUs off one stack, and keeps a
\* scheduler from picking a thread whose context is not saved yet.
THEOREM SwitchIsSafe == Spec => []SwitchSafe
<1>1. IInv => SwitchSafe
    BY Consts DEF IInv, OnCPU, SwitchSafe
<1> QED
    BY <1>1, Invariance, PTL

\* No CPU executes on a freed kernel stack.
THEOREM StacksAreSafe == Spec => []StackSafe
<1>1. IInv => StackSafe
    BY Consts DEF IInv, TypeOK, Refs, OnCPU, SlotShape, StackSafe, Used
<1> QED
    BY <1>1, Invariance, PTL

\* The panics of sched() and the one after it in exit() never fire.
THEOREM SchedNeverPanics == Spec => []SchedAsserts
<1>1. IInv => SchedAsserts
    BY Consts DEF IInv, TypeOK, Refs, OnCPU, SlotShape, SchedAsserts
<1> QED
    BY <1>1, Invariance, PTL

\* A process asleep in wait() has no zombie child.
THEOREM NoExitIsMissed == Spec => []NoMissedExit
<1>1. IInv => NoMissedExit
    BY DEF IInv
<1> QED
    BY <1>1, Invariance, PTL

\* Every process but init has a living parent to reap it.
THEOREM ParentsAreAlive == Spec => []ParentAlive
<1>1. IInv => ParentAlive
    BY DEF IInv
<1> QED
    BY <1>1, Invariance, PTL

\* A pid names one slot at most.
THEOREM PidsAreUnique == Spec => []PidUnique
<1>1. IInv => PidUnique
    BY DEF IInv, PidShape
<1> QED
    BY <1>1, Invariance, PTL

=============================================================================

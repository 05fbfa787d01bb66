------------------------------- MODULE Spinlock ------------------------------
(***************************************************************************)
(* Spin locks and the interrupt flag (spinlock.c), with the code that      *)
(* carries a lock from one stack to another: sched(), scheduler(), yield(), *)
(* sleep(), forkret(), and the interrupts of trap().                       *)
(*                                                                         *)
(* A stack, of a thread or of the scheduler of a CPU (named by the CPU),   *)
(* is the list of the steps it has still to take: a call puts its steps in *)
(* front of those of its caller, and an interrupt those of its handler.  A *)
(* local variable is the value in the step that uses it.  A step is what   *)
(* other CPUs or an interrupt can tell apart; the pushcli() and popcli()   *)
(* that holding() and myproc() put around one read leave nothing behind.   *)
(* What a critical section does, and which thread the scheduler takes, is  *)
(* left open.                                                              *)
(***************************************************************************)
EXTENDS Integers, Sequences, FiniteSets

CONSTANTS
    LkCPUs, Threads,
    PtableLock,         \* ptable.lock
    DeviceLocks,        \* locks taken in system calls and in handlers
    NoLkCPU

ASSUME SpinlockAssumption ==
    /\ LkCPUs \cap Threads = {}
    /\ NoLkCPU \notin LkCPUs
    /\ PtableLock \notin DeviceLocks

Locks == {PtableLock} \cup DeviceLocks
Stacks == LkCPUs \cup Threads

VARIABLES
    todo,               \* the steps before a stack
    onStack,            \* the stack a CPU is on
    intr,               \* FL_IF of a CPU
    ncli, intena,       \* fields of struct cpu
    locked, lkCpu,      \* fields of struct spinlock
    tstate,             \* p->state
    lkPanic             \* a panic() of spinlock.c or sched()

lockVars == <<todo, onStack, intr, ncli, intena, locked, lkCpu, tstate, lkPanic>>

-----------------------------------------------------------------------------
(* The steps of the functions.                                             *)

Op(name, x) == [op |-> name, arg |-> x, val |-> FALSE]

\* pushcli() is the first two steps of acquire().
AcquireOps(l) == <<Op("readeflags", l), Op("cli", l), Op("xchg", l), Op("own", l)>>
ReleaseOps(l) == <<Op("disown", l), Op("unlock", l)>>
SchedOps == <<Op("sched", PtableLock)>>

YieldOps ==
    AcquireOps(PtableLock) \o <<Op("state", "RUNNABLE")>> \o SchedOps
    \o ReleaseOps(PtableLock)

SleepOps(lk) ==
    AcquireOps(PtableLock) \o ReleaseOps(lk)
    \o <<Op("state", "SLEEPING")>> \o SchedOps
    \o ReleaseOps(PtableLock) \o AcquireOps(lk)

WakeupOps ==
    AcquireOps(PtableLock) \o <<Op("wakeup1", PtableLock)>>
    \o ReleaseOps(PtableLock)

\* A new thread returns to user space through forkret() and trapret.
ForkretOps == ReleaseOps(PtableLock) \o <<Op("iret", "forkret")>>

\* System calls: a critical section, and one that sleeps in it.
SyscallBodies ==
    {AcquireOps(l) \o ReleaseOps(l) : l \in DeviceLocks}
    \cup {AcquireOps(l) \o SleepOps(l) \o ReleaseOps(l) : l \in DeviceLocks}

\* Handlers: nothing (another CPU's timer), or a device's wakeup() under its
\* lock; a timer interrupt in a process then yields.
HandlerBodies ==
    {<<>>} \cup {AcquireOps(l) \o WakeupOps \o ReleaseOps(l) : l \in DeviceLocks}
HandlerEnds(c) ==
    {<<>>} \cup {YieldOps : t \in {onStack[c]} \cap Threads}

-----------------------------------------------------------------------------
Does(c, name) == todo[onStack[c]] # <<>> /\ Head(todo[onStack[c]]).op = name
Step(c) == Head(todo[onStack[c]])
Steps(c, ops) == todo' = [todo EXCEPT ![onStack[c]] = ops]
Goes(c) == Steps(c, Tail(todo[onStack[c]]))

Holding(c, l) == locked[l] /\ lkCpu[l] = c

LockInit ==
    /\ todo = [x \in Stacks |-> IF x \in Threads THEN ForkretOps ELSE <<>>]
    /\ onStack = [c \in LkCPUs |-> c]
    /\ intr = [c \in LkCPUs |-> FALSE]
    /\ ncli = [c \in LkCPUs |-> 0]
    /\ intena = [c \in LkCPUs |-> FALSE]
    /\ locked = [l \in Locks |-> FALSE]
    /\ lkCpu = [l \in Locks |-> NoLkCPU]
    /\ tstate = [t \in Threads |-> "RUNNABLE"]
    /\ lkPanic = FALSE

\* eflags = readeflags(): an interrupt, and the move to another CPU, may
\* still come before cli().
Readeflags(c) ==
    /\ Does(c, "readeflags")
    /\ Steps(c, [Tail(todo[onStack[c]]) EXCEPT ![1].val = intr[c]])
    /\ UNCHANGED <<onStack, intr, ncli, intena, locked, lkCpu, tstate, lkPanic>>

\* The rest of pushcli(), and the test of acquire().
Pushcli(c) ==
    /\ Does(c, "cli")
    /\ intr' = [intr EXCEPT ![c] = FALSE]
    /\ intena' = [intena EXCEPT ![c] = IF ncli[c] = 0 THEN Step(c).val ELSE @]
    /\ ncli' = [ncli EXCEPT ![c] = @ + 1]
    /\ lkPanic' = Holding(c, Step(c).arg)
    /\ Goes(c)
    /\ UNCHANGED <<onStack, locked, lkCpu, tstate>>

\* The turn of the loop in acquire() that ends it.
Xchg(c) ==
    /\ Does(c, "xchg") /\ ~locked[Step(c).arg]
    /\ locked' = [locked EXCEPT ![Step(c).arg] = TRUE]
    /\ Goes(c)
    /\ UNCHANGED <<onStack, intr, ncli, intena, lkCpu, tstate, lkPanic>>

Own(c) ==
    /\ Does(c, "own")
    /\ lkCpu' = [lkCpu EXCEPT ![Step(c).arg] = c]
    /\ Goes(c)
    /\ UNCHANGED <<onStack, intr, ncli, intena, locked, tstate, lkPanic>>

Disown(c) ==
    /\ Does(c, "disown")
    /\ lkPanic' = ~Holding(c, Step(c).arg)
    /\ lkCpu' = [lkCpu EXCEPT ![Step(c).arg] = NoLkCPU]
    /\ Goes(c)
    /\ UNCHANGED <<onStack, intr, ncli, intena, locked, tstate>>

\* The end of release(), with popcli().
Unlock(c) ==
    /\ Does(c, "unlock")
    /\ locked' = [locked EXCEPT ![Step(c).arg] = FALSE]
    /\ lkPanic' = (intr[c] \/ ncli[c] = 0)
    /\ ncli' = [ncli EXCEPT ![c] = @ - 1]
    /\ intr' = [intr EXCEPT ![c] = @ \/ (ncli[c] = 1 /\ intena[c])]
    /\ Goes(c)
    /\ UNCHANGED <<onStack, intena, lkCpu, tstate>>

SetState(c) ==
    /\ Does(c, "state")
    /\ tstate' = [tstate EXCEPT ![onStack[c]] = Step(c).arg]
    /\ Goes(c)
    /\ UNCHANGED <<onStack, intr, ncli, intena, locked, lkCpu, lkPanic>>

\* sched() to its swtch(): the local intena stays on the stack of the thread.
Sched(c) ==
    /\ Does(c, "sched")
    /\ lkPanic' = \/ ~Holding(c, PtableLock) \/ ncli[c] # 1
                  \/ tstate[onStack[c]] = "RUNNING" \/ intr[c]
    /\ onStack' = [onStack EXCEPT ![c] = c]
    /\ Steps(c, [todo[onStack[c]] EXCEPT ![1].op = "intena",
                                         ![1].val = intena[c]])
    /\ UNCHANGED <<intr, ncli, intena, locked, lkCpu, tstate>>

\* Mutant: intena stays as the scheduler of the CPU left it.
RestoredNever(c) == intena[c]

Restored(c) == Step(c).val

\* sched() after its swtch(), on any CPU.
SchedReturns(c) ==
    /\ Does(c, "intena")
    /\ intena' = [intena EXCEPT ![c] = Restored(c)]
    /\ Goes(c)
    /\ UNCHANGED <<onStack, intr, ncli, locked, lkCpu, tstate, lkPanic>>

\* A turn of scheduler() begins.
Sti(c) ==
    /\ onStack[c] = c /\ todo[c] = <<>>
    /\ intr' = [intr EXCEPT ![c] = TRUE]
    /\ Steps(c, AcquireOps(PtableLock) \o <<Op("pick", PtableLock)>>
                \o ReleaseOps(PtableLock))
    /\ UNCHANGED <<onStack, ncli, intena, locked, lkCpu, tstate, lkPanic>>

SwtchTo(c, t) ==
    /\ Does(c, "pick") /\ tstate[t] = "RUNNABLE"
    /\ tstate' = [tstate EXCEPT ![t] = "RUNNING"]
    /\ onStack' = [onStack EXCEPT ![c] = t]
    /\ UNCHANGED <<todo, intr, ncli, intena, locked, lkCpu, lkPanic>>

EndOfScan(c) ==
    /\ Does(c, "pick")
    /\ Goes(c)
    /\ UNCHANGED <<onStack, intr, ncli, intena, locked, lkCpu, tstate, lkPanic>>

Wakeup1(c) ==
    /\ Does(c, "wakeup1")
    /\ tstate' = [t \in Threads |-> IF tstate[t] = "SLEEPING" THEN "RUNNABLE"
                                    ELSE tstate[t]]
    /\ Goes(c)
    /\ UNCHANGED <<onStack, intr, ncli, intena, locked, lkCpu, lkPanic>>

\* The gate of a system call leaves interrupts on.
Syscall(c) ==
    /\ onStack[c] \in Threads /\ todo[onStack[c]] = <<>>
    /\ \E body \in SyscallBodies : Steps(c, body \o <<Op("iret", "syscall")>>)
    /\ UNCHANGED <<onStack, intr, ncli, intena, locked, lkCpu, tstate, lkPanic>>

\* The gate of an interrupt turns them off.
Interrupt(c) ==
    /\ intr[c] /\ intr' = [intr EXCEPT ![c] = FALSE]
    /\ \E body \in HandlerBodies, end \in HandlerEnds(c) :
        Steps(c, body \o end \o <<Op("iret", "handler")>> \o todo[onStack[c]])
    /\ UNCHANGED <<onStack, ncli, intena, locked, lkCpu, tstate, lkPanic>>

\* The end of trap(): the flags of the trap frame, where interrupts were on.
Iret(c) ==
    /\ Does(c, "iret")
    /\ intr' = [intr EXCEPT ![c] = TRUE]
    /\ Goes(c)
    /\ UNCHANGED <<onStack, ncli, intena, locked, lkCpu, tstate, lkPanic>>

LockNext ==
    /\ ~lkPanic
    /\ \E c \in LkCPUs :
        \/ Readeflags(c) \/ Pushcli(c) \/ Xchg(c) \/ Own(c)
        \/ Disown(c) \/ Unlock(c)
        \/ SetState(c) \/ Sched(c) \/ SchedReturns(c) \/ Wakeup1(c)
        \/ Sti(c) \/ EndOfScan(c) \/ \E t \in Threads : SwtchTo(c, t)
        \/ Syscall(c) \/ Interrupt(c) \/ Iret(c)

LockSpec == LockInit /\ [][LockNext]_lockVars

-----------------------------------------------------------------------------
\* The returns of a kind that a stack has before it.
Frames(x, kind) == {i \in DOMAIN todo[x] : todo[x][i] = Op("iret", kind)}

\* The interrupt flag follows the locks through every switch of stacks: a CPU
\* that holds a lock, or is in a handler, takes no interrupt (so it never
\* spins on a lock of its own, handlers do not pile up on a stack, and no
\* panic() of acquire(), release(), popcli() or sched() fires), and a thread
\* that has released its locks can be interrupted again, on whatever CPU it
\* then is, so that the timer can take the CPU away from it.  (A new thread
\* comes to its release() with the intena of the thread before it, and may
\* have interrupts off until it is in user space.)
InterruptsRight ==
    /\ ~lkPanic
    /\ \A c \in LkCPUs :
        LET x == onStack[c] IN
        /\ (ncli[c] > 0 \/ Frames(x, "handler") # {}) => ~intr[c]
        /\ Cardinality({l \in Locks : Holding(c, l)}) <= ncli[c]
        /\ (/\ x \in Threads /\ ncli[c] = 0
            /\ Frames(x, "handler") = {} /\ Frames(x, "forkret") = {}) => intr[c]
    /\ \A x \in Stacks : Cardinality(Frames(x, "handler")) <= 1
=============================================================================

-------------------------------- MODULE Proc --------------------------------
(***************************************************************************)
(* The process table of the xv6 kernel (proc.c): the life of a slot from   *)
(* allocproc() to the wait() that frees it, the kernel threads that execute *)
(* on the CPUs, and ptable.lock, which travels across swtch().             *)
(*                                                                         *)
(* The scheduling policy is left open: Pick takes any RUNNABLE slot.  The  *)
(* modules RR, FCFS, PBS and MLFQ restrict that choice and add the fields  *)
(* their policy reads.                                                     *)
(*                                                                         *)
(* Grain.  A critical section of ptable.lock that does not switch stacks   *)
(* is one step.  One that does is split at every point where the lock is   *)
(* held by one CPU while another could act: setting the state, swtch() into *)
(* the scheduler, the choice of the next thread, and the release by the    *)
(* resumed thread.  Code that writes a slot without the lock (the EMBRYO   *)
(* part of fork) is a step per write that another CPU can observe.         *)
(***************************************************************************)
EXTENDS Integers, FiniteSets

CONSTANTS
    NPROC,      \* slots of ptable.proc
    NCPU,       \* CPUs
    Chans,      \* sleep channels other than the addresses of slots
    MaxPid      \* bound: the largest pid a behaviour hands out

ASSUME ProcAssumption ==
    /\ NPROC \in Nat \ {0}
    /\ NCPU \in Nat \ {0}
    /\ MaxPid \in Nat \ {0}
    /\ Chans \cap (0..NPROC) = {}

VARIABLES
    state,      \* p->state
    pid,        \* p->pid
    parent,     \* p->parent, 0 for the null pointer
    chan,       \* p->chan, 0 for the null pointer
    killed,     \* p->killed
    kstack,     \* whether p->kstack holds a page
    pc,         \* where the thread of the slot is in the kernel
    sw,         \* the sched() call its saved context returns from
    np,         \* fork's local np, 0 when the thread builds no child
    exec,       \* the thread whose stack a CPU is on, 0 for its scheduler
    lock,       \* the CPU holding ptable.lock, NoCPU when free
    nextpid     \* the global nextpid

vars == <<state, pid, parent, chan, killed, kstack, pc, sw, np, exec, lock,
          nextpid>>

Slots == 1..NPROC
Refs == {0} \cup Slots      \* a pointer to a slot, or null
CPUs == 0..(NCPU - 1)
NoCPU == -1
InitProc == 1

States == {"UNUSED", "EMBRYO", "SLEEPING", "RUNNABLE", "RUNNING", "ZOMBIE"}

\* "run": user code, or kernel code that does not touch the process table.
\* "fork" .. "ready": inside fork(), before its allocproc(), before kalloc(),
\* before copyuvm(), and before the child is made RUNNABLE.
\* "panic": init called exit() and spins in panic("init exiting").
Places == {"run", "fork", "embryo", "copy", "ready", "exit", "wait", "panic"}

Switches == {"no", "yield", "sleep", "forkret", "exit"}

TypeOK ==
    /\ state \in [Slots -> States]
    /\ pid \in [Slots -> 0..MaxPid]
    /\ parent \in [Slots -> Refs]
    /\ chan \in [Slots -> Refs \cup Chans]
    /\ killed \in [Slots -> BOOLEAN]
    /\ kstack \in [Slots -> BOOLEAN]
    /\ pc \in [Slots -> Places]
    /\ sw \in [Slots -> Switches]
    /\ np \in [Slots -> Refs]
    /\ exec \in [CPUs -> Refs]
    /\ lock \in CPUs \cup {NoCPU}
    /\ nextpid \in 1..(MaxPid + 1)

(***************************************************************************)
(* userinit() has filled slot 1, whose first context returns to forkret,   *)
(* and every CPU is about to enter scheduler().                            *)
(***************************************************************************)
Init ==
    /\ state = [p \in Slots |-> IF p = InitProc THEN "RUNNABLE" ELSE "UNUSED"]
    /\ pid = [p \in Slots |-> IF p = InitProc THEN 1 ELSE 0]
    /\ parent = [p \in Slots |-> 0]
    /\ chan = [p \in Slots |-> 0]
    /\ killed = [p \in Slots |-> FALSE]
    /\ kstack = [p \in Slots |-> p = InitProc]
    /\ pc = [p \in Slots |-> "run"]
    /\ sw = [p \in Slots |-> IF p = InitProc THEN "forkret" ELSE "no"]
    /\ np = [p \in Slots |-> 0]
    /\ exec = [c \in CPUs |-> 0]
    /\ lock = NoCPU
    /\ nextpid = 2

-----------------------------------------------------------------------------
\* acquire(&ptable.lock) on CPU c.
Acquire(c) == lock = NoCPU /\ lock' = c

(* The scheduler loop of a CPU, common to the four policies.               *)

\* acquire(&ptable.lock) at the top of the scheduler's for(;;).
SchedAcquire(c) ==
    /\ exec[c] = 0
    /\ Acquire(c)
    /\ UNCHANGED <<state, pid, parent, chan, killed, kstack, pc, sw, np, exec,
                   nextpid>>

\* p->state = RUNNING and swtch() onto p's stack, the lock still held.
Pick(c, p) ==
    /\ exec[c] = 0
    /\ lock = c
    /\ state[p] = "RUNNABLE"
    /\ state' = [state EXCEPT ![p] = "RUNNING"]
    /\ exec' = [exec EXCEPT ![c] = p]
    /\ UNCHANGED <<pid, parent, chan, killed, kstack, pc, sw, np, lock,
                   nextpid>>

\* release(&ptable.lock) after the scan.
SchedRelease(c) ==
    /\ exec[c] = 0
    /\ lock = c
    /\ lock' = NoCPU
    /\ UNCHANGED <<state, pid, parent, chan, killed, kstack, pc, sw, np, exec,
                   nextpid>>

-----------------------------------------------------------------------------
(* Switching threads.                                                      *)

\* Thread p executes ordinary kernel or user code on CPU c, interrupts on.
Runs(c, p) ==
    /\ exec[c] = p
    /\ sw[p] = "no"
    /\ lock # c
    /\ pc[p] # "panic"

\* Thread p executes on c inside a critical section of ptable.lock.
RunsLocked(c, p) ==
    /\ exec[c] = p
    /\ sw[p] = "no"
    /\ lock = c

\* sched(): the swtch() from p's stack to the scheduler's, made with the lock
\* held and p->state already changed.
Swtch(c, p) ==
    /\ exec[c] = p
    /\ lock = c
    /\ sw[p] # "no"
    /\ state[p] # "RUNNING"
    /\ exec' = [exec EXCEPT ![c] = 0]
    /\ UNCHANGED <<state, pid, parent, chan, killed, kstack, pc, sw, np, lock,
                   nextpid>>

\* The release() that follows sched() in yield(), or that opens forkret().
Resume(c, p) ==
    /\ exec[c] = p
    /\ lock = c
    /\ state[p] = "RUNNING"
    /\ sw[p] \in {"yield", "forkret"}
    /\ sw' = [sw EXCEPT ![p] = "no"]
    /\ lock' = NoCPU
    /\ UNCHANGED <<state, pid, parent, chan, killed, kstack, pc, np, exec,
                   nextpid>>

\* The tail of sleep(): chan is cleared; wait() keeps the lock and scans
\* again, every other caller releases it.
ResumeSleep(c, p) ==
    /\ exec[c] = p
    /\ lock = c
    /\ state[p] = "RUNNING"
    /\ sw[p] = "sleep"
    /\ sw' = [sw EXCEPT ![p] = "no"]
    /\ chan' = [chan EXCEPT ![p] = 0]
    /\ lock' = IF pc[p] = "wait" THEN c ELSE NoCPU
    /\ UNCHANGED <<state, pid, parent, killed, kstack, pc, np, exec, nextpid>>

\* Mutant: the lock is free again before the thread has left its stack.
YieldUnlocked(c, p) ==
    /\ Runs(c, p)
    /\ lock = NoCPU
    /\ state' = [state EXCEPT ![p] = "RUNNABLE"]
    /\ sw' = [sw EXCEPT ![p] = "yield"]
    /\ UNCHANGED <<pid, parent, chan, killed, kstack, pc, np, exec, lock,
                   nextpid>>

\* yield(), called from trap() on a timer interrupt.
Yield(c, p) ==
    /\ Runs(c, p)
    /\ Acquire(c)
    /\ state' = [state EXCEPT ![p] = "RUNNABLE"]
    /\ sw' = [sw EXCEPT ![p] = "yield"]
    /\ UNCHANGED <<pid, parent, chan, killed, kstack, pc, np, exec, nextpid>>

\* sleep(chan, lk) with lk another lock than ptable.lock: a system call that
\* blocks, or exit() closing files.
Sleep(c, p, ch) ==
    /\ Runs(c, p)
    /\ pc[p] \in {"run", "exit"}
    /\ Acquire(c)
    /\ chan' = [chan EXCEPT ![p] = ch]
    /\ state' = [state EXCEPT ![p] = "SLEEPING"]
    /\ sw' = [sw EXCEPT ![p] = "sleep"]
    /\ UNCHANGED <<pid, parent, killed, kstack, pc, np, exec, nextpid>>

-----------------------------------------------------------------------------
(* wakeup() and kill().                                                    *)

\* The states after wakeup1() on every channel of the set chs.
Woken(chs) ==
    [q \in Slots |-> IF state[q] = "SLEEPING" /\ chan[q] \in chs
                     THEN "RUNNABLE" ELSE state[q]]

\* A CPU that takes interrupts: not stopped in panic().
Live(c) == \A p \in Slots : exec[c] = p => pc[p] # "panic"

\* wakeup(), from a thread or from an interrupt handler.
Wakeup(c, ch) ==
    /\ Live(c)
    /\ lock = NoCPU
    /\ state' = Woken({ch})
    /\ UNCHANGED <<pid, parent, chan, killed, kstack, pc, sw, np, exec, lock,
                   nextpid>>

\* The first slot, in table order, whose pid field equals i.
IsFirstWithPid(q, i) ==
    pid[q] = i /\ \A r \in Slots : r < q => pid[r] # i

\* kill(i) finding slot q.  The state of the slot is not looked at, except
\* to wake a sleeper, whose chan stays set.
Kill(c, p, i, q) ==
    /\ Runs(c, p)
    /\ pc[p] = "run"
    /\ ~killed[p]
    /\ lock = NoCPU
    /\ IsFirstWithPid(q, i)
    /\ killed' = [killed EXCEPT ![q] = TRUE]
    /\ state' = [state EXCEPT ![q] = IF @ = "SLEEPING" THEN "RUNNABLE" ELSE @]
    /\ UNCHANGED <<pid, parent, chan, kstack, pc, sw, np, exec, lock, nextpid>>

-----------------------------------------------------------------------------
(* trap(): entering a system call, and leaving for good when killed.       *)

\* T_SYSCALL: exit() if killed, else the system call.
SysEnter(c, p, call) ==
    /\ Runs(c, p)
    /\ pc[p] = "run"
    /\ ~killed[p]
    /\ pc' = [pc EXCEPT ![p] = IF call = "exit" /\ p = InitProc
                               THEN "panic" ELSE call]
    /\ UNCHANGED <<state, pid, parent, chan, killed, kstack, sw, np, exec,
                   lock, nextpid>>

\* exit() on the way to user space because the process was killed.
TrapExit(c, p) ==
    /\ Runs(c, p)
    /\ pc[p] = "run"
    /\ killed[p]
    /\ pc' = [pc EXCEPT ![p] = IF p = InitProc THEN "panic" ELSE "exit"]
    /\ UNCHANGED <<state, pid, parent, chan, killed, kstack, sw, np, exec,
                   lock, nextpid>>

\* The default case of trap(): a fault in user code marks the process killed,
\* without ptable.lock, and falls through to exit().
Fault(c, p) ==
    /\ Runs(c, p)
    /\ pc[p] = "run"
    /\ killed' = [killed EXCEPT ![p] = TRUE]
    /\ pc' = [pc EXCEPT ![p] = IF p = InitProc THEN "panic" ELSE "exit"]
    /\ UNCHANGED <<state, pid, parent, chan, kstack, sw, np, exec, lock,
                   nextpid>>

-----------------------------------------------------------------------------
(* fork() and the allocproc() it calls.                                    *)

\* "p->pid = nextpid++": the pid given, and the next one.
GivenPid(i) == i
FollowingPid(i) == i + 1

\* allocproc() takes the first UNUSED slot.  killed, parent and chan are not
\* written.
AllocProc(c, p, q) ==
    /\ Runs(c, p)
    /\ pc[p] = "fork"
    /\ lock = NoCPU
    /\ nextpid <= MaxPid
    /\ state[q] = "UNUSED"
    /\ \A r \in Slots : r < q => state[r] # "UNUSED"
    /\ state' = [state EXCEPT ![q] = "EMBRYO"]
    /\ pid' = [pid EXCEPT ![q] = GivenPid(nextpid)]
    /\ nextpid' = FollowingPid(nextpid)
    /\ np' = [np EXCEPT ![p] = q]
    /\ pc' = [pc EXCEPT ![p] = "embryo"]
    /\ UNCHANGED <<parent, chan, killed, kstack, sw, exec, lock>>

\* allocproc() finds the table full: fork() returns -1.
AllocProcFull(c, p) ==
    /\ Runs(c, p)
    /\ pc[p] = "fork"
    /\ lock = NoCPU
    /\ \A r \in Slots : state[r] # "UNUSED"
    /\ pc' = [pc EXCEPT ![p] = "run"]
    /\ UNCHANGED <<state, pid, parent, chan, killed, kstack, sw, np, exec,
                   lock, nextpid>>

\* kalloc() gives the kernel stack; the context will return to forkret.
AllocStack(c, p) ==
    /\ Runs(c, p)
    /\ pc[p] = "embryo"
    /\ kstack' = [kstack EXCEPT ![np[p]] = TRUE]
    /\ sw' = [sw EXCEPT ![np[p]] = "forkret"]
    /\ pc' = [pc EXCEPT ![p] = "copy"]
    /\ UNCHANGED <<state, pid, parent, chan, killed, np, exec, lock, nextpid>>

\* kalloc() fails: the slot is UNUSED again, by a write without the lock, and
\* keeps its pid.
AllocStackFail(c, p) ==
    /\ Runs(c, p)
    /\ pc[p] = "embryo"
    /\ state' = [state EXCEPT ![np[p]] = "UNUSED"]
    /\ np' = [np EXCEPT ![p] = 0]
    /\ pc' = [pc EXCEPT ![p] = "run"]
    /\ UNCHANGED <<pid, parent, chan, killed, kstack, sw, exec, lock, nextpid>>

\* copyuvm() succeeds; np->parent is set without the lock.
ForkCopy(c, p) ==
    /\ Runs(c, p)
    /\ pc[p] = "copy"
    /\ parent' = [parent EXCEPT ![np[p]] = p]
    /\ pc' = [pc EXCEPT ![p] = "ready"]
    /\ UNCHANGED <<state, pid, chan, killed, kstack, sw, np, exec, lock,
                   nextpid>>

\* copyuvm() fails: the stack is freed and the slot is UNUSED, pid kept.
ForkCopyFail(c, p) ==
    /\ Runs(c, p)
    /\ pc[p] = "copy"
    /\ kstack' = [kstack EXCEPT ![np[p]] = FALSE]
    /\ sw' = [sw EXCEPT ![np[p]] = "no"]
    /\ state' = [state EXCEPT ![np[p]] = "UNUSED"]
    /\ np' = [np EXCEPT ![p] = 0]
    /\ pc' = [pc EXCEPT ![p] = "run"]
    /\ UNCHANGED <<pid, parent, chan, killed, exec, lock, nextpid>>

\* The last lines of fork(): the child is RUNNABLE.
ForkDone(c, p) ==
    /\ Runs(c, p)
    /\ pc[p] = "ready"
    /\ lock = NoCPU
    /\ state' = [state EXCEPT ![np[p]] = "RUNNABLE"]
    /\ np' = [np EXCEPT ![p] = 0]
    /\ pc' = [pc EXCEPT ![p] = "run"]
    /\ UNCHANGED <<pid, parent, chan, killed, kstack, sw, exec, lock, nextpid>>

-----------------------------------------------------------------------------
(* exit() and wait().                                                      *)

Children(p) == {q \in Slots : parent[q] = p}

\* Mutant: only init is woken, and only for an inherited zombie.
ExitWakesInit(p) ==
    {i \in {InitProc} : \E q \in Children(p) : state[q] = "ZOMBIE"}

\* The channels exit() wakes: the parent, and init if it inherits a zombie.
ExitWakes(p) ==
    {parent[p]} \cup
        {i \in {InitProc} : \E q \in Children(p) : state[q] = "ZOMBIE"}

\* Mutant: the children keep their parent.
ReparentedNone(p) == parent

\* "Pass abandoned children to init."
Reparented(p) ==
    [q \in Slots |-> IF parent[q] = p THEN InitProc ELSE parent[q]]

\* Mutant: the zombie can be reaped before it has left its stack.
ExitUnlocked(c, p) ==
    /\ Runs(c, p)
    /\ pc[p] = "exit"
    /\ lock = NoCPU
    /\ state' = [Woken(ExitWakes(p)) EXCEPT ![p] = "ZOMBIE"]
    /\ parent' = Reparented(p)
    /\ sw' = [sw EXCEPT ![p] = "exit"]
    /\ UNCHANGED <<pid, chan, killed, kstack, pc, np, exec, lock, nextpid>>

\* The locked part of exit(): wake the parent, hand the children to init and
\* wake init if one is a zombie, become a zombie, enter sched().
Exit(c, p) ==
    /\ Runs(c, p)
    /\ pc[p] = "exit"
    /\ Acquire(c)
    /\ state' = [Woken(ExitWakes(p)) EXCEPT ![p] = "ZOMBIE"]
    /\ parent' = Reparented(p)
    /\ sw' = [sw EXCEPT ![p] = "exit"]
    /\ UNCHANGED <<pid, chan, killed, kstack, pc, np, exec, nextpid>>

\* acquire(&ptable.lock) at the top of wait() and waitx().
WaitAcquire(c, p) ==
    /\ Runs(c, p)
    /\ pc[p] = "wait"
    /\ Acquire(c)
    /\ UNCHANGED <<state, pid, parent, chan, killed, kstack, pc, sw, np, exec,
                   nextpid>>

\* The scan finds its first ZOMBIE child q, frees the slot and returns.
WaitReap(c, p, q) ==
    /\ RunsLocked(c, p)
    /\ pc[p] = "wait"
    /\ parent[q] = p
    /\ state[q] = "ZOMBIE"
    /\ \A r \in Children(p) : r < q => state[r] # "ZOMBIE"
    /\ state' = [state EXCEPT ![q] = "UNUSED"]
    /\ pid' = [pid EXCEPT ![q] = 0]
    /\ parent' = [parent EXCEPT ![q] = 0]
    /\ killed' = [killed EXCEPT ![q] = FALSE]
    /\ kstack' = [kstack EXCEPT ![q] = FALSE]
    /\ sw' = [sw EXCEPT ![q] = "no"]
    /\ pc' = [pc EXCEPT ![p] = "run", ![q] = "run"]
    /\ lock' = NoCPU
    /\ UNCHANGED <<chan, np, exec, nextpid>>

\* wait() returns -1: no children, or killed.
WaitFail(c, p) ==
    /\ RunsLocked(c, p)
    /\ pc[p] = "wait"
    /\ \A q \in Children(p) : state[q] # "ZOMBIE"
    /\ Children(p) = {} \/ killed[p]
    /\ pc' = [pc EXCEPT ![p] = "run"]
    /\ lock' = NoCPU
    /\ UNCHANGED <<state, pid, parent, chan, killed, kstack, sw, np, exec,
                   nextpid>>

\* sleep(curproc, &ptable.lock): the channel is the slot's own address.
WaitSleep(c, p) ==
    /\ RunsLocked(c, p)
    /\ pc[p] = "wait"
    /\ Children(p) # {}
    /\ \A q \in Children(p) : state[q] # "ZOMBIE"
    /\ ~killed[p]
    /\ chan' = [chan EXCEPT ![p] = p]
    /\ state' = [state EXCEPT ![p] = "SLEEPING"]
    /\ sw' = [sw EXCEPT ![p] = "sleep"]
    /\ UNCHANGED <<pid, parent, killed, kstack, pc, np, exec, lock, nextpid>>

-----------------------------------------------------------------------------
Scheduler(c) ==
    \/ SchedAcquire(c)
    \/ SchedRelease(c)
    \/ \E p \in Slots : Pick(c, p)

\* What the thread p does when CPU c gives it time, apart from the choices
\* that are its program's: it never waits for anything but ptable.lock.
Switching(c, p) == Swtch(c, p) \/ Resume(c, p) \/ ResumeSleep(c, p)

Fork(c, p) ==
    \/ \E q \in Slots : AllocProc(c, p, q)
    \/ AllocProcFull(c, p)
    \/ AllocStack(c, p)
    \/ AllocStackFail(c, p)
    \/ ForkCopy(c, p)
    \/ ForkCopyFail(c, p)
    \/ ForkDone(c, p)

Wait(c, p) ==
    \/ WaitAcquire(c, p)
    \/ \E q \in Slots : WaitReap(c, p, q)
    \/ WaitFail(c, p)
    \/ WaitSleep(c, p)

Trap(c, p) ==
    \/ \E call \in {"fork", "exit", "wait"} : SysEnter(c, p, call)
    \/ TrapExit(c, p)
    \/ Fault(c, p)
    \/ \E i \in 0..MaxPid, q \in Slots : Kill(c, p, i, q)

Thread(c, p) ==
    \/ Switching(c, p)
    \/ Yield(c, p)
    \/ \E ch \in Chans : Sleep(c, p, ch)
    \/ Trap(c, p)
    \/ Fork(c, p)
    \/ Exit(c, p)
    \/ Wait(c, p)

Next ==
    \E c \in CPUs :
        \/ Scheduler(c)
        \/ \E ch \in Chans : Wakeup(c, ch)
        \/ \E p \in Slots : Thread(c, p)

Spec == Init /\ [][Next]_vars

-----------------------------------------------------------------------------
(* What proc.c promises.                                                   *)

\* Slots that hold a process, alive or zombie.
Used(p) == state[p] \notin {"UNUSED", "EMBRYO"}

\* No two CPUs are ever on the same kernel stack, and a slot that a scheduler
\* holding ptable.lock finds RUNNABLE is on no stack at all: its context has
\* been saved by the swtch() in sched().  This is what passing the lock
\* across swtch() is for.
SwitchSafe ==
    /\ \A c, d \in CPUs : exec[c] # 0 /\ exec[c] = exec[d] => c = d
    /\ \A c, d \in CPUs, p \in Slots :
            lock = c /\ exec[c] = 0 /\ state[p] = "RUNNABLE" => exec[d] # p

\* A CPU never executes on a kernel stack that wait() or a failed fork() has
\* given back to kalloc: a zombie is reaped only once it has left its stack.
StackSafe ==
    \A c \in CPUs : exec[c] # 0 => kstack[exec[c]] /\ Used(exec[c])

\* The panics of sched() and exit() do not fire: a thread inside sched() holds
\* ptable.lock on its own CPU, and a zombie is never resumed.
SchedAsserts ==
    /\ \A c \in CPUs : exec[c] # 0 /\ sw[exec[c]] # "no" => lock = c
    /\ \A p \in Slots : state[p] = "RUNNING" => sw[p] # "exit"

\* No exit is missed: a process asleep in wait() has no zombie child, whether
\* the child exited before or after the scan or was handed over by exit().
NoMissedExit ==
    \A p, q \in Slots :
        state[p] = "SLEEPING" /\ chan[p] = p /\ parent[q] = p
            => state[q] # "ZOMBIE"

\* Every process but init has a parent that can still wait for it: neither a
\* zombie nor a freed slot.  A child in exit() would otherwise wake, and be
\* reaped by, whatever process comes to own that slot.
ParentAlive ==
    \A q \in Slots : Used(q) /\ q # InitProc =>
        /\ parent[q] \in Slots
        /\ Used(parent[q])
        /\ state[parent[q]] # "ZOMBIE"

\* No two slots carry the same pid, the pids that failed forks leave behind in
\* UNUSED slots included: kill() and set_priority() look only at the pid.
PidUnique ==
    \A p, q \in Slots : p # q /\ pid[p] # 0 => pid[p] # pid[q]

-----------------------------------------------------------------------------
(* The inductive invariant behind those properties, one idea per conjunct. *)

Building == {"embryo", "copy", "ready"}

\* A CPU is on at most one thread and a thread on at most one CPU; the thread
\* is RUNNING, or it is inside sched() and its CPU holds the lock.
OnCPU ==
    /\ \A c, d \in CPUs : exec[c] # 0 /\ exec[c] = exec[d] => c = d
    /\ \A c \in CPUs, p \in Slots : exec[c] = p =>
            \/ state[p] = "RUNNING"
            \/ /\ state[p] \in {"RUNNABLE", "SLEEPING", "ZOMBIE"}
               /\ sw[p] # "no"
    /\ \A c \in CPUs, p \in Slots : exec[c] = p /\ sw[p] # "no" => lock = c
    /\ \A p \in Slots : state[p] = "RUNNING" => \E c \in CPUs : exec[c] = p

\* What the state of a slot says of its saved context, stack and place.
SlotShape ==
    \A p \in Slots :
        /\ state[p] = "UNUSED" => sw[p] = "no" /\ parent[p] = 0
        /\ state[p] \in {"RUNNABLE", "SLEEPING"} =>
                sw[p] \in {"yield", "sleep", "forkret"}
        /\ state[p] = "ZOMBIE" <=> sw[p] = "exit"
        /\ state[p] = "ZOMBIE" => pc[p] = "exit"
        /\ pc[p] # "run" => Used(p)
        /\ Used(p) => kstack[p]
        /\ parent[p] # p

\* A slot under construction belongs to one forking thread.
ForkShape ==
    /\ \A p \in Slots : np[p] # 0 <=> pc[p] \in Building
    /\ \A p \in Slots : pc[p] \in Building =>
            /\ state[np[p]] = "EMBRYO"
            /\ pc[p] = "embryo" => sw[np[p]] = "no" /\ parent[np[p]] = 0
            /\ pc[p] \in {"copy", "ready"} => kstack[np[p]] /\ sw[np[p]] = "forkret"
            /\ pc[p] = "copy" => parent[np[p]] = 0
            /\ pc[p] = "ready" => parent[np[p]] = p
    /\ \A p, q \in Slots : np[p] # 0 /\ np[p] = np[q] => p = q

\* init never becomes a zombie: it panics instead.  It has no parent.
InitLives ==
    /\ parent[InitProc] = 0
    /\ Used(InitProc)
    /\ state[InitProc] # "ZOMBIE"
    /\ pc[InitProc] # "exit"

\* Every pid in the table has been handed out already, to one slot.
PidShape ==
    /\ \A p \in Slots : pid[p] < nextpid
    /\ PidUnique

IInv ==
    /\ TypeOK
    /\ OnCPU
    /\ SlotShape
    /\ ForkShape
    /\ InitLives
    /\ NoMissedExit
    /\ ParentAlive
    /\ PidShape

=============================================================================

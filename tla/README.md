# A verification project for the operating-systems assignments

The repository holds six programs: an xv6 kernel extended with three scheduling
policies and process accounting (Assignment 5), three programs with threads (a
merge sort, a vaccination drive and a concert, Assignment 4), a shell
(Assignment 3), a file transfer over a socket (Assignment 6), and two exercises
with plain file I/O (Assignment 1; Assignment 2 has no source). This directory
models in TLA+ whatever in them keeps state that several actors, failures or long
sequences of calls can spoil, model-checks it with TLC, and proves the main
invariants of the process table with TLAPS.

Run a model with `tlc -config X.cfg M`, the proofs with `tlapm M.tla`.
Below, the files of the kernel are those of `src/Assignment5/2019101050-xv6/xv6/`;
`q1.c`, `q2.c`, `q3.c` are in `src/Assignment4/2019101050/`, `parser.c`,
`process_maker.c` and `zombie_killer.c` in `src/Assignment3/2019101050/`, `server.c`,
`client.c` and `header.c` in `src/Assignment6/codes/`.

## 1. Inventory

| component | state | operations | what makes it correct | hard because |
|---|---|---|---|---|
| process table (`proc.c`) | `ptable`, `ptable.lock`, `nextpid`, kernel stacks, `cpu->proc` | fork, exit, wait, waitx, sleep, wakeup, kill, yield, sched | a stack is run by one CPU and not freed under a thread; no exit is missed; every child has a live parent; pids are unique | the lock travels across `swtch()`; fork writes its slot unlocked; slots are reused |
| schedulers (`RR.c`, `FCFS.c`, `PBS.c`, `MLFQ.c`) | loop variables, `ctime`, `priority`, queue levels and slices, `ticks` | scheduler, trap (timer), set_priority | each promises an order, and none forgets a process | the choice is made from values read before other CPUs and interrupts change them |
| accounting (`proc.c`, timer part of `trap()`) | `ctime`, `etime`, `rtime`, `iotime` | allocproc, exit, waitx, tick | reported times are consistent | slots are reused, `wait()` does not clear them |
| pipes (`pipe.c`) | ring, `nread`, `nwrite`, `readopen`, `writeopen` | pipewrite, piperead, pipeclose | a first-in first-out queue; nobody sleeps on a condition that holds; the page is not used after `kfree()` | unsigned counters wrap; two locks; kill |
| log (`log.c`) | header, log blocks, `outstanding`, `committing` | begin_op, log_write, end_op, commit, recovery | an operation is on disk wholly or not at all, and stays | a crash between any two disk writes |
| inodes and directories (`fs.c`) | cached and on-disk inodes, references, sleep locks, entries | iget, ilock, iput, ialloc, dirlookup, dirlink, namex | nothing in use is freed; counts are exact; cache and disk agree; no deadlock | locks held while others are asked for; `ialloc()` without the inode's lock |
| file contents and blocks (`fs.c`, `mkfs.c`) | bitmap, block addresses in inodes and indirect blocks, sizes | balloc, bfree, bmap, itrunc, readi, writei, the image of mkfs | a block has one owner; a file reads back as it was written, and as zero elsewhere | marked, cleared and entered under different locks |
| buffer cache and IDE driver (`bio.c`, `sleeplock.c`, `ide.c`) | buffers, their list and locks, request queue | bget, bread, bwrite, brelse, iderw, ideintr | one latest copy of a block; every waiter is woken | recycling, pinned buffers, interrupt completion |
| spin locks and interrupts (`spinlock.c`, parts of `proc.c`) | lock words, holders, `ncli`, `intena`, the interrupt flag | acquire, release, pushcli, popcli, sched, interrupt entry and return | no interrupt while a lock is held, interrupts back when it is not | the flag follows a thread from CPU to CPU |
| memory (`kalloc.c`, `vm.c`, `exec.c`, `syscall.c`) | free list, page tables, sizes | kalloc, kfree, allocuvm, deallocuvm, copyuvm, freevm, exec, sbrk, argument checks | no page lost or shared; the size tells what is mapped | memory gives out in the middle of a call; sums that wrap |
| console input (`console.c`) | ring with three indices | consoleintr, consoleread | a line editor: nothing lost, repeated or late | edits, full buffer, ^D put back, several readers, wrap |
| user allocator (`umalloc.c`) | ring of free blocks, break | malloc, free, morecore | blocks are whole and apart, neighbours joined, none lost | long sequences of calls, gaps between extensions |
| xv6 shell (`sh.c`) | a line, processes and their descriptors | parser, runcmd, main | a line runs as it reads | closes in several processes decide when a pipe ends |
| file table and calls (`file.c`, `sysfile.c`) | `ftable`, `ofile`, counts | open, create, mkdir, link, unlink, close, dup, pipe, sharing by fork | the last close puts the inode, exactly once; every failure gives back what it took | long calls with many early returns |
| vaccination drive (`q2.c`) | vaccine queue, zones' slots and lists, flags of students | company, zone, student threads | a dose for every slot, one vaccination for a registration, everybody served | an unlocked read; conditions and broadcasts |
| concert (`q3.c`) | stages, singer queue, count of performances without a singer, t-shirt semaphore | musician and singer threads | a stage has one performer; a free stage is noticed; a performer's singer is real; everybody leaves | timed waits racing with signals |
| merge sort (`q1.c`) | an array shared by threads or processes | sort, merge | the result is the sorted input | the parts are sorted concurrently, and a worker may not start |
| shell (`Assignment3`) | job table, descriptors, terminal owner, history | run, pipe, redirect, fg, bg, kjob, overkill, quit, reaping | the table lists the live children; descriptors come back | processes stop and end at any time; many copies and closes of descriptors |
| file transfer (`Assignment6`) | a stream socket, positions of both sides | sendString/getString, sendFile/getFile, get | the file that arrives is the file sent; nobody waits for the other | a stream keeps no message boundaries; clients leave |
| boot, device set-up, user programs | | | | see section 6 |

The components meet as follows. The schedulers run the threads of the process
table and hand them `ptable.lock`; the timer interrupt calls `yield()` and
`wakeup()`. Pipes, the log, sleep locks and the IDE driver all block with
`sleep(chan, lk)` and are woken with `wakeup(chan)`. System calls on files bracket
their disk writes with `begin_op()` and `end_op()`. Files are
made of blocks (`FileData`), blocks come through buffers, and buffers from the disk.
The programs of the other assignments are separate: they share nothing with xv6 but
the ideas.

## 2. Modules

| module | models | built on |
|---|---|---|
| `Proc` | `proc.c`, the loop of `scheduler()`, the exits of `trap()` | |
| `RR`, `FCFS`, `PBS`, `MLFQ` | the four policies, one kernel build each | `Proc` |
| `Pipe` | `pipe.c` with `sleep()`, `wakeup()`, `kill()` below it | refines `ByteQueue` |
| `Log` | `log.c` and the disk it writes | refines `AtomicDisk` |
| `Files` | inodes and paths of `fs.c`, `file.c`, the calls of `sysfile.c` | |
| `FileData` | the contents of files: `fs.c` from balloc to writei, `filewrite`, `mkfs.c` | |
| `BufferCache` | `bio.c`, `sleeplock.c`, `ide.c` | |
| `Console` | the input part of `console.c` | refines `LineEditor` |
| `Spinlock` | `spinlock.c` with the stack switches of `proc.c` and the interrupts of `trap()` | |
| `VM` | `kalloc.c`, `vm.c`, `exec.c`, growproc, the argument checks of `syscall.c` | |
| `UserHeap` | `umalloc.c` | |
| `Descriptors` | open, close, dup, pipe, dup2 on a process's descriptors | |
| `Sh` | `sh.c` | `Descriptors` |
| `Shell` | the shell of assignment 3 | `Descriptors` |
| `Transfer` | the file transfer of assignment 6 | |
| `MergeSort` | `q1.c` | |
| `Vaccine` | `q2.c` | |
| `Concert` | `q3.c` | |
| `ByteQueue`, `AtomicDisk`, `LineEditor` | abstract: a bounded queue; a disk whose commits are atomic; lines that are edited, entered and delivered | |
| `ProcProofs` | theorems about `Proc` | `Proc`, TLAPS |
| `DispatchProofs` | the same for the round robin and first come, first served | `MCRR`, `FCFS`, `ProcProofs` |
| `PolicyProofs` | what run `policies` checks: the priority scheduler, the feedback queue, and the spin locks under them | `MCPolicies`, `ProcProofs` |
| `PipeProofs` | theorems about `Pipe`, with its refinement | `Pipe`, TLAPS |
| `StorageProofs` | theorems about `Log`, with its refinement, and `FileData` | `Log`, `FileData`, TLAPS |
| `ProgramProofs` | theorems about `Vaccine`, `Concert`, `Transfer` and `Shell` | `MCThreads`, `Transfer`, `Shell` |
| `DeviceProofs` | theorems about `BufferCache` and `Console`, with its refinement | `MCDevices` |
| `FilesProofs` | theorems about `Files` | `Files`, TLAPS |
| `MC*` | instances for TLC; where components share nothing, one instance holds several and a behaviour follows one of them | |

**Proc.** Slots are numbered from 1, slot 1 is init, 0 is the null pointer. The
fields of `struct proc` are functions on slots. `exec[c]` is the thread whose kernel
stack CPU `c` is on (0: the scheduler's own), `lock` is the holder of `ptable.lock`,
`sw[p]` the `sched()` call from which p's saved context returns, `pc[p]` where p is
in the kernel, `np[p]` the local `np` of `fork()`. A critical section that does not
switch stacks is one step. One that does is cut at each point where the lock is held
and something else can happen: `Yield`, `Sleep`, `Exit`, `WaitSleep` set the state
and leave the thread inside `sched()`; `Swtch` moves the CPU to its scheduler; `Pick`
chooses any RUNNABLE slot; `Resume`/`ResumeSleep` is the release by the thread that
was switched to. `fork()` is four steps, since it writes the EMBRYO slot without the
lock. What a program does is free: a running thread may call fork, wait, exit,
kill with any pid, block, fault, or be interrupted. Fields with no effect on the
table (open files, cwd, memory, trap frame) are left out. The channel of a
`wait()` is the slot itself, `Chans` stands for all other channels.

**RR, FCFS, PBS, MLFQ** conjoin the choice of their `scheduler()` to `Pick` and add
the fields it reads, so that each of their steps is a step of `Proc` and the
theorems about `Proc` hold in the four kernels. RR keeps the loop variable
`scan[c]` across the switch, as the code does. FCFS carries the accounting that
is common to the four builds (`Tick`, `FCFSAllocStack`, `FCFSExit`, `FCFSReap`;
`waitx()` clears the times, `wait()` does not). PBS has `GetMinPrio`, the second loop
that runs every process of that priority and the recomputation after each return, and
`SetPriority`. MLFQ has the queues, demotion, aging, the charge of the tick and
`cpu[c]`, which models `c->proc`: this scheduler sets it and never clears it, and
`StaleYield` is what a timer interrupt then does on an idle CPU when there are two.

**Pipe.** `plock` is `p->lock`, `ptlock` is `ptable.lock`; `sleep()` is three steps
(take ptable.lock; release p->lock; become SLEEPING and switch), so that a waker or
`kill()` can come at each of them. `nread` and `nwrite` count modulo `Modulus`, which
`PIPESIZE` divides as 512 divides 2^32. A thread closes its file when it is done, and
`pipeclose()` of the last file of a side marks it closed and, when both are, frees.
The refinement maps the ring between the counters to the queue of `ByteQueue`.

**Log.** `home`, `logd`, `head` are the disk; everything else is memory and is lost by
`Crash`, which may come at any time, in the recovery too. A disk write is one step.
`commit()` runs without the lock, as in the code, with its steps (`WriteLog` block by
block, `WriteHead`, `Install` block by block, `EraseHead`) interleaved with processes
that come to `begin_op()` and wait. The refinement maps what the recovery would
produce from the present disk (`Recovered`) to the disk of `AtomicDisk`, where a
group commit is one step and a crash changes nothing.

**Files.** `disk` and `dir` are the dinodes and directory entries on the disk, `core`
the cached inodes, `ref` and `holder` their counts and sleep locks, `fref`, `fip` and
`ofile` the file table and descriptors. `t[p]` is the thread of p: its call, its place
`pc`, the path left to walk and the locals `ip`, `dp`, `old` of the call. A section
under one sleep lock is one step unless its holder asks for another lock inside it;
then the lock stays held between the steps (`UnlinkFound`, `CreateAlloc`, `CreateLink`,
`LinkTaken`). `iput()` is up to four steps, since it takes the inode's lock again, frees
on the disk before it clears `valid`, and drops the count after the lock. Names are
model values, paths sequences of them; `begin_op()` and `end_op()` do not exclude
anybody and are left to `Log`. The panics of `ilock()` and `sys_unlink()` are states a
process cannot leave, and `NoPanic` says that none comes there. The other panic,
`ialloc: no inodes`, really stops the machine (`CreatePanic`).

**Vaccine.** A mutex's critical section is one step; the read of `waitingStudents` in
`addToSlotsQueue()` is not protected and is a step of its own. Condition variables are
the value `"asleep"` of a thread's place; a broadcast makes the sleepers check again.
Success probabilities are a choice at the test, sleeps are ordinary delay.

**Concert.** Everything but the t-shirts is under `stageLock`, so a step is what a
thread does between getting the lock and giving it up. `pthread_cond_timedwait()`
ends in two steps: a signal (`Awake`) or the clock (`Timeout`) takes the thread out of
the waiters, and later it gets the lock back (`"signalled"`, `"called"` against
`"expired"`, `"overtime"`); what other threads do in between is where the races are.
A signal wakes one waiter of the chosen variable, if there is one. Spurious wakeups,
which POSIX allows and `perform()` would take for a singer, are left out.

**FileData.** A block is an array of words, and the words of an indirect block are block
numbers, so a block that is used without being cleared shows as garbage. The image is
made by the steps of `mkfs.c` (inodes, the root directory, files appended part by part,
the bitmap last). Then writers read, write and truncate: the lock of the inode is held
over a call, and a step is one look at the bitmap (`Balloc`), one block cleared and
entered (`Bzero`), one part copied, one block freed. An inode nobody has locked may leave
the cache and be read again. `text` is what a reader may expect, kept beside the blocks.

**BufferCache.** A step is what a process does under one spin lock. `bget()` is a hit or
the recycling of the last unused clean buffer of the list; a sleeper is a place that a
wakeup takes the process from; the disk takes the data of a write when the request starts
and gives those of a read when it ends. `LogWrite` leaves a buffer dirty without writing
it, as `log_write()` does, and `InstallTrans` writes it later.

**Console and LineEditor.** The indices `r`, `w`, `e` only grow and wrap at `Modulus32`,
a multiple of `INPUT_BUF`. An interrupt handles one character per step; a reader holds the
lock from its first look to its sleep or return, one character per step. The line editor
has a line being typed and a queue of entered characters; the mapping cuts the ring at
the indices.

**Spinlock.** Each stack (of a thread, or of a CPU's scheduler) is the list of steps it has
still to take; a call puts its steps in front, an interrupt those of its handler. So
`acquire()` is pushcli (with the read of the flags before the cli), the exchange and the
note of the owner, and an interrupt can come wherever the flag allows it. `sched()` keeps
`intena` in its stack frame and puts it back on whatever CPU it returns.

**VM.** The free list and page tables meet other processes only in how many pages are
left, so a call is one step with a budget of pages after which `kalloc()` fails: every
failure path of `fork()`, `exec()` and `sbrk()` is taken. The free list is a count per page,
so that a double free shows. `Fetchint`, `Fetchstr` and `Argptr` are the checks of system
call arguments, with sums that wrap at `Modulus`; `ArgsMapped` says that what they accept
is mapped.

**UserHeap.** `malloc()` and `free()` with the ring from `freep`, first fit, the split at
the end of a block, joining above and below, `morecore()` with `sbrk()` that fails, and
gaps made by other calls of `sbrk()`. A call is one step: the allocator has one thread.

**Sh.** The parser is a set of mutually recursive operators on tokens, one for each of its
functions, with the trees of `execcmd()` and the rest; a line is then run by processes
that fork, redirect, make pipes, close and wait as `runcmd()` says. `Meaning` reads the
same line by its operators, for comparison. `PipesAreClosed` looks at the shells too: none
that waits for a program, directly or through its children, has the other end of a pipe the
program is on, so a reader meets its end and a writer whose readers are gone is told.

**Shell.** A line is given parsed. The table of jobs is `stack[0..top]` with its holes; a
child runs, stops, continues and ends at any time, and is reaped where `zombie_killer.c`
does it. Redirections and pipelines are steps on the shell's descriptors, in the order of
`dup2()` and `close()` in `parser.c` and `process_maker.c`, with `open()`, `fork()` and
`pipe()` failing.

**Transfer.** Both streams are sequences of strings, acknowledgements and bytes; file bytes
are read in portions of any size, a string whole. The server's loop over clients, the
files that are missing or change between `lstat()` and the sending, and a client that
leaves in the middle are actions. Nothing ends a string, on the stream or in the buffer of
`getString()`: `freed` is the bag of what the freed name buffers hold, `TakeBuffer` is
`malloc()` (new memory or one of these), and `Overlaid` what is then read. Names and numbers
are sequences of characters there, since a count over an older name is another count.
`Lstat` has the mask of `server.c:78`, which lets links and sockets through, `Opens` and
`ReadFails` what happens to them later. `fault` notes what no delivery survives: a string
read as another one, a size that is no length of a file, a file that changed, or `open()`
failing in `getFile()`.

**MergeSort.** The three sorts as operators, and the tree of workers on one array. A worker
that cannot be made leaves its half to its maker; then `waitpid(-1)` takes any child.

## 3. Runs

| run | bounds | checks |
|---|---|---|
| `proc` | 3 slots, 2 CPUs, 3 further pids | `SwitchSafe`, `StackSafe`, `NoMissedExit`, `ParentAlive` |
| `rr` | 3 slots, 1 CPU | `NoStarvation` (fairness), `BoundedBypass` |
| `fcfs` | 3 slots, 1 CPU, one tick | `FirstCome`, `WaitTimeSane` |
| `policies` | PBS: 2 slots, the default priority and a worse one at the edge of the search; MLFQ: 2 slots, two levels, 6 ticks; locks: 2 CPUs, 2 threads, ptable.lock and a device lock | `PicksLeast`, `PolicySound`, `InterruptsRight` |
| `mlfq_smp` | 2 CPUs | `YieldsOwn` is violated |
| `pipe` | 2 writers, 1 reader, ring of 2, counters mod 4 | `NoLostWakeup`, `NoUseAfterFree`, `ImplementsQueue` |
| `storage` | log: 2 processes, 3 blocks, log of 4; contents: 2 writers, the root and a file, 5 blocks of 2 words, one direct block, 3 calls | `DurableAfterEnd`, `NoPanic`, `CrashAtomic`, `SleepersWake` (fairness), `BlocksOwned`, `ReadsBack` |
| `files` | 2 processes, 3 inodes, paths a, b, a/b, one open file, 2 links | `CountsRight`, `FreesUnused`, `Coherent`, `NoPanic` |
| `files_deadlock` | the same | `NoDeadlock` is violated |
| `threads` | vaccine: 1 company, 2 zones, 2 students; concert: 3 musicians, 2 singers, a stage of each kind, 1 coordinator; sort: 5 items of 3 values, cutoff 3 | `OneJab`, `RegisteredServed` (fairness), `NoIdleStage`, `SingersReal`, `AllGoHome` (fairness), `SortedAtEnd` |
| `devices` | 2 processes, 4 blocks of which 2 are stored to twice in all, 3 buffers; 2 readers, ring of 3, indices mod 6 | `CacheCoherent`, `SleepersWoken` (fairness), `ReadersServed`, `ImplementsEditor` |
| `resources` | 15 pages, 2 processes; a heap of up to 3 extensions; sessions of 2 lines in either shell; 2 files of up to 3 bytes, 2 links and a socket, 2 clients, 2 calls of get | `MemoryRight`, `JobsExact`, `DescriptorsRight`, `LinesRun`, `Delivered`, `NeverBothWait` |

*What they show.* A stack is run by one CPU and freed only when left, and no exit is
missed (`proc`); round robin passes over a process at most once (`rr`); first come is
first served up to the tick (`fcfs`); PBS runs the least priority, neither PBS nor MLFQ
forgets a process, and below them the interrupt flag follows the locks (`policies`); the
pipe is a queue (`pipe`); an operation is on the disk wholly or not at all, and files keep
apart (`storage`); the counts of inodes are exact over all early returns (`files`); the
programs with threads serve everybody (`threads`); a buffer is the latest copy of its
block and the console a line editor (`devices`); and pages, heap blocks, jobs and
descriptors come back on every failure path (`resources`).

*Bounds.* Three slots are init, a parent and a child, enough for a reparented zombie
and for a full table; two CPUs for every pair of concurrent critical sections; the
pid bound lets slots be reused after failed and after reaped forks. One tick in
`fcfs` separates processes forked before and after it. With two slots in `policies`
the running process can make itself better and the other worse before it yields, which
a minimum kept too long does not survive. Two threads on two CPUs sleep, are preempted
and change CPUs. A ring of two bytes with counters modulo 4 fills, empties and wraps;
writes of three bytes must block. In the log two processes share a group commit, one can
wait for space and one for the commit, and three blocks in a log of four let an operation
absorb and be refused. A file of `storage` reaches into its indirect block and fills
the disk, and writes beyond its end are refused. Three inodes are the root, a directory and a file in it, so
that inodes run out, are freed and allocated again; with one file and one descriptor both
tables fill, and a second process gets its descriptor through fork. A student can
register at one zone while another counts it as waiting. In the concert the acoustic
stage has more takers than places, so that signals go to threads that lose the race, and
two singers meet one performance. Five items with a cutoff of three make one level of
workers. Four blocks in three buffers recycle buffers in use a moment ago, one of them
pinned. A console ring of three characters fills, and the indices wrap after two rounds.
15 pages let a process exec and fork while memory gives out in every call. The lines for
the two shells use every operator of their grammars, every kind of error, and leave up to
three jobs in any state. A file of the transfer is empty or takes two chunks. One of its names
begins with the other and ends in a digit, so that with two calls of get a count and a name
are read over an older and longer one; after a fault the get under way goes on, no
other is begun and no client comes or leaves.
`CHECK_DEADLOCK` is off where the system may really stop: a bound is exhausted, every
line has been typed, or everybody waits for input.

*Fairness.* `RRFairness`: a CPU in its scheduler, in `sched()` or in `wait()` keeps
going (weak), and a thread with interrupts on is interrupted by the timer (strong,
since the interrupt stays pending while the thread has them off). It is used on one
CPU; spin locks promise no more than that to several. `Log!Fairness`: a process
inside an operation or a commit goes on, and the machine does not crash for ever.
`MCThreads!Fairness`: every thread is scheduled and every clock runs out; a student who
looks for a slot need never find one. `BufFairness`: the disk interrupts when it is done,
and a process that is not asleep goes on until it has released its buffer.

*The violated properties* state what the repository says of itself:

- `YieldsOwn` with two CPUs: `struct cpu` says of `proc` "The process running on this
  cpu or null" (`proc.h:10`); `MLFQ.c:76` sets it and nothing clears it. The Makefile
  starts qemu with one CPU unless `CPUS` is given (`Makefile:254`), which is run `policies`.
- `NoDeadlock`: "another concurrent link/unlink/create test, to look for deadlocks."
  (`usertests.c:855-856`). `create()` puts the directory with the new inode locked
  (`sysfile.c:280`) and `iput()` takes the directory's lock again (`fs.c:334`); an
  `unlink()` of the name that comes between holds the directory and waits for the inode.

## 4. Proofs

`ProcProofs` proves, for every NPROC, NCPU, MaxPid and set of channels
(`ProcAssumption`), that `Spec` implies `SwitchSafe`, `StackSafe`, `NoMissedExit` and
`ParentAlive`, which run `proc` checks, and besides `TypeOK`, `SchedAsserts` (no panic of
`sched()`) and `PidUnique`.
The argument is one induction. The properties are not inductive: that no stack is
run twice needs to know that a thread inside `sched()` holds the lock, which needs to
know what each slot's saved context is. `IInv` in `Proc` adds exactly that:

- `OnCPU`: a thread on a CPU is RUNNING, or inside `sched()` with its CPU holding
  the lock; a RUNNING thread is on a CPU;
- `SlotShape`: what the state of a slot says of its stack, its saved context and its
  place (a ZOMBIE is exactly a context that will never return);
- `ForkShape`: an EMBRYO under construction belongs to one thread, and how far it is;
- `InitLives`: init is never a zombie and has no parent, so there is somebody to
  hand children to;
- `PidShape`: pids in the table are below `nextpid`, and unique;
- `NoMissedExit` and `ParentAlive` themselves, which these make inductive.

`InitIInv` is the base. There is one lemma for each action or small group of actions,
with one step for each conjunct it can disturb; `NextIInv` combines them,
`Invariance` is `Spec => []IInv`, and the theorems on the single properties follow.
`TypeOK` contains the bound MaxPid, which the guard of `AllocProc` respects.

`PolicyProofs` proves three results about the priority scheduler, from `PBSAssumption`.
`PBSImplementsProc` (`PBSSpec => Spec`): every step of the kernel with PBS is a step
of `Proc` or leaves its variables alone, so that the theorems above hold in it.
`PBSPicksLeast`: the process switched to has the least priority of those RUNNABLE.
For the second the invariant `MinKnown` says that a scheduler holding `ptable.lock`
has a lower bound of the RUNNABLE priorities in `currMinPrio`. It is preserved
because no other step makes a process RUNNABLE while a scheduler has the lock
(`Harmless`), `set_priority()` takes the lock, and the one write of a priority without
it (`allocproc()`, after its release) goes to a slot that is EMBRYO by `ForkShape`.
That `getMinPrio()` returns a least element at all (`LeastExists`) is shown on a
smallest subset that has none.

`PBSWorkConserving` follows from the same invariant: a scan that starts with a RUNNABLE
process of priority at most 101 has a candidate.

`DispatchProofs`. `RRImplementsProc` and `FCFSImplementsProc` put the theorems of
`ProcProofs` into these two kernels. `WaitTimesAreSane`, on any number of CPUs: `FCFSInv`
says that the ticks charged to a slot fit between its `ctime` and now, and for a zombie
between `ctime` and `etime`; each tick is charged to a slot at most once, in one state. The
two others are about `NCPU = 1`, as the runs are. `FirstComeFirstServed` needs that ctime
grows with the pid although `allocproc()` takes the two apart: the only CPU does not leave
a `fork()` it has begun (`ForkOn`), so the slot that waits for its time has the last pid
(`LastPid`). `NoDoubleBypass`: `PassedWhere` says where the slots lie that were served
while p has been RUNNABLE, relative to p and to the loop variable, so that the next one
served cannot be among them.

`MLFQImplementsProc`, in `PolicyProofs` too, is the same refinement for the feedback queue.
`MLFQIsSound` and `PoliciesAreSound` assume one CPU (on two, run `mlfq_smp` shows
`YieldsOwn` to fail) and at most the five levels of the code: the prover knows no fact
about `2^n` for a symbolic n, so the slices are computed level by level (`FiveLevels`).
`MLFQInv` adds to `IInv` that a slot with a process has a level, that the slice of who runs
is at most that of its level and is used up only with a yield due, and that `c->proc` is who
runs.

The second half of `PolicyProofs` is about `Spinlock`, for any number of CPUs, threads and
device locks (`SpinlockAssumption` says only that CPUs, threads and "nobody" differ and that
`ptable.lock` is no device lock). `InterruptsRight` speaks of the state at an instant, but what
keeps it is what every stack has still to do. `LockInv` therefore types the steps before each
stack. Between two steps the stack is at a point (`LkPts`): the locks it holds, and how far it
is in an `acquire()`, a `release()` or the switch. `Link` says which steps lead from which
point to which, and the steps of a stack must be a path (`LkPath`) that ends without a lock.
Paths join (`PathsJoin`), so the body of a function is one because those of the functions it
calls are (`AcquireLeads`, `SleepLeads`, `YieldLeads`, ...), and an interrupt only puts a path
from no lock to no lock in front (`GoodInterrupt`). The rest of `LockInv` ties each CPU to the
point of the stack it is on:

- `FlagsGood`: `ncli` is the number of locks held, and one more inside `acquire()` or
  `release()`; FL_IF is off with `ncli > 0` or in a handler, and on otherwise in a thread;
  `intena` remembers which;
- `OwnsGood`: `lk->cpu` is the CPU for exactly the locks held, and `lk->locked` is set for
  these and the one being taken or released;
- `CPUsApart`: no two CPUs are on one stack, or at points that share a lock;
- `ActiveGood`, `WaitersGood`: a thread on a CPU is RUNNING but between its change of state
  and `sched()`; one on none waits in `sched()` with the right `intena` in its frame, or is new;
  a scheduler whose CPU is on a thread waits in its `swtch()`.

A new thread is the exception that `InterruptsRight` states: it takes over the `intena` of
whoever ran before (`Fk`). The points and the number of steps of a handler are found from
the state, as witnesses of an existential; on the instance of the run TLC computed them and
found the invariant to hold before it was proved. `StepXchg`, ..., `StepSwtchTo` take one
action each.

`PipeProofs`, for any readers, writers, PIPESIZE and counter width. `PInv` says who holds
which lock at which place, what `close` leaves, and why a thread may sleep: the pipe is as
it found it, or somebody on the other side is inside a call that ends with a wakeup, or
(the exception of section 6) a writer was killed. `NoWakeupIsLost` and `FreedIsUnused`
follow; for `PipeIsQueue` each step is shown to append to, take from or keep the content
of the ring. `PipeAssumption` says that the value for "nobody" is no thread, and that
PIPESIZE divides the counters' width and is not all of it.

`ProgramProofs`, for any number of threads, stages, slots and doses. `DriveInv`: at which
place of its loop a zone has slots, registered students and a list to work off, and that
the zones' lists and the students who wait are two views of one thing. The count a zone
reads without a lock is not in it, which is the point of `OneJabEach`. `ConcertInv`: who
has been woken for how many vacant stages, the performances open to singers, and the
names in the singers' queue, each that of a singer who has left. `ConcertAssumption` has the
groups of musicians disjoint, as a musician of `q3.c` has one instrument.

The same module has the file transfer, for any files, contents, arguments of `get` and CHUNK
(`TransferAssumption`: a file and a list of arguments are sequences, the value for "no
file" is not a file, each name is of a known kind and a link has a size). Its properties are
about the time before the first `fault`, and so is `TransferInv`. That is a real restriction:
section 6 has a trace of two calls of get after which both sides wait. What the theorems say
is that such a misreading, a size that is no length, a changed file and an `open()` that fails
are all that can go wrong: in particular the numbers of clients, of names and of chunks, the
clients that leave, and the portions the bytes come in do not matter.

- `ServerRight`: where the server is in its get, and what it knows of names and sizes there;
- `Left`: what is on its way to the server is what it expects next, even if the client that
  sent it has gone: the server serves the rest of its get to nobody and is then at the end
  of the stream;
- `Meet`: at which places client and server can be together. While files are sent, the
  acknowledgements on their way and those that the client still owes (`Owed`) are together
  those that the server has to read (`Due`), and after them comes at most the number of
  files of the next get; the bytes on their way are those of the file being sent between what
  the client has (`Got`) and what the server has sent (`StreamRight`).

Client and server count files separately, and the count of the acknowledgements ties the two
loop variables together: a client that waits for bytes has acknowledged less than the server
needs to go on to another file, so the bytes it reads are of the file it has open.
`FilesAreDelivered` and `AnswersCome` follow.

And it has the jobs of the shell (`JobsAreExact`), for any lines, processes and table, as long
as the table does not run over: `top < MaxTop` is a guard of the model, where the code only
hopes that 1000 entries are enough. `JobInv` adds to `JobsExact` that the child
`wait_n_switch()` is about is in the table, so that `remove_child()` finds it; and the pid of a
new child is in no entry, since the system gives a pid again only once it is reaped and every
way of reaping empties the entry. `ShrunkIs` is what the loop that lowers `top` leaves.

`StorageProofs`, under `LogFits` (fewer than MAXOPBLOCKS blocks to an operation, which is
what section 6 finds the code to need; MAXOPBLOCKS below LOGSIZE, as in `param.h`; a log on
the disk of LOGSIZE blocks, as `mkfs.c` makes it). The space argument is the heart of
`LogInv`: `Spare` is the set of the blocks that operations under way may still need, of the
MAXOPBLOCKS of each those that do not stand for a block it has logged, and the length of the
log and the size of `Spare` together stay within LOGSIZE, below it when one operation is
alone. Absorption makes room for two in one step, since one logged block can stand for a
block of several operations. `Contents` relates the disk, the log and the cache at each step
of a commit and of a recovery. `LogNeverPanics` and `GroupIsDurable` follow; `LogIsAtomic`
shows that only the write of the header changes what a recovery would produce, and that
it does so as a commit of `AtomicDisk` does.

The same module has the blocks of files, for any processes, files, sizes of disk, block and
inode, and image (`FileDataAssumption`: sizes are positive, an image fits the disk). What
holds between steps is `FDInv`:

- `OneOwner`: an inode's addresses, the words of its indirect block and the block a call has
  in hand are the places; each block in use is at one of them, and no other block at any.
  `OwnerTaken`, `OwnerEntered`, `OwnerFreed` and `OwnerAdded` are what balloc, the end of
  bmap, bfree and mkfs do to it, and nothing else touches it. It is also why a write is into
  no indirect block and no other file: `NoTable`, `BlockOfIs`;
- `NoHoles`: up to its size, and to what the call under way has written beyond it, a file has
  a block, as `writei()` refuses an offset beyond the size. So `readi()` never allocates, and
  a block in hand (`FreshRight`) is for a place that is empty;
- `TruncRight`: how far `itrunc()` is. The words of the indirect block stay where they are
  while their blocks are freed, so `Ref` counts those up to the loop variable out;
- `CacheRight`: the disk has the inode as the cache has it, unless the call that holds its lock
  has still to write it; otherwise an eviction would lose blocks;
- `ImageRight`: what mkfs has not given out is clear, as `iappend()` does not clear it.

`BlocksAreOwned` is a count of places from it. `FilesReadBack` needs more, `TextInv`: the
blocks of a file, up to what has been written (`Written`: the size lags behind until the end of
`writei()`), hold its text, and while mkfs runs what is left of its last block is clear, since
the size of the root is rounded up at the end. Each step writes to blocks that no other
file reads (`OthersKeep`), and to its own only the part it copies (`TextCopied`).

`DeviceProofs`. `BufInv`: `refcnt` is the number of processes that use the buffer, so one
at zero is nobody's and may be recycled; a block has one buffer; where the latest version of
a block is (in its valid buffer; on the disk too unless the buffer is dirty). It gives
`CacheIsCoherent` for any processes and blocks (`BufferCacheAssumption` has as many buffers
as can be in use at once, below which `bget()` panics by design). For the console a first
part is arithmetic of the three wrapping indices and of stretches of the ring that
`INPUT_BUF` divides; `RingRight` says that r, w, e are in this order within one ring and
that the line being typed holds no newline (so `^U` erases the line and no more), and three
lemmas say what typing, erasing and taking do to the two stretches. `ReadersAreServed` and
`ConsoleIsEditor` hold for every INPUT_BUF and every larger multiple of it as the width
of the indices.

`FilesProofs`, for any finite sets of processes, inodes and names (NPROC, ninodes and DIRSIZ
make them finite in the code, and without it a number of references would mean nothing) and
any files, descriptors and paths. `FInv` adds to the counts of references that `CountsRight`
states:

- `ShapeRight` and `LocksRight`: which of the pointers `ip`, `dp`, `old` and the argument of
  `iput()` a thread has at each place, and which sleep locks it holds there;
- `LinksRight`: `nlink` on the disk is at least the entries that name the inode, and the
  directories in it (each with a `..`), and the links a call has counted and not yet made, or
  removed and not yet discounted (`PendingOf`). It is more for the root, whose first link
  no entry stands for;
- `CoreRight`: valid fields are those of the disk, but for an inode between the write that
  frees it and `valid = 0`;
- `AliveRight`: what a pointer, an open file or the root points to is allocated;
- `FreeingRight`, `UnlinkRight`, `CreateRight`: what `iput()`, `sys_unlink()` and `create()`
  have found, and still rely on after they gave up the processor.

The references are counted field by field, since a step changes one field of one thread
(`CountChange`, `PointersCount`). The step that carries the weight is that of `iput()`: who
sees `ref = 1` and `nlink = 0` is the only one with a pointer to the inode, no entry names it,
so nobody can find it until the free is complete; the inode that `create()` takes is in the
same position until its entry is written. `FilesCountsRight`, `FilesFreesUnused`,
`FilesCoherent` and `FilesNoPanic` follow. The deadlock of run `files_deadlock` is consistent with
all of it: a lost system is not a wrong one.

Every inductive invariant was checked by TLC on the instance of its run before it was
proved.

Only model-checked: all liveness properties (`NoStarvation`, `SleepersWake`, `SleepersWoken`,
`RegisteredServed`, `AllGoHome`), out of the prover's reach with fairness and ENABLED;
`SortedAtEnd`, which rests on induction over arrays; `LinesRun`, as the parser of `Sh` uses
recursive operators; `MemoryRight` of `VM` and `UserHeap`; and the shell's `DescriptorsRight`,
which holds only while the descriptors saved by failed pipelines leave some free.

## 5. Plan

Done: every component of section 1 has its module, as far as section 6 goes, and the
schedulers, the process table, the pipe, the log, the blocks of files, the inodes and open
files, the buffer cache, the console, the spin locks, the two threaded programs, the file
transfer and the shell's jobs have their theorems. Next:

1. `UserHeap` and `VM`: their parts of `MemoryRight`.

Small pieces of model left: `.` and `..`, chdir, mknod and fstat in `Files`, and the
offsets that descriptors share.

## 6. Not modelled, and observations

Boot, interrupt controllers, UART, keyboard tables and the set-up of the kernel's page
table are straight-line register access with no protocol between actors. The xv6 user
programs, `usertests.c` among them, are clients of the system calls, and appear as the
free programs of the models. `procdump()`, `get_ps()`, `cps()` and the output of the
console only print. In the shell of assignment 3 the history file, `ls`, `cd`, `pwd` and
the commands that only show something keep no shared state. The file reversal of
Assignment 1 is one sequential loop. Assignment 2 holds scripts and a report.

Seen while modelling, and not the subject of a run:

- `kill()` never looks at the state of a slot (`proc.c:449`): `kill(0)`, or the pid of
  a failed fork, marks an UNUSED slot, `allocproc()` does not clear `killed`, and the
  next process of that slot exits at its first trap.
- `iotime` is charged only to `myproc()` in state SLEEPING, which the interrupt cannot
  meet (`RR.c:104`), so it is always 0; the comment above it says so.
- `getMinPrio()` starts from 101 (`PBS.c:40`) and `set_priority()` checks no bound: a
  process of a higher priority number is never chosen. `WorkConserving` is stated up to it.
- A killed writer that finds the pipe full returns without waking the readers
  (`pipe.c:88`); the bytes it has written wait for the next writer or the close.
  `NoLostWakeup` makes that exception explicitly.
- `q2.c:430` clears `students[i]` in a loop over `j`, so the rest of a zone's array is
  read as malloc() left it (zero, on a fresh heap).
- `piperead()` tests `killed` under `p->lock` (`pipe.c:108`), `kill()` sets it under
  `ptable.lock`: a kill between the test and the sleep leaves the killed reader asleep
  until somebody writes or closes, although `kill()` is to "Wake process from sleep if
  necessary" (`proc.c:451`).
- `begin_op()` reserves up to LOGSIZE blocks (`log.c:132`) while the on-disk log has
  LOGSIZE - 1 beside its header, so operations that write MAXOPBLOCKS blocks each
  could panic in `log_write()`. `filewrite()` stays below, as run `storage` does.
- Two concurrent `iput()` of an inode without links both read a count of 2
  (`fs.c:337`) and neither frees it: it stays allocated for ever, although "If that was
  the last reference and the inode has no links to it, free the inode" (`fs.c:327`).
- A name made in a directory that is being removed is lost with it, and its inode
  stays allocated: `create()` and `dirlink()` do not look at `dp->nlink`.
- `link(x, "d/.")` waits for itself: `dirlink()` finds "." and its `iput()` takes the
  lock of the directory that `sys_link()` holds. Paths in `Files` have no ".".
- `vaccineUsed` is not reset between rounds (`q2.c:175`): in a second round of as many
  batches the company resumes at once, in one of fewer it never does, although it
  "Resumes when all its vaccines are used by the zone" (`q2.c:137`).
- A singer's thread is over once it has signalled (`q3.c:319`), and
  `performanceNoSigner` falls only when the performer has the lock again: a second
  singer, or one who comes just after the performer's time has run out, joins nobody.
  Its name stays in the queue and is given to the performer of the next singer. With
  six singers such joins can also use up all wakeups, and a singer waits for its
  whole time next to a free stage.
- A new thread comes to the `release()` of `forkret()` with the `intena` of whoever was on
  the CPU before (`proc.c:366`), so it may run with interrupts off until user space.
- The driver checks the status of a read and ignores an error (`ide.c:118`): the buffer is
  then valid with whatever it held.
- `mkfs.c` rounds the size of the root directory up to a block after its entries are
  written; when they end at a block boundary the last block has a size and no address.
- `malloc()` computes its units with a sum that wraps for sizes near 2^32, and a
  process that shrinks to exactly nothing is told of failure, as `allocuvm()` and
  `deallocuvm()` return sizes and 0 alike (`proc.c` growproc).
- In `sh.c` the first of two redirections of the same descriptor wins (`a >x >y` writes
  x), `>>` does not append, and `a & b` is a syntax error without a `;`.
- The shell of assignment 3 waits for each stage of a foreground pipeline before it
  starts the next (`process_maker.c:224`), so a stage that fills its pipe never ends; it
  gives the terminal to a process group that the child may not have made yet
  (`process_maker.c:154`); its table of 1000 jobs has no bound check
  (`process_maker.c:138`); a stage of redirections only reads a token that was never set;
  a failed `pipe()` leaves copies of descriptors open; and the history keeps 21 lines where its README says
  that it "stores upto 20".
- `getFile()` opens without O_TRUNC, so an older and longer file keeps its end. A file
  that disappears after `lstat()` (`server.c:77`) makes the client take the next file's
  bytes for it; a file that shrinks, or a peer that closes, leaves a loop spinning; a
  partial `write()` trips an assert (`header.c:107`); and a string that arrives in two
  parts is taken for two (`header.c:49`).
- `sendString()` sends no 0 (`header.c:63`) and `getString()` puts none behind what it has
  read (`header.c:49`), into a buffer that may be that of a name freed before
  (`server.c:105`). `get a1` twice: the second count, "1", is read over "a1" and is 11, the
  server waits for ten more names and the client for a size. And a shorter name read over a
  longer one is another file. Both are behaviours of `Transfer`: without the misreadings in
  `fault`, TLC finds `NeverBothWait` and `Delivered` violated in two calls of get.
- The mask `S_IFREG & st_mode` (`server.c:78`) is not zero for links and sockets either. The
  `st_size` of a link is not the length that `sendFile()` then sends; a socket cannot be
  opened, and a link to a directory not read, but the client has been told a size.
  `Delivered` and `NeverBothWait` hold where nothing of this, and nothing of the item before,
  happens.
- `uva2ka()` does not look whether `walkpgdir()` found a page table (`vm.c:354-355`). With a
  stack pointer that wrapped, `exec()` would read the entry through a null pointer; `VM` has
  the copy fail there.
- `checkArr()` of `q1.c` compares the first item with the one before the array.
- The instance of the concert has no musician who plays on the electric stage only; one
  that plays on either takes both.

--------------------------------- MODULE Log --------------------------------
(***************************************************************************)
(* The file system's write-ahead log (log.c), with crashes.                *)
(*                                                                         *)
(* Processes bracket file system operations with begin_op() and end_op();  *)
(* the last end_op() commits for all of them.  The disk is the home        *)
(* blocks, the log blocks and the header block, each written atomically by *)
(* bwrite().  A crash loses everything else; the next boot runs            *)
(* recover_from_log() before any operation.                                *)
(*                                                                         *)
(* Grain.  A critical section of log.lock is one step (sleep() inside one  *)
(* releases it atomically: see Pipe).  log_write() is two: it looks at the *)
(* log size before it takes the lock.  Every disk write is a step.         *)
(***************************************************************************)
EXTENDS Naturals, Sequences, FiniteSets

CONSTANTS
    Procs,          \* processes that run file system operations
    Blocks,         \* home blocks
    Vals,           \* contents of a block
    LOGSIZE,        \* entries of the log header, block[LOGSIZE]
    Size,           \* log.size: blocks of the on-disk log, header included
    MAXOPBLOCKS,    \* what begin_op() reserves per operation
    OpBlocks        \* distinct blocks an operation really writes, at most

ASSUME LogAssumption ==
    /\ LOGSIZE \in Nat
    /\ Size \in Nat \ {0}
    /\ MAXOPBLOCKS \in Nat \ {0}
    /\ OpBlocks \in 0..MAXOPBLOCKS

VARIABLES
    home,           \* disk: the home blocks
    logd,           \* disk: the data blocks of the log
    head,           \* disk: the header block, as the sequence block[0..n-1]
    cache,          \* memory: the blocks as bread() returns them
    lh,             \* memory: log.lh, as a sequence
    outstanding,    \* memory: log.outstanding
    committing,     \* memory: log.committing
    pc,             \* where each process is
    wrote,          \* the blocks its operation has written
    buf,            \* the buffer a process is about to log, or NoBlock
    step,           \* where commit() or recover_from_log() is
    tail            \* the loop variable of write_log() and install_trans()

disk == <<home, logd, head>>
vars == <<disk, cache, lh, outstanding, committing, pc, wrote, buf, step, tail>>

NoBlock == 0
InLog == 1..(Size - 1)
Places == {"idle", "begin", "asleep", "op", "log", "commit", "down", "panic"}
Steps == {"none", "log", "install", "end", "read", "replay", "boot"}

BlockSeq(s) == s \in Seq(Blocks) /\ Len(s) <= LOGSIZE

TypeOK ==
    /\ home \in [Blocks -> Vals]
    /\ logd \in [InLog -> Vals]
    /\ BlockSeq(head)
    /\ cache \in [Blocks -> Vals]
    /\ BlockSeq(lh)
    /\ outstanding \in 0..Cardinality(Procs)
    /\ committing \in BOOLEAN
    /\ pc \in [Procs -> Places]
    /\ wrote \in [Procs -> SUBSET Blocks]
    /\ buf \in [Procs -> Blocks \cup {NoBlock}]
    /\ step \in Steps
    /\ tail \in 0..LOGSIZE

\* A disk made by mkfs, its log empty, after the first boot.
Init ==
    /\ home \in [Blocks -> Vals]
    /\ logd \in [InLog -> Vals]
    /\ head = <<>>
    /\ cache = home
    /\ lh = <<>>
    /\ outstanding = 0
    /\ committing = FALSE
    /\ pc = [p \in Procs |-> "idle"]
    /\ wrote = [p \in Procs |-> {}]
    /\ buf = [p \in Procs |-> NoBlock]
    /\ step = "none"
    /\ tail = 0

Goto(p, place) == pc' = [pc EXCEPT ![p] = place]

\* Mutant: no wakeup.
WokenNone == pc

\* wakeup(&log)
Woken == [p \in Procs |-> IF pc[p] = "asleep" THEN "begin" ELSE pc[p]]

-----------------------------------------------------------------------------
(* begin_op(), log_write() and end_op().                                   *)

Call(p) ==
    /\ pc[p] = "idle"
    /\ Goto(p, "begin")
    /\ UNCHANGED <<disk, cache, lh, outstanding, committing, wrote, buf, step,
                   tail>>

\* Mutant: the blocks already in the log are forgotten.
NoSpaceFresh == (outstanding + 1) * MAXOPBLOCKS > LOGSIZE

\* "this op might exhaust log space"
NoSpace == Len(lh) + (outstanding + 1) * MAXOPBLOCKS > LOGSIZE

\* One turn of begin_op()'s loop.
BeginOp(p) ==
    /\ pc[p] = "begin"
    /\ IF committing \/ NoSpace
       THEN Goto(p, "asleep") /\ UNCHANGED outstanding
       ELSE Goto(p, "op") /\ outstanding' = outstanding + 1
    /\ UNCHANGED <<disk, cache, lh, committing, wrote, buf, step, tail>>

\* "too big a transaction": one block of the on-disk log is the header.
TooBig == Len(lh) >= LOGSIZE \/ Len(lh) >= Size - 1

\* The operation changes a buffer, whose sleep-lock it holds, and calls
\* log_write(), which first looks at the size of the log, without the lock.
LogCheck(p, b, v) ==
    /\ pc[p] = "op"
    /\ Cardinality(wrote[p] \cup {b}) <= OpBlocks
    /\ \A q \in Procs : buf[q] # b
    /\ cache' = [cache EXCEPT ![b] = v]
    /\ wrote' = [wrote EXCEPT ![p] = @ \cup {b}]
    /\ buf' = [buf EXCEPT ![p] = b]
    /\ Goto(p, IF TooBig \/ outstanding < 1 THEN "panic" ELSE "log")
    /\ UNCHANGED <<disk, lh, outstanding, committing, step, tail>>

\* Mutant: log.lh.n is not incremented.
AbsorbedAlways(b) == lh

\* The block is appended unless the log has it ("log absorbtion").
Absorbed(b) ==
    IF \E k \in 1..Len(lh) : lh[k] = b THEN lh ELSE Append(lh, b)

\* The rest of log_write(), under log.lock.
LogAppend(p) ==
    /\ pc[p] = "log"
    /\ lh' = Absorbed(buf[p])
    /\ buf' = [buf EXCEPT ![p] = NoBlock]
    /\ Goto(p, "op")
    /\ UNCHANGED <<disk, cache, outstanding, committing, wrote, step, tail>>

\* end_op(), up to its first release().
EndOp(p) ==
    /\ pc[p] = "op"
    /\ outstanding' = outstanding - 1
    /\ wrote' = [wrote EXCEPT ![p] = {}]
    /\ IF committing
       THEN Goto(p, "panic") /\ UNCHANGED <<committing, step, tail>>
       ELSE IF outstanding = 1
       THEN /\ committing' = TRUE
            /\ Goto(p, "commit")
            /\ step' = IF lh = <<>> THEN "end" ELSE "log"
            /\ tail' = 0
       ELSE /\ pc' = [Woken EXCEPT ![p] = "idle"]
            /\ UNCHANGED <<committing, step, tail>>
    /\ UNCHANGED <<disk, cache, lh, buf>>

-----------------------------------------------------------------------------
(* commit(), by the process of the last end_op().                          *)

WriteLog ==
    /\ step = "log"
    /\ tail < Len(lh)
    /\ logd' = [logd EXCEPT ![tail + 1] = cache[lh[tail + 1]]]
    /\ tail' = tail + 1
    /\ UNCHANGED <<home, head, cache, lh, outstanding, committing, pc, wrote,
                   buf, step>>

\* Mutant: the header is written before the log blocks are.
WriteHeadEarly ==
    /\ step = "log"
    /\ tail < Len(lh)
    /\ head' = lh
    /\ step' = "install"
    /\ tail' = 0
    /\ UNCHANGED <<home, logd, cache, lh, outstanding, committing, pc, wrote,
                   buf>>

\* "Write header to disk -- the real commit"
WriteHead ==
    /\ step = "log"
    /\ tail = Len(lh)
    /\ head' = lh
    /\ step' = "install"
    /\ tail' = 0
    /\ UNCHANGED <<home, logd, cache, lh, outstanding, committing, pc, wrote,
                   buf>>

Install ==
    /\ step \in {"install", "replay"}
    /\ tail < Len(lh)
    /\ home' = [home EXCEPT ![lh[tail + 1]] = logd[tail + 1]]
    /\ tail' = tail + 1
    /\ UNCHANGED <<logd, head, cache, lh, outstanding, committing, pc, wrote,
                   buf, step>>

\* "Erase the transaction from the log", at the end of a commit or of the
\* recovery.
EraseHead ==
    /\ step \in {"install", "replay"}
    /\ tail = Len(lh)
    /\ head' = <<>>
    /\ lh' = <<>>
    /\ step' = IF step = "install" THEN "end" ELSE "boot"
    /\ tail' = 0
    /\ UNCHANGED <<home, logd, cache, outstanding, committing, pc, wrote, buf>>

\* The end of end_op(): committing = 0 and wakeup(&log).
CommitEnd(p) ==
    /\ pc[p] = "commit"
    /\ step = "end"
    /\ committing' = FALSE
    /\ pc' = [Woken EXCEPT ![p] = "idle"]
    /\ step' = "none"
    /\ UNCHANGED <<disk, cache, lh, outstanding, wrote, buf, tail>>

-----------------------------------------------------------------------------
(* Crash and boot.                                                         *)

\* Memory is lost at any moment, during recovery too.
Crash ==
    /\ pc' = [p \in Procs |-> "down"]
    /\ lh' = <<>>
    /\ outstanding' = 0
    /\ committing' = FALSE
    /\ wrote' = [p \in Procs |-> {}]
    /\ buf' = [p \in Procs |-> NoBlock]
    /\ step' = "read"
    /\ tail' = 0
    /\ UNCHANGED <<disk, cache>>

\* initlog(): read_head().
ReadHead ==
    /\ step = "read"
    /\ lh' = head
    /\ step' = "replay"
    /\ UNCHANGED <<disk, cache, outstanding, committing, pc, wrote, buf, tail>>

\* The log is empty and the buffers are read from the disk on demand.
Boot ==
    /\ step = "boot"
    /\ cache' = home
    /\ pc' = [p \in Procs |-> "idle"]
    /\ step' = "none"
    /\ UNCHANGED <<disk, lh, outstanding, committing, wrote, buf, tail>>

-----------------------------------------------------------------------------
CommitSteps == WriteLog \/ WriteHead \/ Install \/ EraseHead

Proc(p) ==
    \/ BeginOp(p)
    \/ LogAppend(p)
    \/ EndOp(p)
    \/ CommitEnd(p)

Next ==
    \/ \E p \in Procs :
        \/ Call(p)
        \/ Proc(p)
        \/ \E b \in Blocks, v \in Vals : LogCheck(p, b, v)
    \/ CommitSteps
    \/ Crash
    \/ ReadHead
    \/ Boot

Spec == Init /\ [][Next]_vars

\* The disk answers, a process that is not asleep gets the CPU and the lock,
\* and an operation comes to its end_op().  Calls and crashes need not happen.
Fairness ==
    /\ WF_vars(CommitSteps)
    /\ WF_vars(ReadHead \/ Boot)
    /\ \A p \in Procs : SF_vars(EndOp(p)) /\ WF_vars(Proc(p))

FairSpec == Spec /\ Fairness

-----------------------------------------------------------------------------
\* What the next boot will find in the home blocks.
Recovered ==
    [b \in Blocks |->
        IF \E k \in 1..Len(head) : head[k] = b
        THEN logd[CHOOSE k \in 1..Len(head) : head[k] = b]
        ELSE home[b]]

Disk == INSTANCE AtomicDisk
            WITH mem <- IF step \in {"read", "replay", "boot"} THEN Recovered
                        ELSE cache,
                 durable <- Recovered,
                 active <- {p \in Procs : pc[p] \in {"op", "log", "panic"}},
                 Op <- Procs, Block <- Blocks, Val <- Vals

\* Operations are atomic across crashes: whenever the machine stops, in the
\* middle of commit() or of the recovery itself, the next boot finds all the
\* writes of an operation or none.
CrashAtomic == Disk!DSpec

\* When the last end_op() has returned, all its group has written is durable.
DurableAfterEnd ==
    step = "none" /\ outstanding = 0 => Recovered = cache

\* The panics of log_write() and end_op() do not fire: the space begin_op()
\* reserves is enough for operations that write fewer than MAXOPBLOCKS blocks,
\* although log_write() looks at the size before it takes the lock.
NoPanic == \A p \in Procs : pc[p] # "panic"

\* Nobody sleeps in begin_op() for ever: each wait for a commit or for space
\* is ended by a wakeup.
SleepersWake == \A p \in Procs : pc[p] = "asleep" ~> pc[p] # "asleep"
=============================================================================

----------------------------- MODULE BufferCache -----------------------------
(***************************************************************************)
(* The buffer cache (bio.c), its sleep locks (sleeplock.c) and the IDE     *)
(* driver (ide.c).                                                         *)
(*                                                                         *)
(* A step is what a process does under one spin lock: bcache.lock, the     *)
(* lock inside a sleep lock, or idelock.  sleep() gives the spin lock up   *)
(* and sleeps without a gap (shown for its code in module Pipe), so a      *)
(* sleeper is a place a wakeup takes the process from.  A block's contents *)
(* are a version number; latest is what was last stored in a buffer of it. *)
(* The disk takes the data of a write when the request is started and      *)
(* gives that of a read when it is done; it makes no errors.               *)
(***************************************************************************)
EXTENDS Integers, Sequences, FiniteSets

LOCAL INSTANCE Functions

CONSTANTS
    BufProcs, Blocks, NBUF,
    Stored,             \* the blocks that are written to, of those read
    MaxStores,          \* bound on the stores
    MaxPinned,          \* blocks in the log and not yet installed
    Nobody, NoBlock

Bufs == 1..NBUF

ASSUME BufferCacheAssumption ==
    /\ Nobody \notin BufProcs /\ NoBlock \notin Blocks
    /\ Stored \subseteq Blocks
    /\ NBUF \in Nat
    /\ NBUF >= Cardinality(BufProcs) + MaxPinned   \* "bget: no buffers"

VARIABLES
    buf,                \* [block, valid, dirty, refcnt, data]
    lru,                \* the list from bcache.head.next on
    locked,             \* who holds the sleep lock of a buffer
    idequeue, busy,     \* the requests, and whether the disk works on one
    diskData,
    bpc, has, wants,    \* where a process is, its buffer, its block
    latest

bufVars == <<buf, lru, locked, idequeue, busy, diskData, bpc, has, wants,
             latest>>
requestVars == <<idequeue, busy, diskData>>

\* binit(): every buffer is put in front of the one before.
BufInit ==
    /\ buf = [b \in Bufs |-> [block |-> NoBlock, valid |-> FALSE,
                              dirty |-> FALSE, refcnt |-> 0, data |-> 0]]
    /\ lru = [i \in Bufs |-> NBUF + 1 - i]
    /\ locked = [b \in Bufs |-> Nobody]
    /\ idequeue = <<>> /\ busy = FALSE
    /\ diskData = [k \in Blocks |-> 0]
    /\ bpc = [p \in BufProcs |-> "idle"]
    /\ has = [p \in BufProcs |-> 0]
    /\ wants = [p \in BufProcs |-> NoBlock]
    /\ latest = [k \in Blocks |-> 0]

\* wakeup() of those who wait at place from for buffer b.
WokenFor(from, to, b) ==
    [p \in BufProcs |-> IF bpc[p] = from /\ has[p] = b THEN to ELSE bpc[p]]

Cached(k) == {b \in Bufs : buf[b].block = k}

\* Mutant: a dirty buffer is recycled although the log still needs it.
RecyclableDirty(b) == buf[b].refcnt = 0

Recyclable(b) == buf[b].refcnt = 0 /\ ~buf[b].dirty

\* bget() of a block in the cache.
BgetHit(p, k) ==
    /\ bpc[p] = "idle"
    /\ \E b \in Cached(k) :
        /\ buf' = [buf EXCEPT ![b].refcnt = @ + 1]
        /\ has' = [has EXCEPT ![p] = b]
    /\ wants' = [wants EXCEPT ![p] = k]
    /\ bpc' = [bpc EXCEPT ![p] = "lock"]
    /\ UNCHANGED <<lru, locked, requestVars, latest>>

\* bget() of another: the last of the list that can be recycled.
BgetMiss(p, k) ==
    /\ bpc[p] = "idle"
    /\ Cached(k) = {}
    /\ \E i \in 1..NBUF :
        /\ Recyclable(lru[i])
        /\ \A j \in (i + 1)..NBUF : ~Recyclable(lru[j])
        /\ buf' = [buf EXCEPT ![lru[i]] = [block |-> k, valid |-> FALSE,
                        dirty |-> FALSE, refcnt |-> 1, data |-> @.data]]
        /\ has' = [has EXCEPT ![p] = lru[i]]
    /\ wants' = [wants EXCEPT ![p] = k]
    /\ bpc' = [bpc EXCEPT ![p] = "lock"]
    /\ UNCHANGED <<lru, locked, requestVars, latest>>

\* acquiresleep(); then bread() looks at B_VALID, which only a holder sets.
AcquireSleep(p) ==
    LET b == has[p] IN
    /\ bpc[p] = "lock"
    /\ \/ /\ locked[b] # Nobody
          /\ bpc' = [bpc EXCEPT ![p] = "locksleep"]
          /\ UNCHANGED locked
       \/ /\ locked[b] = Nobody
          /\ locked' = [locked EXCEPT ![b] = p]
          /\ bpc' = [bpc EXCEPT ![p] = IF buf[b].valid THEN "holds" ELSE "rw"]
    /\ UNCHANGED <<buf, lru, requestVars, has, wants, latest>>

\* idestart(): the data of a write go to the disk.
Started(b) ==
    /\ busy' = TRUE
    /\ diskData' = IF buf[b].dirty
                   THEN [diskData EXCEPT ![buf[b].block] = buf[b].data]
                   ELSE diskData

\* iderw(): the request is queued, and started if it is the first.
Iderw(p) ==
    LET b == has[p] IN
    /\ bpc[p] = "rw"
    /\ idequeue' = Append(idequeue, b)
    /\ IF idequeue = <<>> THEN Started(b) ELSE UNCHANGED <<busy, diskData>>
    /\ bpc' = [bpc EXCEPT ![p] = "iosleep"]
    /\ UNCHANGED <<buf, lru, locked, has, wants, latest>>

\* iderw() after a wakeup.
IderwWoken(p) ==
    LET f == buf[has[p]] IN
    /\ bpc[p] = "iowoken"
    /\ bpc' = [bpc EXCEPT ![p] = IF f.valid /\ ~f.dirty THEN "holds"
                                 ELSE "iosleep"]
    /\ UNCHANGED <<buf, lru, locked, requestVars, has, wants, latest>>

\* Mutant: the interrupt leaves the next request for the next iderw().
StartNextNever(queue) == busy' = FALSE /\ UNCHANGED diskData

StartNext(queue) ==
    IF queue # <<>> THEN Started(Head(queue))
    ELSE busy' = FALSE /\ UNCHANGED diskData

Ideintr ==
    LET b == Head(idequeue) IN
    /\ busy
    /\ idequeue' = Tail(idequeue)
    /\ buf' = [buf EXCEPT ![b].data = IF buf[b].dirty THEN @
                                      ELSE diskData[buf[b].block],
                          ![b].valid = TRUE,
                          ![b].dirty = FALSE]
    /\ bpc' = WokenFor("iosleep", "iowoken", b)
    /\ StartNext(Tail(idequeue))
    /\ UNCHANGED <<lru, locked, has, wants, latest>>

CanStore(k) == k \in Stored /\ SumFunction(latest) < MaxStores

\* The holder stores in the buffer, and bwrite() writes it ...
Bwrite(p) ==
    LET b == has[p] IN
    /\ bpc[p] = "holds"
    /\ CanStore(wants[p])
    /\ latest' = [latest EXCEPT ![wants[p]] = @ + 1]
    /\ buf' = [buf EXCEPT ![b].data = latest'[wants[p]], ![b].dirty = TRUE]
    /\ bpc' = [bpc EXCEPT ![p] = "rw"]
    /\ UNCHANGED <<lru, locked, requestVars, has, wants>>

\* ... or log_write() pins it in the cache until the commit ...
LogWrite(p) ==
    LET b == has[p] IN
    /\ bpc[p] = "holds"
    /\ CanStore(wants[p])
    /\ Cardinality({c \in Bufs : buf[c].dirty /\ c # b}) < MaxPinned
    /\ latest' = [latest EXCEPT ![wants[p]] = @ + 1]
    /\ buf' = [buf EXCEPT ![b].data = latest'[wants[p]], ![b].dirty = TRUE]
    /\ UNCHANGED <<lru, locked, requestVars, bpc, has, wants>>

\* ... where install_trans() writes it.
InstallTrans(p) ==
    /\ bpc[p] = "holds" /\ buf[has[p]].dirty
    /\ bpc' = [bpc EXCEPT ![p] = "rw"]
    /\ UNCHANGED <<buf, lru, locked, requestVars, has, wants, latest>>

\* brelse(): releasesleep() ...
BrelseUnlock(p) ==
    LET b == has[p] IN
    /\ bpc[p] = "holds"
    /\ locked' = [locked EXCEPT ![b] = Nobody]
    /\ bpc' = [WokenFor("locksleep", "lock", b) EXCEPT ![p] = "unlocked"]
    /\ UNCHANGED <<buf, lru, requestVars, has, wants, latest>>

\* The list with b taken out of it and put in front.
MovedToFront(b) ==
    LET at == CHOOSE i \in Bufs : lru[i] = b IN
    [i \in Bufs |-> IF i = 1 THEN b ELSE IF i <= at THEN lru[i - 1] ELSE lru[i]]

\* ... and, under bcache.lock, the count and the list.
BrelseCount(p) ==
    LET b == has[p] IN
    /\ bpc[p] = "unlocked"
    /\ buf' = [buf EXCEPT ![b].refcnt = @ - 1]
    /\ lru' = IF buf[b].refcnt = 1 THEN MovedToFront(b) ELSE lru
    /\ bpc' = [bpc EXCEPT ![p] = "idle"]
    /\ has' = [has EXCEPT ![p] = 0]
    /\ wants' = [wants EXCEPT ![p] = NoBlock]
    /\ UNCHANGED <<locked, requestVars, latest>>

BufStep(p) ==
    \/ AcquireSleep(p) \/ Iderw(p) \/ IderwWoken(p)
    \/ BrelseUnlock(p) \/ BrelseCount(p)

BufNext ==
    \/ Ideintr
    \/ \E p \in BufProcs :
        \/ \E k \in Blocks : BgetHit(p, k) \/ BgetMiss(p, k)
        \/ BufStep(p)
        \/ Bwrite(p) \/ LogWrite(p) \/ InstallTrans(p)

\* The disk interrupts, and a process that is not asleep goes on to brelse().
BufFairness ==
    /\ WF_bufVars(Ideintr)
    /\ \A p \in BufProcs : WF_bufVars(BufStep(p))

-----------------------------------------------------------------------------
\* bread() returns what was last stored in the block, by whatever process, and
\* however often the buffer was recycled since: a block has one buffer, and a
\* block without one is on the disk in its latest version.
CacheCoherent ==
    /\ \A k \in Blocks : Cardinality(Cached(k)) <= 1
    /\ \A p \in BufProcs : bpc[p] = "holds" =>
        /\ locked[has[p]] = p
        /\ buf[has[p]].block = wants[p]
        /\ buf[has[p]].data = latest[wants[p]]
    /\ \A k \in Blocks : Cached(k) = {} => diskData[k] = latest[k]

\* Whoever sleeps in acquiresleep() or in iderw() is woken: the queue of the
\* disk never stalls and no release of a buffer misses a waiter.
SleepersWoken ==
    \A p \in BufProcs :
        bpc[p] \in {"locksleep", "iosleep"} ~>
            bpc[p] \notin {"locksleep", "iosleep"}
=============================================================================

---------------------------- MODULE DeviceProofs -----------------------------
(***************************************************************************)
(* Theorems about the devices: the buffer cache with the IDE driver        *)
(* (module BufferCache) and the console input (module Console), both as    *)
(* module MCDevices runs them.                                             *)
(***************************************************************************)
EXTENDS MCDevices, FiniteSetTheorems, SequenceTheorems, TLAPS

-----------------------------------------------------------------------------
(* The buffer cache: the inductive invariant.                              *)

BufPlaces ==
    {"idle", "lock", "locksleep", "rw", "iosleep", "iowoken", "holds", "unlocked"}
Owns == {"rw", "iosleep", "iowoken", "holds"}

Buffer == [block : Blocks \cup {NoBlock}, valid : BOOLEAN, dirty : BOOLEAN,
           refcnt : Int, data : Nat]

BufTypes ==
    /\ buf \in [Bufs -> Buffer]
    /\ lru \in [Bufs -> Bufs]
    /\ locked \in [Bufs -> BufProcs \cup {Nobody}]
    /\ idequeue \in Seq(Bufs) /\ busy \in BOOLEAN
    /\ diskData \in [Blocks -> Nat] /\ latest \in [Blocks -> Nat]
    /\ bpc \in [BufProcs -> BufPlaces]
    /\ has \in [BufProcs -> Bufs \cup {0}]
    /\ wants \in [BufProcs -> Blocks \cup {NoBlock}]

\* What a process has at each place of its way through bread() and brelse().
UsersRight ==
    \A p \in BufProcs :
        /\ bpc[p] = "idle" => has[p] = 0
        /\ bpc[p] # "idle" =>
            /\ has[p] \in Bufs /\ wants[p] \in Blocks
            /\ buf[has[p]].block = wants[p]
        /\ bpc[p] \in Owns => locked[has[p]] = p
        /\ bpc[p] = "holds" => buf[has[p]].valid
        /\ bpc[p] = "iowoken" => buf[has[p]].valid /\ ~buf[has[p]].dirty

\* Those who use buffer b, by the has of every process.
Users(h, b) == {p \in BufProcs : h[p] = b}

\* The count of a buffer is right, so one at zero is nobody's.
CountsRight ==
    \A b \in Bufs : /\ IsFiniteSet(Users(has, b))
                    /\ buf[b].refcnt = Cardinality(Users(has, b))

\* A block has one buffer.
OneBuffer ==
    \A b, c \in Bufs :
        buf[b].block = buf[c].block /\ buf[b].block # NoBlock => b = c

\* Where the latest version of a block is: in its buffer, once that is valid;
\* on the disk too, unless the buffer is dirty; on the disk, without a buffer.
CopiesRight ==
    /\ \A b \in Bufs :
        /\ buf[b].dirty => buf[b].valid /\ buf[b].block \in Blocks
        /\ buf[b].block \in Blocks =>
            /\ buf[b].valid => buf[b].data = latest[buf[b].block]
            /\ ~buf[b].dirty => diskData[buf[b].block] = latest[buf[b].block]
    /\ \A k \in Blocks :
        (\A b \in Bufs : buf[b].block # k) => diskData[k] = latest[k]

\* The queue of the disk holds the buffers of those who sleep in iderw(), each
\* once, and what the disk works on is already written.
QueueRight ==
    /\ busy <=> idequeue # <<>>
    /\ \A i, j \in 1..Len(idequeue) : idequeue[i] = idequeue[j] => i = j
    /\ \A i \in 1..Len(idequeue) :
        \E p \in BufProcs : bpc[p] = "iosleep" /\ has[p] = idequeue[i]
    /\ busy /\ buf[idequeue[1]].dirty =>
            diskData[buf[idequeue[1]].block] = latest[buf[idequeue[1]].block]

BufInv ==
    BufTypes /\ UsersRight /\ CountsRight /\ OneBuffer /\ CopiesRight /\ QueueRight

-----------------------------------------------------------------------------
(* The buffer cache: every step keeps the invariant.                       *)

LEMMA CardEqual ==
    ASSUME NEW S, NEW T, S = T
    PROVE  /\ Cardinality(S) = Cardinality(T)
           /\ IsFiniteSet(S) <=> IsFiniteSet(T)
BY Zenon

\* A process that uses another buffer than before, from none to b ...
LEMMA UsersMore ==
    ASSUME NEW h, NEW p \in BufProcs, h[p] = 0, NEW b \in Bufs, NEW g,
           g[p] = b, \A q \in BufProcs \ {p} : g[q] = h[q],
           NEW c \in Bufs, IsFiniteSet(Users(h, c))
    PROVE  /\ IsFiniteSet(Users(g, c))
           /\ Cardinality(Users(g, c)) =
                  IF c = b THEN Cardinality(Users(h, c)) + 1
                  ELSE Cardinality(Users(h, c))
<1>1. CASE c = b
  <2>1. Users(g, c) = Users(h, c) \cup {p} /\ p \notin Users(h, c)
    BY <1>1 DEF Users, Bufs
  <2>2. /\ IsFiniteSet(Users(h, c) \cup {p})
        /\ Cardinality(Users(h, c) \cup {p}) = Cardinality(Users(h, c)) + 1
    BY <2>1, FS_AddElement
  <2> QED
    BY <1>1, <2>1, <2>2, CardEqual
<1>2. CASE c # b
  <2>1. Users(g, c) = Users(h, c)
    BY <1>2 DEF Users, Bufs
  <2> QED
    BY <1>2, <2>1, CardEqual
<1> QED
    BY <1>1, <1>2

\* ... and back.
LEMMA UsersLess ==
    ASSUME NEW h, NEW p \in BufProcs, NEW b \in Bufs, h[p] = b, NEW g,
           g[p] = 0, \A q \in BufProcs \ {p} : g[q] = h[q],
           NEW c \in Bufs, IsFiniteSet(Users(h, c))
    PROVE  /\ IsFiniteSet(Users(g, c))
           /\ Cardinality(Users(g, c)) =
                  IF c = b THEN Cardinality(Users(h, c)) - 1
                  ELSE Cardinality(Users(h, c))
<1>1. CASE c = b
  <2>1. Users(g, c) = Users(h, c) \ {p} /\ p \in Users(h, c)
    BY <1>1 DEF Users, Bufs
  <2>2. /\ IsFiniteSet(Users(h, c) \ {p})
        /\ Cardinality(Users(h, c) \ {p}) = Cardinality(Users(h, c)) - 1
    BY <2>1, FS_RemoveElement
  <2> QED
    BY <1>1, <2>1, <2>2, CardEqual
<1>2. CASE c # b
  <2>1. Users(g, c) = Users(h, c)
    BY <1>2 DEF Users, Bufs
  <2> QED
    BY <1>2, <2>1, CardEqual
<1> QED
    BY <1>1, <1>2

\* A buffer whose count is zero is nobody's.
LEMMA Unused ==
    ASSUME BufInv, NEW b \in Bufs, buf[b].refcnt = 0, NEW p \in BufProcs
    PROVE  has[p] # b
<1>1. IsFiniteSet(Users(has, b)) /\ Cardinality(Users(has, b)) = 0
    BY DEF BufInv, CountsRight
<1>2. Users(has, b) = {}
    BY <1>1, FS_EmptySet
<1> QED
    BY <1>2 DEF Users

LEMMA BufInitInv == BufInit => BufInv
<1> SUFFICES ASSUME BufInit PROVE BufInv
    OBVIOUS
<1> USE DEF BufInit
<1>1. \A b \in Bufs : /\ buf[b].block = NoBlock /\ ~buf[b].valid
                      /\ ~buf[b].dirty /\ buf[b].refcnt = 0
    OBVIOUS
<1>2. BufTypes
  <2>1. buf \in [Bufs -> Buffer]
    BY DEF Buffer
  <2>2. lru \in [Bufs -> Bufs]
    BY BufferCacheAssumption DEF Bufs
  <2>3. /\ locked \in [Bufs -> BufProcs \cup {Nobody}]
        /\ bpc \in [BufProcs -> BufPlaces]
        /\ has \in [BufProcs -> Bufs \cup {0}]
        /\ wants \in [BufProcs -> Blocks \cup {NoBlock}]
    BY DEF BufPlaces
  <2>4. diskData \in [Blocks -> Nat] /\ latest \in [Blocks -> Nat]
    OBVIOUS
  <2>5. idequeue \in Seq(Bufs)
    OBVIOUS
  <2>6. busy \in BOOLEAN
    OBVIOUS
  <2> HIDE DEF BufInit
  <2> QED
    BY <2>1, <2>2, <2>3, <2>4, <2>5, <2>6 DEF BufTypes
<1>3. UsersRight
    BY DEF UsersRight, Owns
<1>4. CountsRight
  <2> SUFFICES ASSUME NEW b \in Bufs
               PROVE  /\ IsFiniteSet(Users(has, b))
                      /\ buf[b].refcnt = Cardinality(Users(has, b))
    BY DEF CountsRight
  <2>1. Users(has, b) = {}
    BY DEF Users, Bufs
  <2>2. IsFiniteSet(Users(has, b)) /\ Cardinality(Users(has, b)) = 0
    BY <2>1, CardEqual, FS_EmptySet
  <2> QED
    BY <1>1, <2>2
<1>5. OneBuffer
    BY <1>1 DEF OneBuffer
<1>6. CopiesRight
    BY <1>1, BufferCacheAssumption DEF CopiesRight
<1>7. QueueRight
    BY DEF QueueRight
<1> QED
    BY <1>2, <1>3, <1>4, <1>5, <1>6, <1>7 DEF BufInv

LEMMA BgetHitStep ==
    ASSUME BufInv, NEW p \in BufProcs, NEW k \in Blocks, BgetHit(p, k)
    PROVE  BufInv'
<1> USE BufferCacheAssumption DEF BufInv
<1>1. PICK b \in Cached(k) :
        /\ buf' = [buf EXCEPT ![b].refcnt = @ + 1]
        /\ has' = [has EXCEPT ![p] = b]
    BY DEF BgetHit
<1>2. /\ bpc[p] = "idle" /\ has[p] = 0
      /\ wants' = [wants EXCEPT ![p] = k]
      /\ bpc' = [bpc EXCEPT ![p] = "lock"]
      /\ UNCHANGED <<lru, locked, idequeue, busy, diskData, latest>>
    BY DEF BgetHit, requestVars, UsersRight
<1>3. b \in Bufs /\ buf[b].block = k
    BY DEF Cached
<1>4. /\ buf' \in [Bufs -> Buffer]
      /\ \A c \in Bufs :
          /\ buf'[c].block = buf[c].block /\ buf'[c].valid = buf[c].valid
          /\ buf'[c].dirty = buf[c].dirty /\ buf'[c].data = buf[c].data
          /\ c # b => buf'[c].refcnt = buf[c].refcnt
      /\ buf'[b].refcnt = buf[b].refcnt + 1
  <2>1. /\ buf' \in [Bufs -> Buffer]
        /\ \A c \in Bufs \ {b} : buf'[c] = buf[c]
        /\ buf'[b].block = buf[b].block /\ buf'[b].valid = buf[b].valid
        /\ buf'[b].dirty = buf[b].dirty /\ buf'[b].data = buf[b].data
        /\ buf'[b].refcnt = buf[b].refcnt + 1
    <3>1. buf[b] \in Buffer /\ buf[b].refcnt \in Int /\ buf[b].refcnt + 1 \in Int
      BY <1>3 DEF BufTypes, Buffer
    <3> QED
      BY <1>1, <1>3, <3>1 DEF BufTypes, Buffer
  <2> QED
    BY <2>1
<1>11. BufTypes'
    BY <1>1, <1>2, <1>3, <1>4 DEF BufTypes, BufPlaces
<1>12. UsersRight'
    BY <1>1, <1>2, <1>3, <1>4 DEF BufTypes, UsersRight, Owns
<1>13. CountsRight'
  <2> SUFFICES ASSUME NEW c \in Bufs
               PROVE  /\ IsFiniteSet(Users(has', c))
                      /\ buf'[c].refcnt = Cardinality(Users(has', c))
    BY DEF CountsRight
  <2>1. has'[p] = b /\ \A q \in BufProcs \ {p} : has'[q] = has[q]
    BY <1>1 DEF BufTypes
  <2>2. IsFiniteSet(Users(has, c)) /\ buf[c].refcnt = Cardinality(Users(has, c))
    BY DEF CountsRight
  <2>3. /\ IsFiniteSet(Users(has', c))
        /\ Cardinality(Users(has', c)) =
               IF c = b THEN Cardinality(Users(has, c)) + 1
               ELSE Cardinality(Users(has, c))
    BY <1>2, <1>3, <2>1, <2>2, UsersMore
  <2> QED
    BY <1>4, <2>2, <2>3
<1>14. OneBuffer'
    BY <1>4 DEF OneBuffer
<1>15. CopiesRight'
    BY <1>2, <1>4 DEF CopiesRight
<1>16. QueueRight'
  <2>1. idequeue # <<>> => idequeue[1] \in Bufs
    BY DEF BufTypes
  <2>2. \A q \in BufProcs : bpc[q] = "iosleep" =>
            bpc'[q] = "iosleep" /\ has'[q] = has[q]
    BY <1>1, <1>2 DEF BufTypes
  <2> QED
    BY <1>2, <1>4, <2>1, <2>2 DEF QueueRight
<1> QED
    BY <1>11, <1>12, <1>13, <1>14, <1>15, <1>16

LEMMA BgetMissStep ==
    ASSUME BufInv, NEW p \in BufProcs, NEW k \in Blocks, BgetMiss(p, k)
    PROVE  BufInv'
<1> USE BufferCacheAssumption DEF BufInv
<1>1. PICK i \in 1..NBUF :
        /\ Recyclable(lru[i])
        /\ buf' = [buf EXCEPT ![lru[i]] = [block |-> k, valid |-> FALSE,
                        dirty |-> FALSE, refcnt |-> 1, data |-> @.data]]
        /\ has' = [has EXCEPT ![p] = lru[i]]
    BY DEF BgetMiss
<1> DEFINE b == lru[i]
<1>2. /\ bpc[p] = "idle" /\ has[p] = 0
      /\ wants' = [wants EXCEPT ![p] = k]
      /\ bpc' = [bpc EXCEPT ![p] = "lock"]
      /\ UNCHANGED <<lru, locked, idequeue, busy, diskData, latest>>
    BY DEF BgetMiss, requestVars, UsersRight
<1>3. b \in Bufs /\ buf[b].refcnt = 0 /\ ~buf[b].dirty
    BY <1>1 DEF BufTypes, Recyclable, Bufs
<1>4. \A q \in BufProcs : has[q] # b
    BY <1>3, Unused
<1>5. \A c \in Bufs : buf[c].block # k
    BY DEF BgetMiss, Cached
<1>6. /\ buf' \in [Bufs -> Buffer]
      /\ \A c \in Bufs \ {b} : buf'[c] = buf[c]
      /\ buf'[b].block = k /\ ~buf'[b].valid /\ ~buf'[b].dirty
      /\ buf'[b].refcnt = 1
    BY <1>1, <1>3 DEF BufTypes, Buffer
<1>7. /\ has'[p] = b /\ \A q \in BufProcs \ {p} : has'[q] = has[q]
    BY <1>1 DEF BufTypes
<1>8. has' \in [BufProcs -> Bufs \cup {0}]
    BY <1>1, <1>3 DEF BufTypes
<1> HIDE DEF b
<1>11. BufTypes'
    BY <1>2, <1>6, <1>8 DEF BufTypes, BufPlaces
<1>12. UsersRight'
    BY <1>2, <1>3, <1>4, <1>6, <1>7 DEF BufTypes, UsersRight, Owns
<1>13. CountsRight'
  <2> SUFFICES ASSUME NEW c \in Bufs
               PROVE  /\ IsFiniteSet(Users(has', c))
                      /\ buf'[c].refcnt = Cardinality(Users(has', c))
    BY DEF CountsRight
  <2>1. IsFiniteSet(Users(has, c)) /\ buf[c].refcnt = Cardinality(Users(has, c))
    BY DEF CountsRight
  <2>2. /\ IsFiniteSet(Users(has', c))
        /\ Cardinality(Users(has', c)) =
               IF c = b THEN Cardinality(Users(has, c)) + 1
               ELSE Cardinality(Users(has, c))
    BY <1>2, <1>3, <1>7, <2>1, UsersMore
  <2> QED
    BY <1>3, <1>6, <2>1, <2>2
<1>14. OneBuffer'
    BY <1>5, <1>6, <1>3 DEF OneBuffer
<1>15. CopiesRight'
  <2>1. ASSUME NEW c \in Bufs
        PROVE  /\ buf'[c].dirty => buf'[c].valid /\ buf'[c].block \in Blocks
               /\ buf'[c].block \in Blocks =>
                   /\ buf'[c].valid => buf'[c].data = latest'[buf'[c].block]
                   /\ ~buf'[c].dirty =>
                        diskData'[buf'[c].block] = latest'[buf'[c].block]
    <3>1. CASE c = b
      BY <1>2, <1>5, <1>6, <3>1 DEF CopiesRight
    <3>2. CASE c # b
      BY <1>2, <1>6, <3>2 DEF CopiesRight
    <3> QED
      BY <3>1, <3>2
  <2>2. ASSUME NEW n \in Blocks, \A c \in Bufs : buf'[c].block # n
        PROVE  diskData'[n] = latest'[n]
    <3>1. CASE n = buf[b].block
      BY <1>2, <1>3, <3>1 DEF CopiesRight
    <3>2. CASE n # buf[b].block
      <4>1. \A c \in Bufs : buf[c].block # n
        BY <1>6, <2>2, <3>2
      <4> QED
        BY <1>2, <4>1 DEF CopiesRight
    <3> QED
      BY <3>1, <3>2
  <2> QED
    BY <2>1, <2>2 DEF CopiesRight
<1>16. QueueRight'
  <2>1. \A q \in BufProcs : bpc[q] = "iosleep" =>
            bpc'[q] = "iosleep" /\ has'[q] = has[q]
    BY <1>2, <1>7 DEF BufTypes
  <2>2. \A j \in 1..Len(idequeue) : idequeue[j] # b /\ idequeue[j] \in Bufs
    BY <1>4 DEF QueueRight, BufTypes
  <2>3. idequeue # <<>> => 1 \in 1..Len(idequeue)
    BY DEF BufTypes
  <2> QED
    BY <1>2, <1>6, <2>1, <2>2, <2>3 DEF QueueRight
<1> QED
    BY <1>11, <1>12, <1>13, <1>14, <1>15, <1>16

LEMMA AcquireSleepStep ==
    ASSUME BufInv, NEW p \in BufProcs, AcquireSleep(p)
    PROVE  BufInv'
<1> USE BufferCacheAssumption DEF BufInv
<1>1. UNCHANGED <<buf, lru, idequeue, busy, diskData, has, wants, latest>>
    BY DEF AcquireSleep, requestVars
<1>2. /\ bpc[p] = "lock" /\ has[p] \in Bufs
      /\ bpc' \in [BufProcs -> BufPlaces]
      /\ \A q \in BufProcs \ {p} : bpc'[q] = bpc[q]
    BY DEF AcquireSleep, BufTypes, BufPlaces, UsersRight
<1>3. \/ locked' = locked /\ bpc'[p] = "locksleep"
      \/ /\ locked[has[p]] = Nobody /\ locked' = [locked EXCEPT ![has[p]] = p]
         /\ bpc'[p] = IF buf[has[p]].valid THEN "holds" ELSE "rw"
    BY DEF AcquireSleep, BufTypes
<1>11. BufTypes'
    BY <1>1, <1>2, <1>3 DEF BufTypes
<1>12. UsersRight'
  <2>1. \A q \in BufProcs \ {p} : bpc[q] \in Owns => locked'[has[q]] = q
    BY <1>2, <1>3 DEF BufTypes, UsersRight, Owns
  <2>2. bpc'[p] \in Owns => locked'[has[p]] = p
    BY <1>2, <1>3 DEF BufTypes, Owns
  <2> QED
    BY <1>1, <1>2, <1>3, <2>1, <2>2 DEF BufTypes, UsersRight, Owns
<1>13. CountsRight'
    BY <1>1 DEF CountsRight
<1>14. OneBuffer'
    BY <1>1 DEF OneBuffer
<1>15. CopiesRight'
    BY <1>1 DEF CopiesRight
<1>16. QueueRight'
  <2>1. \A q \in BufProcs : bpc[q] = "iosleep" => bpc'[q] = "iosleep"
    BY <1>2 DEF BufTypes
  <2> QED
    BY <1>1, <2>1 DEF QueueRight
<1> QED
    BY <1>11, <1>12, <1>13, <1>14, <1>15, <1>16

\* idestart(): the disk has the latest version of the block it was given, and
\* of every block of which it had it.
LEMMA StartedStep ==
    ASSUME BufInv, NEW b \in Bufs, Started(b)
    PROVE  /\ busy' = TRUE /\ diskData' \in [Blocks -> Nat]
           /\ \A k \in Blocks : diskData[k] = latest[k] => diskData'[k] = latest[k]
           /\ buf[b].dirty => diskData'[buf[b].block] = latest[buf[b].block]
<1>1. /\ buf[b] \in Buffer /\ diskData \in [Blocks -> Nat]
      /\ latest \in [Blocks -> Nat]
    BY DEF BufInv, BufTypes
<1>2. buf[b].dirty =>
        buf[b].block \in Blocks /\ buf[b].data = latest[buf[b].block]
    BY DEF BufInv, CopiesRight
<1>3. buf[b].data \in Nat
    BY <1>1 DEF Buffer
<1> QED
    BY <1>1, <1>2, <1>3 DEF Started

LEMMA IderwStep ==
    ASSUME BufInv, NEW p \in BufProcs, Iderw(p)
    PROVE  BufInv'
<1> USE BufferCacheAssumption DEF BufInv
<1> DEFINE b == has[p]
<1>1. /\ bpc[p] = "rw" /\ b \in Bufs /\ locked[b] = p
      /\ bpc' = [bpc EXCEPT ![p] = "iosleep"]
      /\ idequeue' = Append(idequeue, b)
      /\ UNCHANGED <<buf, lru, locked, has, wants, latest>>
    BY DEF Iderw, UsersRight, Owns
<1>2. \A i \in 1..Len(idequeue) : idequeue[i] # b
    BY <1>1 DEF QueueRight, UsersRight, Owns
<1>3. IF idequeue = <<>> THEN Started(b) ELSE UNCHANGED <<busy, diskData>>
    BY DEF Iderw
<1>4. /\ diskData' \in [Blocks -> Nat]
      /\ \A n \in Blocks : diskData[n] = latest[n] => diskData'[n] = latest[n]
      /\ busy' = TRUE
      /\ idequeue = <<>> /\ buf[b].dirty =>
            diskData'[buf[b].block] = latest[buf[b].block]
      /\ idequeue # <<>> => diskData' = diskData
  <2>1. CASE idequeue = <<>>
    BY <1>1, <1>3, <2>1, StartedStep
  <2>2. CASE idequeue # <<>>
    <3>1. busy' = busy /\ busy
      BY <1>3, <2>2 DEF QueueRight
    <3> QED
      BY <1>3, <2>2, <3>1 DEF BufTypes
  <2> QED
    BY <2>1, <2>2
<1>5. /\ idequeue' \in Seq(Bufs) /\ Len(idequeue') = Len(idequeue) + 1
      /\ Len(idequeue) \in Nat /\ idequeue'[Len(idequeue) + 1] = b
      /\ \A i \in 1..Len(idequeue) : idequeue'[i] = idequeue[i]
    BY <1>1 DEF BufTypes
<1> HIDE DEF b
<1>11. BufTypes'
    BY <1>1, <1>4, <1>5 DEF BufTypes, BufPlaces
<1>12. UsersRight'
    BY <1>1 DEF b, BufTypes, UsersRight, Owns
<1>13. CountsRight'
    BY <1>1 DEF CountsRight
<1>14. OneBuffer'
    BY <1>1 DEF OneBuffer
<1>15. CopiesRight'
    BY <1>1, <1>4 DEF BufTypes, CopiesRight
<1>16. QueueRight'
  <2>1. busy' <=> idequeue' # <<>>
    BY <1>4, <1>5
  <2>2. \A i, j \in 1..Len(idequeue') : idequeue'[i] = idequeue'[j] => i = j
    BY <1>2, <1>5 DEF QueueRight
  <2>3. ASSUME NEW i \in 1..Len(idequeue')
        PROVE  \E q \in BufProcs : bpc'[q] = "iosleep" /\ has'[q] = idequeue'[i]
    <3>1. CASE i = Len(idequeue) + 1
      BY <1>1, <1>5, <3>1 DEF b, BufTypes
    <3>2. CASE i \in 1..Len(idequeue)
      BY <1>1, <1>5, <3>2 DEF BufTypes, QueueRight
    <3> QED
      BY <1>5, <3>1, <3>2
  <2>4. buf'[idequeue'[1]].dirty =>
            diskData'[buf'[idequeue'[1]].block] = latest'[buf'[idequeue'[1]].block]
    <3>1. CASE idequeue = <<>>
      BY <1>1, <1>4, <1>5, <3>1
    <3>2. CASE idequeue # <<>>
      <4>1. idequeue'[1] = idequeue[1]
        BY <1>5, <3>2 DEF BufTypes
      <4> QED
        BY <1>1, <1>4, <3>2, <4>1 DEF QueueRight
    <3> QED
      BY <3>1, <3>2
  <2> QED
    BY <2>1, <2>2, <2>3, <2>4 DEF QueueRight
<1> QED
    BY <1>11, <1>12, <1>13, <1>14, <1>15, <1>16

LEMMA IderwWokenStep ==
    ASSUME BufInv, NEW p \in BufProcs, IderwWoken(p)
    PROVE  BufInv'
<1> USE BufferCacheAssumption DEF BufInv
<1>1. /\ UNCHANGED <<buf, lru, locked, idequeue, busy, diskData, has, wants, latest>>
      /\ bpc[p] = "iowoken"
    BY DEF IderwWoken, requestVars
<1>2. bpc' = [bpc EXCEPT ![p] = "holds"]
    BY <1>1 DEF IderwWoken, UsersRight
<1>11. BufTypes'
    BY <1>1, <1>2 DEF BufTypes, BufPlaces
<1>12. UsersRight'
    BY <1>1, <1>2 DEF BufTypes, UsersRight, Owns
<1>13. CountsRight'
    BY <1>1 DEF CountsRight
<1>14. OneBuffer'
    BY <1>1 DEF OneBuffer
<1>15. CopiesRight'
    BY <1>1 DEF CopiesRight
<1>16. QueueRight'
  <2>1. \A q \in BufProcs : bpc[q] = "iosleep" => bpc'[q] = "iosleep"
    BY <1>1, <1>2 DEF BufTypes
  <2> QED
    BY <1>1, <2>1 DEF QueueRight
<1> QED
    BY <1>11, <1>12, <1>13, <1>14, <1>15, <1>16

LEMMA IdeintrStep ==
    ASSUME BufInv, Ideintr
    PROVE  BufInv'
<1> USE BufferCacheAssumption DEF BufInv
<1> DEFINE b == idequeue[1]
           rest == Tail(idequeue)
<1>1. /\ busy /\ idequeue # <<>> /\ Head(idequeue) = b /\ b \in Bufs
      /\ 1 \in 1..Len(idequeue) /\ Len(idequeue) \in Nat
    BY DEF Ideintr, QueueRight, BufTypes
<1>2. /\ idequeue' = rest
      /\ buf' = [buf EXCEPT ![b].data = IF buf[b].dirty THEN @
                                        ELSE diskData[buf[b].block],
                            ![b].valid = TRUE,
                            ![b].dirty = FALSE]
      /\ bpc' = WokenFor("iosleep", "iowoken", b)
      /\ StartNext(rest)
      /\ UNCHANGED <<lru, locked, has, wants, latest>>
    BY <1>1 DEF Ideintr
<1>3. /\ rest \in Seq(Bufs) /\ Len(rest) = Len(idequeue) - 1
      /\ \A i \in 1..Len(rest) : rest[i] = idequeue[i + 1] /\ i + 1 \in 1..Len(idequeue)
      /\ rest # <<>> => Head(rest) = rest[1] /\ 1 \in 1..Len(rest)
    BY <1>1 DEF BufTypes
<1>4. \A i \in 1..Len(rest) : rest[i] # b /\ rest[i] \in Bufs
    BY <1>1, <1>3 DEF QueueRight
<1>5. buf[b].block \in Blocks
    BY <1>1 DEF QueueRight, UsersRight
<1>6. diskData[buf[b].block] = latest[buf[b].block]
    BY <1>1, <1>5 DEF QueueRight, CopiesRight
<1>7. /\ buf' \in [Bufs -> Buffer]
      /\ \A c \in Bufs \ {b} : buf'[c] = buf[c]
      /\ buf'[b].block = buf[b].block /\ buf'[b].refcnt = buf[b].refcnt
      /\ buf'[b].valid = TRUE /\ buf'[b].dirty = FALSE
      /\ buf'[b].data = latest[buf[b].block]
  <2>1. buf[b] \in Buffer /\ diskData[buf[b].block] \in Nat
    BY <1>1, <1>5 DEF BufTypes
  <2>2. buf[b].dirty => buf[b].data = latest[buf[b].block]
    BY <1>1, <1>5 DEF CopiesRight
  <2>3. /\ buf' \in [Bufs -> Buffer]
        /\ \A c \in Bufs \ {b} : buf'[c] = buf[c]
        /\ buf'[b].block = buf[b].block /\ buf'[b].refcnt = buf[b].refcnt
        /\ buf'[b].valid = TRUE /\ buf'[b].dirty = FALSE
        /\ buf'[b].data = IF buf[b].dirty THEN buf[b].data
                          ELSE diskData[buf[b].block]
    BY <1>1, <1>2, <2>1 DEF BufTypes, Buffer
  <2> QED
    BY <1>6, <2>2, <2>3
<1>8. /\ busy' \in BOOLEAN /\ (busy' <=> rest # <<>>)
      /\ diskData' \in [Blocks -> Nat]
      /\ \A n \in Blocks : diskData[n] = latest[n] => diskData'[n] = latest[n]
      /\ rest # <<>> /\ buf[rest[1]].dirty =>
            diskData'[buf[rest[1]].block] = latest[buf[rest[1]].block]
  <2>1. CASE rest = <<>>
    <3>1. busy' = FALSE /\ diskData' = diskData
      BY <1>2, <2>1 DEF StartNext
    <3> QED
      BY <2>1, <3>1 DEF BufTypes
  <2>2. CASE rest # <<>>
    <3>1. Started(rest[1]) /\ rest[1] \in Bufs
      BY <1>2, <1>3, <1>4, <2>2 DEF StartNext
    <3> QED
      BY <2>2, <3>1, StartedStep
  <2> QED
    BY <2>1, <2>2
<1>9. /\ bpc' \in [BufProcs -> BufPlaces]
      /\ \A p \in BufProcs :
          bpc'[p] = IF bpc[p] = "iosleep" /\ has[p] = b THEN "iowoken" ELSE bpc[p]
    BY <1>2 DEF WokenFor, BufTypes, BufPlaces
<1> HIDE DEF b, rest
<1>11. BufTypes'
    BY <1>2, <1>3, <1>7, <1>8, <1>9 DEF BufTypes
<1>12. UsersRight'
    BY <1>1, <1>2, <1>7, <1>9 DEF BufTypes, UsersRight, Owns
<1>13. CountsRight'
  <2>1. \A c \in Bufs : buf'[c].refcnt = buf[c].refcnt
    BY <1>1, <1>7
  <2> QED
    BY <1>2, <2>1 DEF CountsRight
<1>14. OneBuffer'
  <2>1. \A c \in Bufs : buf'[c].block = buf[c].block
    BY <1>1, <1>7
  <2> QED
    BY <2>1 DEF OneBuffer
<1>15. CopiesRight'
  <2>1. ASSUME NEW c \in Bufs
        PROVE  /\ buf'[c].dirty => buf'[c].valid /\ buf'[c].block \in Blocks
               /\ buf'[c].block \in Blocks =>
                   /\ buf'[c].valid => buf'[c].data = latest'[buf'[c].block]
                   /\ ~buf'[c].dirty =>
                        diskData'[buf'[c].block] = latest'[buf'[c].block]
    <3>1. CASE c = b
      BY <1>2, <1>5, <1>6, <1>7, <1>8, <3>1
    <3>2. CASE c # b
      BY <1>2, <1>7, <1>8, <3>2 DEF CopiesRight
    <3> QED
      BY <3>1, <3>2
  <2>2. \A n \in Blocks :
            (\A c \in Bufs : buf'[c].block # n) => diskData'[n] = latest'[n]
    BY <1>1, <1>2, <1>7, <1>8 DEF CopiesRight
  <2> QED
    BY <2>1, <2>2 DEF CopiesRight
<1>16. QueueRight'
  <2>1. busy' <=> idequeue' # <<>>
    BY <1>2, <1>8
  <2>2. \A i, j \in 1..Len(idequeue') : idequeue'[i] = idequeue'[j] => i = j
    BY <1>1, <1>2, <1>3 DEF QueueRight
  <2>3. ASSUME NEW i \in 1..Len(idequeue')
        PROVE  \E q \in BufProcs : bpc'[q] = "iosleep" /\ has'[q] = idequeue'[i]
    <3>1. PICK q \in BufProcs : bpc[q] = "iosleep" /\ has[q] = rest[i]
      BY <1>2, <1>3 DEF QueueRight
    <3>2. rest[i] # b
      BY <1>2, <1>4
    <3> QED
      BY <1>2, <1>9, <3>1, <3>2
  <2>4. ASSUME busy' PROVE
            buf'[idequeue'[1]].dirty =>
            diskData'[buf'[idequeue'[1]].block] = latest'[buf'[idequeue'[1]].block]
    <3>1. rest # <<>> /\ rest[1] \in Bufs \ {b}
      BY <1>3, <1>4, <1>8, <2>4
    <3>2. buf'[rest[1]] = buf[rest[1]]
      BY <1>7, <3>1
    <3> QED
      BY <1>2, <1>8, <3>1, <3>2
  <2> QED
    BY <2>1, <2>2, <2>3, <2>4 DEF QueueRight
<1> QED
    BY <1>11, <1>12, <1>13, <1>14, <1>15, <1>16

LEMMA BwriteStep ==
    ASSUME BufInv, NEW p \in BufProcs, Bwrite(p)
    PROVE  BufInv'
<1> USE BufferCacheAssumption DEF BufInv
<1> DEFINE b == has[p]
           k == wants[p]
<1>1. /\ bpc[p] = "holds" /\ b \in Bufs /\ k \in Blocks /\ buf[b].block = k
      /\ buf[b].valid /\ locked[b] = p
    BY DEF Bwrite, UsersRight, Owns
<1>2. /\ latest' = [latest EXCEPT ![k] = @ + 1]
      /\ buf' = [buf EXCEPT ![b].data = latest'[k], ![b].dirty = TRUE]
      /\ UNCHANGED <<lru, locked, idequeue, busy, diskData, has, wants>>
    BY DEF Bwrite, requestVars
<1>3. /\ bpc' = [bpc EXCEPT ![p] = "rw"]
      /\ bpc' \in [BufProcs -> BufPlaces]
    BY DEF Bwrite, BufTypes, BufPlaces
<1>4. latest' \in [Blocks -> Nat] /\ \A n \in Blocks \ {k} : latest'[n] = latest[n]
    BY <1>1, <1>2 DEF BufTypes
<1>5. /\ buf' \in [Bufs -> Buffer]
      /\ \A c \in Bufs \ {b} : buf'[c] = buf[c]
      /\ buf'[b].block = k /\ buf'[b].refcnt = buf[b].refcnt
      /\ buf'[b].valid /\ buf'[b].dirty = TRUE /\ buf'[b].data = latest'[k]
  <2>1. latest'[k] \in Nat /\ buf[b] \in Buffer
    BY <1>1, <1>4 DEF BufTypes
  <2> QED
    BY <1>1, <1>2, <2>1 DEF BufTypes, Buffer
<1>6. \A i \in 1..Len(idequeue) : idequeue[i] \in Bufs /\ idequeue[i] # b
    BY <1>1 DEF QueueRight, UsersRight, Owns, BufTypes
<1> HIDE DEF b, k
<1>11. BufTypes'
    BY <1>2, <1>3, <1>4, <1>5 DEF BufTypes
<1>12. UsersRight'
    BY <1>1, <1>2, <1>3, <1>5 DEF b, k, BufTypes, UsersRight, Owns
<1>13. CountsRight'
  <2>1. \A c \in Bufs : buf'[c].refcnt = buf[c].refcnt
    BY <1>1, <1>5
  <2> QED
    BY <1>2, <2>1 DEF CountsRight
<1>14. OneBuffer'
  <2>1. \A c \in Bufs : buf'[c].block = buf[c].block
    BY <1>1, <1>5
  <2> QED
    BY <2>1 DEF OneBuffer
<1>15. CopiesRight'
  <2>1. ASSUME NEW c \in Bufs
        PROVE  /\ buf'[c].dirty => buf'[c].valid /\ buf'[c].block \in Blocks
               /\ buf'[c].block \in Blocks =>
                   /\ buf'[c].valid => buf'[c].data = latest'[buf'[c].block]
                   /\ ~buf'[c].dirty =>
                        diskData'[buf'[c].block] = latest'[buf'[c].block]
    <3>1. CASE c = b
      BY <1>1, <1>5, <3>1
    <3>2. CASE c # b
      <4>1. buf[c].block \in Blocks => buf[c].block # k
        BY <1>1, <3>2, BufferCacheAssumption DEF OneBuffer
      <4> QED
        BY <1>2, <1>4, <1>5, <3>2, <4>1 DEF CopiesRight
    <3> QED
      BY <3>1, <3>2
  <2>2. \A n \in Blocks :
            (\A c \in Bufs : buf'[c].block # n) => diskData'[n] = latest'[n]
    BY <1>1, <1>2, <1>4, <1>5 DEF CopiesRight
  <2> QED
    BY <2>1, <2>2 DEF CopiesRight
<1>16. QueueRight'
  <2>1. \A q \in BufProcs : bpc[q] = "iosleep" => bpc'[q] = "iosleep"
    BY <1>1, <1>3 DEF BufTypes
  <2>2. ASSUME busy PROVE
            buf'[idequeue[1]].dirty =>
            diskData'[buf'[idequeue[1]].block] = latest'[buf'[idequeue[1]].block]
    <3>1. 1 \in 1..Len(idequeue) /\ idequeue[1] \in Bufs \ {b}
      BY <1>6, <2>2 DEF QueueRight, BufTypes
    <3>2. buf'[idequeue[1]] = buf[idequeue[1]]
      BY <1>5, <3>1
    <3>3. buf[idequeue[1]].dirty =>
            buf[idequeue[1]].block \in Blocks /\ buf[idequeue[1]].block # k
      BY <1>1, <3>1, BufferCacheAssumption DEF CopiesRight, OneBuffer
    <3> QED
      BY <1>2, <1>4, <2>2, <3>2, <3>3 DEF QueueRight
  <2> QED
    BY <1>2, <2>1, <2>2 DEF QueueRight
<1> QED
    BY <1>11, <1>12, <1>13, <1>14, <1>15, <1>16

LEMMA LogWriteStep ==
    ASSUME BufInv, NEW p \in BufProcs, LogWrite(p)
    PROVE  BufInv'
<1> USE BufferCacheAssumption DEF BufInv
<1> DEFINE b == has[p]
           k == wants[p]
<1>1. /\ bpc[p] = "holds" /\ b \in Bufs /\ k \in Blocks /\ buf[b].block = k
      /\ buf[b].valid /\ locked[b] = p
    BY DEF LogWrite, UsersRight, Owns
<1>2. /\ latest' = [latest EXCEPT ![k] = @ + 1]
      /\ buf' = [buf EXCEPT ![b].data = latest'[k], ![b].dirty = TRUE]
      /\ UNCHANGED <<lru, locked, idequeue, busy, diskData, has, wants>>
    BY DEF LogWrite, requestVars
<1>3. bpc' = bpc /\ bpc' \in [BufProcs -> BufPlaces]
    BY DEF LogWrite, BufTypes, BufPlaces
<1>4. latest' \in [Blocks -> Nat] /\ \A n \in Blocks \ {k} : latest'[n] = latest[n]
    BY <1>1, <1>2 DEF BufTypes
<1>5. /\ buf' \in [Bufs -> Buffer]
      /\ \A c \in Bufs \ {b} : buf'[c] = buf[c]
      /\ buf'[b].block = k /\ buf'[b].refcnt = buf[b].refcnt
      /\ buf'[b].valid /\ buf'[b].dirty = TRUE /\ buf'[b].data = latest'[k]
  <2>1. latest'[k] \in Nat /\ buf[b] \in Buffer
    BY <1>1, <1>4 DEF BufTypes
  <2> QED
    BY <1>1, <1>2, <2>1 DEF BufTypes, Buffer
<1>6. \A i \in 1..Len(idequeue) : idequeue[i] \in Bufs /\ idequeue[i] # b
    BY <1>1 DEF QueueRight, UsersRight, Owns, BufTypes
<1> HIDE DEF b, k
<1>11. BufTypes'
    BY <1>2, <1>3, <1>4, <1>5 DEF BufTypes
<1>12. UsersRight'
    BY <1>1, <1>2, <1>3, <1>5 DEF b, k, BufTypes, UsersRight, Owns
<1>13. CountsRight'
  <2>1. \A c \in Bufs : buf'[c].refcnt = buf[c].refcnt
    BY <1>1, <1>5
  <2> QED
    BY <1>2, <2>1 DEF CountsRight
<1>14. OneBuffer'
  <2>1. \A c \in Bufs : buf'[c].block = buf[c].block
    BY <1>1, <1>5
  <2> QED
    BY <2>1 DEF OneBuffer
<1>15. CopiesRight'
  <2>1. ASSUME NEW c \in Bufs
        PROVE  /\ buf'[c].dirty => buf'[c].valid /\ buf'[c].block \in Blocks
               /\ buf'[c].block \in Blocks =>
                   /\ buf'[c].valid => buf'[c].data = latest'[buf'[c].block]
                   /\ ~buf'[c].dirty =>
                        diskData'[buf'[c].block] = latest'[buf'[c].block]
    <3>1. CASE c = b
      BY <1>1, <1>5, <3>1
    <3>2. CASE c # b
      <4>1. buf[c].block \in Blocks => buf[c].block # k
        BY <1>1, <3>2, BufferCacheAssumption DEF OneBuffer
      <4> QED
        BY <1>2, <1>4, <1>5, <3>2, <4>1 DEF CopiesRight
    <3> QED
      BY <3>1, <3>2
  <2>2. \A n \in Blocks :
            (\A c \in Bufs : buf'[c].block # n) => diskData'[n] = latest'[n]
    BY <1>1, <1>2, <1>4, <1>5 DEF CopiesRight
  <2> QED
    BY <2>1, <2>2 DEF CopiesRight
<1>16. QueueRight'
  <2>1. \A q \in BufProcs : bpc[q] = "iosleep" => bpc'[q] = "iosleep"
    BY <1>1, <1>3 DEF BufTypes
  <2>2. ASSUME busy PROVE
            buf'[idequeue[1]].dirty =>
            diskData'[buf'[idequeue[1]].block] = latest'[buf'[idequeue[1]].block]
    <3>1. 1 \in 1..Len(idequeue) /\ idequeue[1] \in Bufs \ {b}
      BY <1>6, <2>2 DEF QueueRight, BufTypes
    <3>2. buf'[idequeue[1]] = buf[idequeue[1]]
      BY <1>5, <3>1
    <3>3. buf[idequeue[1]].dirty =>
            buf[idequeue[1]].block \in Blocks /\ buf[idequeue[1]].block # k
      BY <1>1, <3>1, BufferCacheAssumption DEF CopiesRight, OneBuffer
    <3> QED
      BY <1>2, <1>4, <2>2, <3>2, <3>3 DEF QueueRight
  <2> QED
    BY <1>2, <2>1, <2>2 DEF QueueRight
<1> QED
    BY <1>11, <1>12, <1>13, <1>14, <1>15, <1>16

LEMMA InstallTransStep ==
    ASSUME BufInv, NEW p \in BufProcs, InstallTrans(p)
    PROVE  BufInv'
<1> USE BufferCacheAssumption DEF BufInv
<1>1. /\ UNCHANGED <<buf, lru, locked, idequeue, busy, diskData, has, wants, latest>>
      /\ bpc[p] = "holds"
    BY DEF InstallTrans, requestVars
<1>2. bpc' = [bpc EXCEPT ![p] = "rw"]
    BY DEF InstallTrans
<1>11. BufTypes'
    BY <1>1, <1>2 DEF BufTypes, BufPlaces
<1>12. UsersRight'
    BY <1>1, <1>2 DEF BufTypes, UsersRight, Owns
<1>13. CountsRight'
    BY <1>1 DEF CountsRight
<1>14. OneBuffer'
    BY <1>1 DEF OneBuffer
<1>15. CopiesRight'
    BY <1>1 DEF CopiesRight
<1>16. QueueRight'
  <2>1. \A q \in BufProcs : bpc[q] = "iosleep" => bpc'[q] = "iosleep"
    BY <1>1, <1>2 DEF BufTypes
  <2> QED
    BY <1>1, <2>1 DEF QueueRight
<1> QED
    BY <1>11, <1>12, <1>13, <1>14, <1>15, <1>16

LEMMA BrelseUnlockStep ==
    ASSUME BufInv, NEW p \in BufProcs, BrelseUnlock(p)
    PROVE  BufInv'
<1> USE BufferCacheAssumption DEF BufInv
<1>1. /\ UNCHANGED <<buf, lru, idequeue, busy, diskData, has, wants, latest>>
      /\ bpc[p] = "holds" /\ has[p] \in Bufs /\ locked[has[p]] = p
      /\ locked' = [locked EXCEPT ![has[p]] = Nobody]
    BY DEF BrelseUnlock, requestVars, UsersRight, Owns
<1>2. /\ bpc' \in [BufProcs -> BufPlaces] /\ bpc'[p] = "unlocked"
      /\ \A q \in BufProcs \ {p} :
          bpc'[q] = IF bpc[q] = "locksleep" /\ has[q] = has[p] THEN "lock" ELSE bpc[q]
    BY DEF BrelseUnlock, WokenFor, BufTypes, BufPlaces
<1>11. BufTypes'
    BY <1>1, <1>2 DEF BufTypes
<1>12. UsersRight'
  <2>1. ASSUME NEW q \in BufProcs \ {p}, bpc'[q] \in Owns
        PROVE  locked'[has[q]] = q
    <3>1. bpc[q] \in Owns
      BY <1>2, <2>1 DEF Owns
    <3>2. locked[has[q]] = q /\ has[q] \in Bufs
      BY <3>1 DEF UsersRight, Owns
    <3> QED
      BY <1>1, <3>2 DEF BufTypes
  <2> QED
    BY <1>1, <1>2, <2>1 DEF BufTypes, UsersRight, Owns
<1>13. CountsRight'
    BY <1>1 DEF CountsRight
<1>14. OneBuffer'
    BY <1>1 DEF OneBuffer
<1>15. CopiesRight'
    BY <1>1 DEF CopiesRight
<1>16. QueueRight'
  <2>1. \A q \in BufProcs : bpc[q] = "iosleep" => bpc'[q] = "iosleep"
    BY <1>1, <1>2 DEF BufTypes
  <2> QED
    BY <1>1, <2>1 DEF QueueRight
<1> QED
    BY <1>11, <1>12, <1>13, <1>14, <1>15, <1>16

LEMMA BrelseCountStep ==
    ASSUME BufInv, NEW p \in BufProcs, BrelseCount(p)
    PROVE  BufInv'
<1> USE BufferCacheAssumption DEF BufInv
<1> DEFINE b == has[p]
<1>1. /\ bpc[p] = "unlocked" /\ b \in Bufs
      /\ bpc' = [bpc EXCEPT ![p] = "idle"]
      /\ has' = [has EXCEPT ![p] = 0]
      /\ wants' = [wants EXCEPT ![p] = NoBlock]
      /\ UNCHANGED <<locked, idequeue, busy, diskData, latest>>
    BY DEF BrelseCount, requestVars, UsersRight
<1>2. /\ buf' \in [Bufs -> Buffer]
      /\ \A c \in Bufs :
          /\ buf'[c].block = buf[c].block /\ buf'[c].valid = buf[c].valid
          /\ buf'[c].dirty = buf[c].dirty /\ buf'[c].data = buf[c].data
          /\ c # b => buf'[c].refcnt = buf[c].refcnt
      /\ buf'[b].refcnt = buf[b].refcnt - 1
  <2>1. buf' = [buf EXCEPT ![b].refcnt = @ - 1] /\ b \in Bufs
    BY <1>1 DEF BrelseCount
  <2>2. /\ buf' \in [Bufs -> Buffer]
        /\ \A c \in Bufs \ {b} : buf'[c] = buf[c]
        /\ buf'[b].block = buf[b].block /\ buf'[b].valid = buf[b].valid
        /\ buf'[b].dirty = buf[b].dirty /\ buf'[b].data = buf[b].data
        /\ buf'[b].refcnt = buf[b].refcnt - 1
    <3>1. buf[b] \in Buffer /\ buf[b].refcnt \in Int /\ buf[b].refcnt - 1 \in Int
      BY <2>1 DEF BufTypes, Buffer
    <3> HIDE DEF b
    <3> QED
      BY <2>1, <3>1 DEF BufTypes, Buffer
  <2> QED
    BY <2>2
<1>3. lru' \in [Bufs -> Bufs]
  <2>1. MovedToFront(b) \in [Bufs -> Bufs]
    <3> DEFINE at == CHOOSE i \in Bufs : lru[i] = b
    <3> HIDE DEF at, b
    <3>1. /\ b \in Bufs /\ \A i \in Bufs : lru[i] \in Bufs
          /\ \A i \in Bufs : i # 1 => i - 1 \in Bufs
      BY <1>1 DEF BufTypes, Bufs
    <3>2. \A i \in Bufs : (IF i = 1 THEN b ELSE IF i <= at THEN lru[i - 1]
                           ELSE lru[i]) \in Bufs
      BY <3>1, Zenon
    <3> QED
      BY <3>2 DEF MovedToFront, at
  <2> QED
    BY <2>1 DEF BrelseCount, BufTypes
<1>4. /\ has' \in [BufProcs -> Bufs \cup {0}]
      /\ has'[p] = 0 /\ \A q \in BufProcs \ {p} : has'[q] = has[q]
    BY <1>1 DEF BufTypes
<1> HIDE DEF b
<1>11. BufTypes'
    BY <1>1, <1>2, <1>3, <1>4 DEF BufTypes, BufPlaces
<1>12. UsersRight'
  <2>1. ASSUME NEW q \in BufProcs \ {p}
        PROVE  bpc'[q] = bpc[q] /\ has'[q] = has[q] /\ wants'[q] = wants[q]
    BY <1>1, <1>4 DEF BufTypes
  <2>2. bpc'[p] = "idle" /\ has'[p] = 0
    BY <1>1, <1>4 DEF BufTypes
  <2> QED
    BY <1>1, <1>2, <2>1, <2>2 DEF UsersRight, Owns
<1>13. CountsRight'
  <2> SUFFICES ASSUME NEW c \in Bufs
               PROVE  /\ IsFiniteSet(Users(has', c))
                      /\ buf'[c].refcnt = Cardinality(Users(has', c))
    BY DEF CountsRight
  <2>1. IsFiniteSet(Users(has, c)) /\ buf[c].refcnt = Cardinality(Users(has, c))
    BY DEF CountsRight
  <2>2. has[p] = b
    BY DEF b
  <2>3. /\ IsFiniteSet(Users(has', c))
        /\ Cardinality(Users(has', c)) =
               IF c = b THEN Cardinality(Users(has, c)) - 1
               ELSE Cardinality(Users(has, c))
    <3>1. b \in Bufs /\ has[p] = b /\ has'[p] = 0
      BY <1>1, <1>4, <2>2
    <3>2. \A q \in BufProcs \ {p} : has'[q] = has[q]
      BY <1>4
    <3> QED
      BY <2>1, <3>1, <3>2, UsersLess
  <2> QED
    BY <1>2, <2>1, <2>3
<1>14. OneBuffer'
    BY <1>2 DEF OneBuffer
<1>15. CopiesRight'
    BY <1>1, <1>2 DEF CopiesRight
<1>16. QueueRight'
  <2>1. idequeue # <<>> => idequeue[1] \in Bufs
    BY DEF BufTypes
  <2>2. \A q \in BufProcs : bpc[q] = "iosleep" =>
            bpc'[q] = "iosleep" /\ has'[q] = has[q]
    BY <1>1, <1>4 DEF BufTypes
  <2> QED
    BY <1>1, <1>2, <2>1, <2>2 DEF QueueRight
<1> QED
    BY <1>11, <1>12, <1>13, <1>14, <1>15, <1>16

LEMMA BufNextInv == BufInv /\ BufNext => BufInv'
<1> SUFFICES ASSUME BufInv, BufNext PROVE BufInv'
    OBVIOUS
<1>1. CASE Ideintr
    BY <1>1, IdeintrStep
<1>2. ASSUME NEW p \in BufProcs, NEW k \in Blocks, BgetHit(p, k) \/ BgetMiss(p, k)
      PROVE  BufInv'
    BY <1>2, BgetHitStep, BgetMissStep
<1>3. ASSUME NEW p \in BufProcs, BufStep(p) PROVE BufInv'
    BY <1>3, AcquireSleepStep, IderwStep, IderwWokenStep, BrelseUnlockStep,
       BrelseCountStep DEF BufStep
<1>4. ASSUME NEW p \in BufProcs, Bwrite(p) \/ LogWrite(p) \/ InstallTrans(p)
      PROVE  BufInv'
    BY <1>4, BwriteStep, LogWriteStep, InstallTransStep
<1> QED
    BY <1>1, <1>2, <1>3, <1>4 DEF BufNext

LEMMA BufSame == BufInv /\ UNCHANGED bufVars => BufInv'
<1> SUFFICES ASSUME BufInv, UNCHANGED bufVars PROVE BufInv'
    OBVIOUS
<1> USE DEF BufInv, bufVars
<1>1. BufTypes' /\ UsersRight' /\ OneBuffer'
    BY DEF BufTypes, UsersRight, OneBuffer
<1>2. CountsRight'
    BY DEF CountsRight
<1>3. CopiesRight' /\ QueueRight'
    BY DEF CopiesRight, QueueRight
<1> QED
    BY <1>1, <1>2, <1>3

LEMMA BufInvCoherent == BufInv => CacheCoherent
<1> SUFFICES ASSUME BufInv PROVE CacheCoherent
    OBVIOUS
<1>1. ASSUME NEW k \in Blocks PROVE Cardinality(Cached(k)) <= 1
  <2>1. CASE Cached(k) = {}
    <3>1. Cardinality(Cached(k)) = 0
      BY <2>1, CardEqual, FS_EmptySet
    <3> QED
      BY <3>1
  <2>2. CASE Cached(k) # {}
    <3>1. PICK b \in Bufs : buf[b].block = k
      BY <2>2 DEF Cached
    <3>2. Cached(k) = {b}
      BY <3>1, BufferCacheAssumption DEF Cached, BufInv, OneBuffer
    <3>3. Cardinality(Cached(k)) = 1
      BY <3>2, CardEqual, FS_Singleton
    <3> QED
      BY <3>3
  <2> QED
    BY <2>1, <2>2
<1>2. ASSUME NEW p \in BufProcs, bpc[p] = "holds"
      PROVE  /\ locked[has[p]] = p
             /\ buf[has[p]].block = wants[p]
             /\ buf[has[p]].data = latest[wants[p]]
    BY <1>2 DEF BufInv, UsersRight, Owns, CopiesRight
<1>3. ASSUME NEW k \in Blocks, Cached(k) = {} PROVE diskData[k] = latest[k]
    BY <1>3 DEF BufInv, CopiesRight, Cached
<1> QED
    BY <1>1, <1>2, <1>3 DEF CacheCoherent

\* bread() returns what was last stored in the block, for any number of
\* processes, buffers and blocks: a block has one buffer, whoever holds it has
\* its latest version, and a block without a buffer is on the disk as last
\* stored, however the recycling and the queue of the disk interleave.
THEOREM CacheIsCoherent == Spec => []CacheCoherent
<1>1. Init => BufInv
    BY BufInitInv DEF Init
<1>2. BufInv /\ [Next]_<<device, bufVars, consVars>> => BufInv'
    BY BufNextInv, BufSame DEF Next
<1>3. BufInv => CacheCoherent
    BY BufInvCoherent
<1> QED
    BY <1>1, <1>2, <1>3, PTL DEF Spec

-----------------------------------------------------------------------------
(* Console input: the indices of the ring.                                 *)

Idx == 0..(Modulus32 - 1)

\* The sizes of the ring as the lemmas use them.
LEMMA RingSizes ==
    /\ Modulus32 \in Nat \ {0} /\ INPUT_BUF \in Nat \ {0}
    /\ INPUT_BUF < Modulus32 /\ Modulus32 % INPUT_BUF = 0
BY ConsoleAssumption

LEMMA DivMod ==
    ASSUME NEW a \in Int, NEW m \in Nat \ {0}
    PROVE  /\ a \div m \in Int
           /\ a % m \in 0..(m - 1)
           /\ a = m * (a \div m) + (a % m)
OBVIOUS

LEMMA Multiples ==
    ASSUME NEW x \in Int, NEW y \in Int, NEW m \in Nat \ {0}, x >= y + 1
    PROVE  m * x >= m * y + m
OBVIOUS

\* Quotient and remainder are unique.
LEMMA RemainderUnique ==
    ASSUME NEW x \in Int, NEW y \in Int, NEW m \in Nat \ {0},
           NEW r \in 0..(m - 1), NEW s \in 0..(m - 1), m * x + r = m * y + s
    PROVE  x = y /\ r = s
<1>1. CASE x = y
    BY <1>1
<1>2. CASE x >= y + 1
  <2>1. m * x >= m * y + m
    BY <1>2, Multiples
  <2> QED
    BY <2>1
<1>3. CASE y >= x + 1
  <2>1. m * y >= m * x + m
    BY <1>3, Multiples
  <2> QED
    BY <2>1
<1> QED
    BY <1>1, <1>2, <1>3

\* The remainder of a number that is known up to a multiple.
LEMMA RemainderIs ==
    ASSUME NEW a \in Int, NEW m \in Nat \ {0}, NEW y \in Int,
           NEW s \in 0..(m - 1), a = m * y + s
    PROVE  a % m = s
<1> DEFINE x == a \div m
           r == a % m
<1>1. x \in Int /\ r \in 0..(m - 1) /\ a = m * x + r
    BY DivMod
<1> HIDE DEF x, r
<1>2. m * x + r = m * y + s
    BY <1>1
<1>3. x \in Int /\ r \in 0..(m - 1)
    BY <1>1
<1>4. r = s
    BY <1>2, <1>3, RemainderUnique
<1> QED
    BY <1>4 DEF r

\* A number from -m to 2m is at most one m away from its remainder.
LEMMA NearRemainder ==
    ASSUME NEW a \in Int, NEW m \in Nat \ {0}, a < m + m, a + m >= 0
    PROVE  a % m = IF a < 0 THEN a + m ELSE IF a < m THEN a ELSE a - m
<1>1. CASE a < 0
  <2>1. a = m * (-1) + (a + m) /\ a + m \in 0..(m - 1)
    BY <1>1
  <2> QED
    BY <1>1, <2>1, RemainderIs
<1>2. CASE a >= 0 /\ a < m
  <2>1. a = m * 0 + a /\ a \in 0..(m - 1)
    BY <1>2
  <2> QED
    BY <1>2, <2>1, RemainderIs
<1>3. CASE a >= m
  <2>1. a = m * 1 + (a - m) /\ a - m \in 0..(m - 1)
    BY <1>3
  <2> QED
    BY <1>3, <2>1, RemainderIs
<1> QED
    BY <1>1, <1>2, <1>3

LEMMA AddMultiple ==
    ASSUME NEW a \in Int, NEW b \in Int, NEW m \in Nat \ {0}, b % m = 0
    PROVE  (a + b) % m = a % m
<1> DEFINE y == a \div m
           z == b \div m
           s == a % m
<1>1. y \in Int /\ s \in 0..(m - 1) /\ a = m * y + s
    BY DivMod
<1>2. z \in Int /\ b = m * z + 0
    BY DivMod
<1> HIDE DEF y, z, s
<1>3. m * (y + z) = m * y + m * z
    BY <1>1, <1>2
<1>4. a + b = m * (y + z) + s /\ y + z \in Int /\ a + b \in Int
    BY <1>1, <1>2, <1>3
<1> DEFINE x == y + z
           c == a + b
<1> HIDE DEF x, c
<1>5. c = m * x + s /\ x \in Int /\ c \in Int
    BY <1>4 DEF x, c
<1>6. c % m = s
    BY <1>1, <1>5, RemainderIs
<1> QED
    BY <1>6 DEF c, s

\* Numbers less than m apart have different remainders.
LEMMA NearDiffer ==
    ASSUME NEW a \in Int, NEW b \in Int, NEW m \in Nat \ {0}, a < b, b < a + m
    PROVE  a % m # b % m
<1> DEFINE x == a \div m
           y == b \div m
           r == a % m
           s == b % m
<1>1. /\ x \in Int /\ y \in Int /\ r \in 0..(m - 1) /\ s \in 0..(m - 1)
      /\ a = m * x + r /\ b = m * y + s
    BY DivMod
<1> HIDE DEF x, y, r, s
<1>2. SUFFICES ASSUME r = s PROVE FALSE
    BY DEF r, s
<1>3. m * x < m * y /\ m * y < m * x + m
    BY <1>1, <1>2
<1>4. CASE y >= x + 1
    BY <1>1, <1>3, <1>4, Multiples
<1>5. CASE x = y
    BY <1>1, <1>3, <1>5
<1>6. CASE x >= y + 1
    BY <1>1, <1>3, <1>6, Multiples
<1> QED
    BY <1>1, <1>4, <1>5, <1>6

LEMMA PlusIs ==
    ASSUME NEW i \in Idx, NEW k \in Idx
    PROVE  /\ Plus(i, k) = IF i + k < Modulus32 THEN i + k ELSE i + k - Modulus32
           /\ Plus(i, -k) = IF k <= i THEN i - k ELSE i - k + Modulus32
           /\ Plus(i, k) \in Idx /\ Plus(i, -k) \in Idx
<1>1. Modulus32 \in Nat \ {0}
    BY RingSizes
<1>2. (i + k) % Modulus32
          = IF i + k < Modulus32 THEN i + k ELSE i + k - Modulus32
  <2> DEFINE a == i + k
  <2>1. /\ a \in Int /\ a < Modulus32 + Modulus32 /\ a + Modulus32 >= 0
        /\ ~(a < 0) /\ a = i + k
    BY <1>1 DEF Idx
  <2> HIDE DEF a
  <2>2. a % Modulus32 = IF a < 0 THEN a + Modulus32 ELSE
                        IF a < Modulus32 THEN a ELSE a - Modulus32
    BY <1>1, <2>1, NearRemainder
  <2>3. a % Modulus32 = IF a < Modulus32 THEN a ELSE a - Modulus32
    BY <2>1, <2>2
  <2>4. a % Modulus32 = IF i + k < Modulus32 THEN i + k ELSE i + k - Modulus32
    <3> DEFINE q == a % Modulus32
    <3>1. q = IF a < Modulus32 THEN a ELSE a - Modulus32
      BY <2>3
    <3> HIDE DEF q
    <3>2. q = IF i + k < Modulus32 THEN i + k ELSE i + k - Modulus32
      BY <1>1, <2>1, <3>1 DEF Idx
    <3> QED
      BY <3>2 DEF q
  <2> QED
    BY <2>4 DEF a
<1>3. (i + (-k)) % Modulus32 = IF k <= i THEN i - k ELSE i - k + Modulus32
  <2> DEFINE a == i + (-k)
  <2>1. /\ a \in Int /\ a < Modulus32 /\ a + Modulus32 >= 0 /\ a = i - k
        /\ a < Modulus32 + Modulus32
    BY <1>1 DEF Idx
  <2>2. a < 0 <=> ~(k <= i)
    BY <2>1 DEF Idx
  <2> HIDE DEF a
  <2>3. a % Modulus32 = IF a < 0 THEN a + Modulus32 ELSE
                        IF a < Modulus32 THEN a ELSE a - Modulus32
    BY <1>1, <2>1, NearRemainder
  <2>4. a % Modulus32 = IF k <= i THEN i - k ELSE i - k + Modulus32
    BY <2>1, <2>2, <2>3
  <2> QED
    BY <2>4 DEF a
<1> QED
    BY <1>1, <1>2, <1>3 DEF Plus, Idx

LEMMA DistIs ==
    ASSUME NEW i \in Idx, NEW j \in Idx
    PROVE  /\ Dist(i, j) = IF i <= j THEN j - i ELSE j - i + Modulus32
           /\ Dist(i, j) \in Idx
<1>1. Modulus32 \in Nat \ {0}
    BY RingSizes
<1> DEFINE a == j - i
<1>2. /\ a \in Int /\ a < Modulus32 /\ a + Modulus32 >= 0
      /\ a < Modulus32 + Modulus32
    BY <1>1 DEF Idx
<1>3. a < 0 <=> ~(i <= j)
    BY DEF Idx
<1> HIDE DEF a
<1>4. a % Modulus32 = IF a < 0 THEN a + Modulus32 ELSE
                      IF a < Modulus32 THEN a ELSE a - Modulus32
    BY <1>1, <1>2, NearRemainder
<1>5. Dist(i, j) = IF i <= j THEN a ELSE a + Modulus32
    BY <1>2, <1>3, <1>4 DEF Dist, a
<1> QED
    BY <1>1, <1>5 DEF a, Idx

\* One index after, before and away from another.
LEMMA DistMoves ==
    ASSUME NEW i \in Idx, NEW j \in Idx
    PROVE  /\ Plus(i, Dist(i, j)) = j
           /\ Dist(i, j) = 0 <=> i = j
           /\ Dist(i, j) + 1 < Modulus32 => Dist(i, Plus(j, 1)) = Dist(i, j) + 1
           /\ i # j => Dist(Plus(i, 1), j) = Dist(i, j) - 1
           /\ \A k \in 0..Dist(i, j) :
                /\ Dist(i, Plus(j, -k)) = Dist(i, j) - k
                /\ Plus(j, -k) = Plus(i, Dist(i, j) - k)
<1>1. Modulus32 \in Nat /\ 1 \in Idx /\ 1 < Modulus32
    BY RingSizes DEF Idx
<1> DEFINE d == Dist(i, j)
<1>2. d = (IF i <= j THEN j - i ELSE j - i + Modulus32) /\ d \in Idx
    BY DistIs
<1> HIDE DEF d
<1>3. Plus(i, d) = j
  <2>1. Plus(i, d) = IF i + d < Modulus32 THEN i + d ELSE i + d - Modulus32
    BY <1>2, PlusIs
  <2> QED
    BY <1>1, <1>2, <2>1 DEF Idx
<1>4. d = 0 <=> i = j
    BY <1>1, <1>2 DEF Idx
<1>5. ASSUME d + 1 < Modulus32 PROVE Dist(i, Plus(j, 1)) = d + 1
  <2> DEFINE m == Plus(j, 1)
  <2>1. m = (IF j + 1 < Modulus32 THEN j + 1 ELSE j + 1 - Modulus32) /\ m \in Idx
    BY <1>1, PlusIs
  <2> HIDE DEF m
  <2>2. Dist(i, m) = IF i <= m THEN m - i ELSE m - i + Modulus32
    BY <2>1, DistIs
  <2>3. Dist(i, m) = d + 1
    BY <1>1, <1>2, <1>5, <2>1, <2>2 DEF Idx
  <2> QED
    BY <2>3 DEF m
<1>6. ASSUME i # j PROVE Dist(Plus(i, 1), j) = d - 1
  <2> DEFINE m == Plus(i, 1)
  <2>1. m = (IF i + 1 < Modulus32 THEN i + 1 ELSE i + 1 - Modulus32) /\ m \in Idx
    BY <1>1, PlusIs
  <2> HIDE DEF m
  <2>2. Dist(m, j) = IF m <= j THEN j - m ELSE j - m + Modulus32
    BY <2>1, DistIs
  <2>3. Dist(m, j) = d - 1
    BY <1>1, <1>2, <1>6, <2>1, <2>2 DEF Idx
  <2> QED
    BY <2>3 DEF m
<1>7. ASSUME NEW k \in 0..d
      PROVE  Dist(i, Plus(j, -k)) = d - k /\ Plus(j, -k) = Plus(i, d - k)
  <2> DEFINE m == Plus(j, -k)
  <2>1. k \in Idx /\ d - k \in Idx
    BY <1>1, <1>2 DEF Idx
  <2>2. m = (IF k <= j THEN j - k ELSE j - k + Modulus32) /\ m \in Idx
    BY <2>1, PlusIs
  <2> HIDE DEF m
  <2>3. Dist(i, m) = IF i <= m THEN m - i ELSE m - i + Modulus32
    BY <2>2, DistIs
  <2>4. Plus(i, d - k) = IF i + (d - k) < Modulus32 THEN i + (d - k)
                         ELSE i + (d - k) - Modulus32
    BY <2>1, PlusIs
  <2>5. Dist(i, m) = d - k /\ m = Plus(i, d - k)
    BY <1>1, <1>2, <2>1, <2>2, <2>3, <2>4 DEF Idx
  <2> QED
    BY <2>5 DEF m
<1> QED
    BY <1>3, <1>4, <1>5, <1>6, <1>7 DEF d

\* The wrap of an index does not show in its place in the ring.
LEMMA SlotIs ==
    ASSUME NEW i \in Idx, NEW k \in Idx
    PROVE  Plus(i, k) % INPUT_BUF = (i + k) % INPUT_BUF
<1>1. /\ Modulus32 \in Nat \ {0} /\ INPUT_BUF \in Nat \ {0}
      /\ Modulus32 % INPUT_BUF = 0
    BY RingSizes
<1> DEFINE m == Plus(i, k)
<1>2. m = (IF i + k < Modulus32 THEN i + k ELSE i + k - Modulus32) /\ m \in Int
    BY PlusIs DEF Idx
<1> HIDE DEF m
<1>3. CASE i + k < Modulus32
    BY <1>2, <1>3 DEF m
<1>4. CASE ~(i + k < Modulus32)
  <2>1. m + Modulus32 = i + k
    BY <1>1, <1>2, <1>4 DEF Idx
  <2>2. m \in Int /\ Modulus32 \in Int
    BY <1>1, <1>2
  <2>3. (m + Modulus32) % INPUT_BUF = m % INPUT_BUF
    BY <1>1, <2>2, AddMultiple
  <2> QED
    BY <2>1, <2>3 DEF m
<1> QED
    BY <1>3, <1>4

-----------------------------------------------------------------------------
(* Console input: the characters of a stretch of the ring.                 *)

Ring == [0..(INPUT_BUF - 1) -> Keys]
Slot(i) == i % INPUT_BUF

\* The n characters of ring b from index i on.
Text(b, i, n) == [k \in 1..n |-> b[Slot(i + (k - 1))]]

LEMMA SlotType ==
    ASSUME NEW i \in Int
    PROVE  Slot(i) \in 0..(INPUT_BUF - 1)
BY RingSizes, DivMod DEF Slot

\* A sequence given by its elements.
LEMMA SeqOf ==
    ASSUME NEW S, NEW m \in Nat, NEW f \in [1..m -> S]
    PROVE  f \in Seq(S) /\ Len(f) = m
<1>1. f \in Seq(S)
    BY SeqDef
<1>2. Len(f) \in Nat /\ 1..Len(f) = 1..m
    BY <1>1, LenProperties
<1>3. Len(f) <= m
  <2>1. CASE Len(f) = 0
    BY <2>1
  <2>2. CASE Len(f) # 0
    BY <1>2, <2>2
  <2> QED
    BY <2>1, <2>2
<1>4. m <= Len(f)
  <2>1. CASE m = 0
    BY <1>2, <2>1
  <2>2. CASE m # 0
    BY <1>2, <2>2
  <2> QED
    BY <2>1, <2>2
<1> QED
    BY <1>1, <1>2, <1>3, <1>4

LEMMA TextIs ==
    ASSUME NEW b \in Ring, NEW i \in Nat, NEW n \in Nat
    PROVE  /\ Text(b, i, n) \in Seq(Keys) /\ Len(Text(b, i, n)) = n
           /\ \A k \in 1..n : Text(b, i, n)[k] = b[Slot(i + (k - 1))]
<1>1. ASSUME NEW k \in 1..n PROVE b[Slot(i + (k - 1))] \in Keys
  <2>1. Slot(i + (k - 1)) \in 0..(INPUT_BUF - 1)
    BY SlotType
  <2> QED
    BY <2>1 DEF Ring
<1>2. Text(b, i, n) \in [1..n -> Keys]
    BY <1>1 DEF Text
<1> QED
    BY <1>2, SeqOf DEF Text

\* A character put n places after index i leaves the ones before it alone.
LEMMA TextKept ==
    ASSUME NEW b \in Ring, NEW i \in Nat, NEW n \in 0..(INPUT_BUF - 1),
           NEW m \in 0..n, NEW c \in Keys
    PROVE  Text([b EXCEPT ![Slot(i + n)] = c], i, m) = Text(b, i, m)
<1> DEFINE a == [b EXCEPT ![Slot(i + n)] = c]
<1>1. INPUT_BUF \in Nat \ {0}
    BY RingSizes
<1>2. ASSUME NEW k \in 1..m
      PROVE  a[Slot(i + (k - 1))] = b[Slot(i + (k - 1))]
  <2>1. /\ i + (k - 1) \in Int /\ i + n \in Int /\ i + (k - 1) < i + n
        /\ i + n < i + (k - 1) + INPUT_BUF
    BY <1>1
  <2>2. Slot(i + (k - 1)) # Slot(i + n)
    BY <1>1, <2>1, NearDiffer DEF Slot
  <2>3. Slot(i + (k - 1)) \in 0..(INPUT_BUF - 1)
    BY <2>1, SlotType
  <2> QED
    BY <2>2, <2>3 DEF Ring
<1> HIDE DEF a
<1>3. Text(a, i, m) = Text(b, i, m)
    BY <1>2 DEF Text
<1> QED
    BY <1>3 DEF a

LEMMA TextAppend ==
    ASSUME NEW b \in Ring, NEW i \in Nat, NEW n \in 0..(INPUT_BUF - 1),
           NEW c \in Keys
    PROVE  Text([b EXCEPT ![Slot(i + n)] = c], i, n + 1) = Append(Text(b, i, n), c)
<1> DEFINE a == [b EXCEPT ![Slot(i + n)] = c]
           s == Text(a, i, n + 1)
           t == Append(Text(b, i, n), c)
<1>1. INPUT_BUF \in Nat \ {0} /\ n \in Nat /\ n + 1 \in Nat /\ n \in 0..n
    BY RingSizes
<1>2. Slot(i + n) \in 0..(INPUT_BUF - 1)
    BY <1>1, SlotType
<1>3. a \in Ring /\ a[Slot(i + n)] = c
    BY <1>2 DEF Ring
<1>4. Text(a, i, n) = Text(b, i, n)
    BY <1>1, TextKept
<1>5. /\ Text(b, i, n) \in Seq(Keys) /\ Len(Text(b, i, n)) = n
    BY <1>1, TextIs
<1> HIDE DEF a
<1>6. /\ s \in Seq(Keys) /\ Len(s) = n + 1
      /\ \A k \in 1..(n + 1) : s[k] = a[Slot(i + (k - 1))]
    BY <1>1, <1>3, TextIs
<1>7. \A k \in 1..n : Text(b, i, n)[k] = a[Slot(i + (k - 1))]
  <2>1. \A k \in 1..n : Text(a, i, n)[k] = a[Slot(i + (k - 1))]
    BY <1>1, <1>3, TextIs
  <2> QED
    BY <1>4, <2>1, Zenon
<1>8. /\ t \in Seq(Keys) /\ Len(t) = n + 1 /\ t[n + 1] = c
      /\ \A k \in 1..n : t[k] = Text(b, i, n)[k]
    BY <1>5, AppendProperties
<1>9. s[n + 1] = c
  <2>1. n + 1 \in 1..(n + 1) /\ i + ((n + 1) - 1) = i + n
    BY <1>1
  <2>2. s[n + 1] = a[Slot(i + ((n + 1) - 1))]
    BY <1>6, <2>1
  <2> QED
    BY <1>3, <2>1, <2>2
<1> HIDE DEF s, t
<1>10. ASSUME NEW k \in 1..Len(s) PROVE s[k] = t[k]
  <2>1. k \in 1..n \/ k = n + 1
    BY <1>1, <1>6
  <2> QED
    BY <1>1, <1>6, <1>7, <1>8, <1>9, <2>1
<1>11. s = t
    BY <1>6, <1>8, <1>10, SeqEqual
<1> QED
    BY <1>11 DEF s, t, a

\* Index j and the m after it are in the places n after i and those after it.
Follows(i, n, j, m) == \A k \in 0..m : Slot(j + k) = Slot(i + (n + k))

\* Two stretches one after the other.
LEMMA TextConcat ==
    ASSUME NEW b \in Ring, NEW i \in Nat, NEW j \in Nat, NEW n \in Nat,
           NEW m \in Nat, Follows(i, n, j, m)
    PROVE  Text(b, i, n + m) = Text(b, i, n) \o Text(b, j, m)
<1> DEFINE u == Text(b, i, n)
           v == Text(b, j, m)
           s == Text(b, i, n + m)
           t == u \o v
<1>1. n + m \in Nat
    OBVIOUS
<1>2. /\ u \in Seq(Keys) /\ Len(u) = n
      /\ \A k \in 1..n : u[k] = b[Slot(i + (k - 1))]
    BY TextIs
<1>3. /\ v \in Seq(Keys) /\ Len(v) = m
      /\ \A k \in 1..m : v[k] = b[Slot(j + (k - 1))]
    BY TextIs
<1>4. /\ s \in Seq(Keys) /\ Len(s) = n + m
      /\ \A k \in 1..(n + m) : s[k] = b[Slot(i + (k - 1))]
    BY <1>1, TextIs
<1> HIDE DEF u, v, s
<1>5. /\ t \in Seq(Keys) /\ Len(t) = n + m
      /\ \A k \in 1..(n + m) : t[k] = IF k <= n THEN u[k] ELSE v[k - n]
    BY <1>2, <1>3, ConcatProperties
<1> HIDE DEF t
<1>6. ASSUME NEW k \in 1..Len(s) PROVE s[k] = t[k]
  <2>1. k \in 1..(n + m)
    BY <1>4
  <2>2. CASE k <= n
    <3>1. k \in 1..n
      BY <2>1, <2>2
    <3>2. t[k] = u[k]
      BY <1>5, <2>1, <2>2
    <3> QED
      BY <1>2, <1>4, <2>1, <3>1, <3>2
  <2>3. CASE ~(k <= n)
    <3>1. k - n \in 1..m /\ (k - n) - 1 \in 0..m /\ n + ((k - n) - 1) = k - 1
      BY <2>1, <2>3
    <3>2. t[k] = b[Slot(j + ((k - n) - 1))]
      BY <1>3, <1>5, <2>1, <2>3, <3>1
    <3>3. Slot(j + ((k - n) - 1)) = Slot(i + (n + ((k - n) - 1)))
      BY <3>1 DEF Follows
    <3> QED
      BY <1>4, <2>1, <3>1, <3>2, <3>3
  <2> QED
    BY <2>2, <2>3
<1>7. s = t
    BY <1>4, <1>5, <1>6, SeqEqual
<1> QED
    BY <1>7 DEF s, t, u, v

\* The first character taken off.
LEMMA TextTail ==
    ASSUME NEW b \in Ring, NEW i \in Idx, NEW n \in Nat \ {0}, n <= INPUT_BUF
    PROVE  /\ Text(b, i, n) # <<>> /\ Head(Text(b, i, n)) = b[Slot(i)]
           /\ Text(b, Plus(i, 1), n - 1) = Tail(Text(b, i, n))
<1> DEFINE t == Text(b, i, n)
           j == Plus(i, 1)
           s == Text(b, j, n - 1)
<1>1. /\ Modulus32 \in Nat /\ INPUT_BUF \in Nat \ {0} /\ INPUT_BUF < Modulus32
      /\ 1 \in Idx /\ i \in Nat /\ n - 1 \in Nat
      /\ Modulus32 % INPUT_BUF = 0
    BY RingSizes DEF Idx
<1>2. /\ t \in Seq(Keys) /\ Len(t) = n
      /\ \A k \in 1..n : t[k] = b[Slot(i + (k - 1))]
    BY <1>1, TextIs
<1>3. j \in Idx /\ j = IF i + 1 < Modulus32 THEN i + 1 ELSE i + 1 - Modulus32
    BY <1>1, PlusIs
<1>4. j \in Nat
    BY <1>3 DEF Idx
<1> HIDE DEF j
<1>5. /\ s \in Seq(Keys) /\ Len(s) = n - 1
      /\ \A k \in 1..(n - 1) : s[k] = b[Slot(j + (k - 1))]
  <2>1. b \in Ring
    OBVIOUS
  <2>2. \A m \in Nat : /\ Text(b, j, m) \in Seq(Keys) /\ Len(Text(b, j, m)) = m
                      /\ \A k \in 1..m : Text(b, j, m)[k] = b[Slot(j + (k - 1))]
    BY ONLY <1>4, <2>1, TextIs
  <2> QED BY <1>1, <2>2 DEF s
<1> HIDE DEF s, t
<1>6. t # <<>>
    BY <1>2, EmptySeq
<1>7. /\ Tail(t) \in Seq(Keys) /\ Len(Tail(t)) = n - 1
      /\ \A k \in 1..(n - 1) : Tail(t)[k] = t[k + 1]
    BY <1>2, <1>6, HeadTailProperties
<1>8. Head(t) = b[Slot(i)]
  <2>1. Head(t) = t[1]
    BY <1>2, <1>6
  <2>2. 1 \in 1..n /\ i + (1 - 1) = i
    BY <1>1
  <2> QED
    BY <1>2, <2>1, <2>2
<1>9. ASSUME NEW k \in 1..Len(s) PROVE s[k] = Tail(t)[k]
  <2>1. k \in 1..(n - 1) /\ k + 1 \in 1..n
    BY <1>1, <1>5
  <2>2. Tail(t)[k] = b[Slot(i + ((k + 1) - 1))]
    BY <1>2, <1>7, <2>1
  <2>3. Slot(j + (k - 1)) = Slot(i + ((k + 1) - 1))
    <3> DEFINE x == j + (k - 1)
    <3>1. CASE i + 1 < Modulus32
      BY <1>1, <1>3, <2>1, <3>1
    <3>2. CASE ~(i + 1 < Modulus32)
      <4>1. x \in Int /\ x + Modulus32 = i + ((k + 1) - 1)
        BY <1>1, <1>3, <2>1, <3>2
      <4> HIDE DEF x
      <4>a. Modulus32 \in Int /\ Modulus32 % INPUT_BUF = 0 /\ INPUT_BUF \in Nat \ {0}
        BY <1>1
      <4>2. (x + Modulus32) % INPUT_BUF = x % INPUT_BUF
        BY <4>a, <4>1, AddMultiple
      <4> QED
        BY <4>1, <4>2 DEF Slot, x
    <3> QED
      BY <3>1, <3>2
  <2> QED
    BY <1>5, <2>1, <2>2, <2>3
<1>10. s = Tail(t)
    BY <1>5, <1>7, <1>9, SeqEqual
<1> QED
    BY <1>6, <1>8, <1>10 DEF s, t, j

\* The last characters taken off.
LEMMA TextFront ==
    ASSUME NEW b \in Ring, NEW i \in Nat, NEW n \in Nat, NEW m \in 0..n
    PROVE  Text(b, i, m) = SubSeq(Text(b, i, n), 1, m)
<1> DEFINE t == Text(b, i, n)
           s == Text(b, i, m)
           u == SubSeq(t, 1, m)
<1>1. m \in Nat
    OBVIOUS
<1>2. /\ t \in Seq(Keys) /\ Len(t) = n
      /\ \A k \in 1..n : t[k] = b[Slot(i + (k - 1))]
    BY TextIs
<1>3. /\ s \in Seq(Keys) /\ Len(s) = m
      /\ \A k \in 1..m : s[k] = b[Slot(i + (k - 1))]
    BY <1>1, TextIs
<1> HIDE DEF s, t
<1>4. \A k \in 1..m : t[k] \in Keys
    BY <1>2
<1>5. /\ u \in Seq(Keys) /\ Len(u) = (IF 1 <= m THEN m - 1 + 1 ELSE 0)
      /\ \A k \in 1..(m - 1 + 1) : u[k] = t[1 + k - 1]
    BY <1>1, <1>4, SubSeqProperties
<1> HIDE DEF u
<1>6. Len(u) = m /\ \A k \in 1..m : u[k] = t[k]
  <2>1. Len(u) = m /\ m - 1 + 1 = m
    BY <1>1, <1>5
  <2>2. ASSUME NEW k \in 1..m PROVE u[k] = t[k]
    <3>1. k \in 1..(m - 1 + 1) /\ 1 + k - 1 = k
      BY <2>1
    <3> QED
      BY <1>5, <3>1
  <2> QED
    BY <2>1, <2>2
<1>a. ASSUME NEW k \in 1..Len(s) PROVE s[k] = u[k]
  <2>1. k \in 1..m /\ k \in 1..n
    BY <1>3
  <2>2. s[k] = t[k]
    BY <1>2, <1>3, <2>1
  <2>3. u[k] = t[k]
    BY <1>6, <2>1
  <2> QED
    BY <2>2, <2>3
<1>7. s = u
    BY <1>3, <1>5, <1>6, <1>a, SeqEqual
<1> QED
    BY <1>7 DEF s, t, u

-----------------------------------------------------------------------------
(* Console input: what a step does to the entered characters and the line. *)

\* The characters of ring b from index i to index j.
Stretch(b, i, j) == Text(b, i, Dist(i, j))

\* The three indices are in order, at most a ring apart, and the line being
\* typed holds no newline: one would have entered it.
RingRight(b, r, w, e) ==
    /\ b \in Ring /\ r \in Idx /\ w \in Idx /\ e \in Idx
    /\ Dist(r, w) + Dist(w, e) <= INPUT_BUF
    /\ \A k \in 1..Dist(w, e) : b[Slot(w + (k - 1))] # Newline

LEMMA DistSum ==
    ASSUME NEW i \in Idx, NEW j \in Idx, NEW k \in Idx,
           Dist(i, j) + Dist(j, k) < Modulus32
    PROVE  Dist(i, k) = Dist(i, j) + Dist(j, k)
<1>1. Modulus32 \in Nat
    BY RingSizes
<1>2. /\ Dist(i, j) = IF i <= j THEN j - i ELSE j - i + Modulus32
      /\ Dist(j, k) = IF j <= k THEN k - j ELSE k - j + Modulus32
      /\ Dist(i, k) = IF i <= k THEN k - i ELSE k - i + Modulus32
    BY DistIs
<1> QED
    BY <1>1, <1>2 DEF Idx

\* The sizes of the two stretches.
LEMMA RingCounts ==
    ASSUME NEW b, NEW r, NEW w, NEW e, RingRight(b, r, w, e)
    PROVE  /\ Dist(r, w) \in Nat /\ Dist(w, e) \in Nat
           /\ Dist(r, e) = Dist(r, w) + Dist(w, e)
           /\ Stretch(b, r, w) \in Seq(Keys) /\ Len(Stretch(b, r, w)) = Dist(r, w)
           /\ Stretch(b, w, e) \in Seq(Keys) /\ Len(Stretch(b, w, e)) = Dist(w, e)
<1>1. /\ b \in Ring /\ r \in Idx /\ w \in Idx /\ e \in Idx
      /\ Dist(r, w) + Dist(w, e) <= INPUT_BUF
    BY DEF RingRight
<1>2. /\ Modulus32 \in Nat /\ INPUT_BUF \in Nat /\ INPUT_BUF < Modulus32
    BY RingSizes
<1>3. Dist(r, w) \in Idx /\ Dist(w, e) \in Idx
    BY <1>1, DistIs
<1>4. Dist(r, w) \in Nat /\ Dist(w, e) \in Nat /\ r \in Nat /\ w \in Nat
    BY <1>1, <1>3 DEF Idx
<1>5. Dist(r, w) + Dist(w, e) < Modulus32
    BY <1>1, <1>2, <1>4
<1>6. Dist(r, e) = Dist(r, w) + Dist(w, e)
    BY <1>1, <1>5, DistSum
<1> QED
    BY <1>1, <1>4, <1>6, TextIs DEF Stretch

\* Characters are taken off the end of the line.
LEMMA RingErase ==
    ASSUME NEW b, NEW r, NEW w, NEW e, RingRight(b, r, w, e),
           NEW k \in 0..Dist(w, e)
    PROVE  /\ RingRight(b, r, w, Plus(e, -k))
           /\ Stretch(b, w, Plus(e, -k))
                = SubSeq(Stretch(b, w, e), 1, Len(Stretch(b, w, e)) - k)
<1>1. /\ b \in Ring /\ r \in Idx /\ w \in Idx /\ e \in Idx /\ w \in Nat
      /\ Dist(r, w) + Dist(w, e) <= INPUT_BUF
      /\ \A j \in 1..Dist(w, e) : b[Slot(w + (j - 1))] # Newline
    BY DEF RingRight, Idx
<1>2. /\ Dist(r, w) \in Nat /\ Dist(w, e) \in Nat /\ INPUT_BUF \in Nat
      /\ Len(Stretch(b, w, e)) = Dist(w, e)
    BY RingCounts, RingSizes
<1> DEFINE m == Plus(e, -k)
<1>3. m \in Idx
  <2>1. Dist(w, e) \in Idx
    BY <1>1, DistIs
  <2>2. k \in Idx
    BY <2>1, RingSizes DEF Idx
  <2> QED
    BY <1>1, <2>2, PlusIs
<1>4. Dist(w, m) = Dist(w, e) - k
    BY <1>1, DistMoves
<1> HIDE DEF m
<1>5. Dist(w, e) - k \in 0..Dist(w, e)
    BY <1>2
<1>6. Text(b, w, Dist(w, e) - k) = SubSeq(Text(b, w, Dist(w, e)), 1, Dist(w, e) - k)
    BY <1>1, <1>2, <1>5, TextFront
<1>7. Dist(r, w) + Dist(w, m) <= INPUT_BUF
    BY <1>1, <1>2, <1>4, <1>5
<1>8. \A j \in 1..Dist(w, m) : b[Slot(w + (j - 1))] # Newline
    BY <1>1, <1>2, <1>4, <1>5
<1>9. RingRight(b, r, w, m)
    BY <1>1, <1>3, <1>7, <1>8 DEF RingRight
<1>10. Stretch(b, w, m) = SubSeq(Stretch(b, w, e), 1, Len(Stretch(b, w, e)) - k)
    BY <1>2, <1>4, <1>6 DEF Stretch
<1> QED
    BY <1>9, <1>10 DEF m

\* A character is read.
LEMMA RingTake ==
    ASSUME NEW b, NEW r, NEW w, NEW e, RingRight(b, r, w, e), r # w
    PROVE  /\ RingRight(b, Plus(r, 1), w, e)
           /\ Stretch(b, r, w) # <<>> /\ Head(Stretch(b, r, w)) = b[Slot(r)]
           /\ Stretch(b, Plus(r, 1), w) = Tail(Stretch(b, r, w))
<1>1. /\ b \in Ring /\ r \in Idx /\ w \in Idx /\ e \in Idx
      /\ Dist(r, w) + Dist(w, e) <= INPUT_BUF
      /\ \A j \in 1..Dist(w, e) : b[Slot(w + (j - 1))] # Newline
    BY DEF RingRight
<1>2. /\ Dist(r, w) \in Nat /\ Dist(w, e) \in Nat /\ INPUT_BUF \in Nat \ {0}
    BY RingCounts, RingSizes
<1>3. Dist(r, w) # 0 /\ Dist(Plus(r, 1), w) = Dist(r, w) - 1
    BY <1>1, DistMoves
<1>4. Plus(r, 1) \in Idx
  <2>1. 1 \in Idx
    BY RingSizes DEF Idx
  <2> QED
    BY <1>1, <2>1, PlusIs
<1>5. Dist(r, w) \in Nat \ {0} /\ Dist(r, w) <= INPUT_BUF
    BY <1>1, <1>2, <1>3
<1>6. /\ Text(b, r, Dist(r, w)) # <<>> /\ Head(Text(b, r, Dist(r, w))) = b[Slot(r)]
      /\ Text(b, Plus(r, 1), Dist(r, w) - 1) = Tail(Text(b, r, Dist(r, w)))
    BY <1>1, <1>5, TextTail
<1>7. Dist(Plus(r, 1), w) + Dist(w, e) <= INPUT_BUF
    BY <1>1, <1>2, <1>3
<1> QED
    BY <1>1, <1>3, <1>4, <1>6, <1>7 DEF RingRight, Stretch

\* The entered characters and those that follow them.
LEMMA RingJoin ==
    ASSUME NEW b \in Ring, NEW r \in Idx, NEW w \in Idx, NEW m \in Nat
    PROVE  Text(b, r, Dist(r, w) + m) = Text(b, r, Dist(r, w)) \o Text(b, w, m)
<1> DEFINE n == Dist(r, w)
<1>1. /\ Modulus32 \in Int /\ INPUT_BUF \in Nat \ {0} /\ Modulus32 % INPUT_BUF = 0
      /\ r \in Nat /\ w \in Nat
    BY RingSizes DEF Idx
<1>2. n \in Idx
    BY DistIs
<1>3. w = IF r + n < Modulus32 THEN r + n ELSE r + n - Modulus32
    BY <1>2, DistMoves, PlusIs
<1>4. n \in Nat
    BY <1>2 DEF Idx
<1> HIDE DEF n
<1>5. ASSUME NEW k \in 0..m PROVE Slot(w + k) = Slot(r + (n + k))
  <2> DEFINE x == w + k
  <2>1. x \in Int /\ (x = r + (n + k) \/ x + Modulus32 = r + (n + k))
    BY <1>1, <1>3, <1>4
  <2> HIDE DEF x
  <2>2. (x + Modulus32) % INPUT_BUF = x % INPUT_BUF
    BY <1>1, <2>1, AddMultiple
  <2>3. x % INPUT_BUF = (r + (n + k)) % INPUT_BUF
    BY <2>1, <2>2, Zenon
  <2> QED
    BY <2>3 DEF Slot, x
<1>6. Follows(r, n, w, m)
    BY <1>5 DEF Follows
<1>7. r \in Nat /\ w \in Nat
    BY <1>1
<1>8. Text(b, r, n + m) = Text(b, r, n) \o Text(b, w, m)
    BY <1>4, <1>6, <1>7, TextConcat
<1> QED
    BY <1>8 DEF n

\* A character is put at the end of the line, which it may enter.
LEMMA RingType ==
    ASSUME NEW b, NEW r, NEW w, NEW e, RingRight(b, r, w, e),
           Dist(r, e) < INPUT_BUF, NEW c \in Keys, NEW a,
           a = [b EXCEPT ![Slot(e)] = c]
    PROVE  /\ Plus(e, 1) = Plus(r, INPUT_BUF) <=>
                Len(Stretch(b, r, w)) + Len(Stretch(b, w, e)) + 1 = INPUT_BUF
           /\ RingRight(a, r, Plus(e, 1), Plus(e, 1))
           /\ Stretch(a, r, Plus(e, 1))
                = Stretch(b, r, w) \o Append(Stretch(b, w, e), c)
           /\ Stretch(a, Plus(e, 1), Plus(e, 1)) = <<>>
           /\ c # Newline => RingRight(a, r, w, Plus(e, 1))
           /\ Stretch(a, r, w) = Stretch(b, r, w)
           /\ Stretch(a, w, Plus(e, 1)) = Append(Stretch(b, w, e), c)
<1>1. /\ b \in Ring /\ r \in Idx /\ w \in Idx /\ e \in Idx /\ r \in Nat /\ w \in Nat
      /\ Dist(r, w) + Dist(w, e) <= INPUT_BUF
      /\ \A j \in 1..Dist(w, e) : b[Slot(w + (j - 1))] # Newline
    BY DEF RingRight, Idx
<1>2. /\ Modulus32 \in Nat \ {0} /\ INPUT_BUF \in Nat \ {0} /\ INPUT_BUF < Modulus32
      /\ Modulus32 % INPUT_BUF = 0 /\ 1 \in Idx /\ INPUT_BUF \in Idx
    BY RingSizes DEF Idx
<1>3. /\ Dist(r, w) \in Nat /\ Dist(w, e) \in Nat
      /\ Dist(r, e) = Dist(r, w) + Dist(w, e)
      /\ Len(Stretch(b, r, w)) = Dist(r, w) /\ Len(Stretch(b, w, e)) = Dist(w, e)
    BY RingCounts
<1> DEFINE n1 == Dist(r, w)
           n2 == Dist(w, e)
           f == Plus(e, 1)
<1>4. f \in Idx
    BY <1>1, <1>2, PlusIs
<1>5. n1 \in Idx /\ n2 \in Idx /\ n1 + n2 \in Idx
    BY <1>1, <1>2, <1>3, DistIs DEF Idx
<1>6. Dist(r, f) = n1 + n2 + 1 /\ Dist(w, f) = n2 + 1 /\ Dist(f, f) = 0
  <2>1. Dist(r, e) + 1 < Modulus32 /\ Dist(w, e) + 1 < Modulus32
    BY <1>1, <1>2, <1>3
  <2>2. Dist(r, f) = Dist(r, e) + 1 /\ Dist(w, f) = Dist(w, e) + 1
    BY <1>1, <2>1, DistMoves
  <2>3. Dist(f, f) = 0
    BY <1>4, DistMoves
  <2> QED
    BY <1>3, <2>2, <2>3
<1>7. e = Plus(w, n2) /\ e = Plus(r, n1 + n2) /\ w = Plus(r, n1)
    BY <1>1, <1>3, DistMoves
<1>8. Slot(e) = Slot(w + n2) /\ Slot(e) = Slot(r + (n1 + n2))
  <2>1. Plus(w, n2) % INPUT_BUF = (w + n2) % INPUT_BUF
    BY <1>1, <1>5, SlotIs
  <2>2. Plus(r, n1 + n2) % INPUT_BUF = (r + (n1 + n2)) % INPUT_BUF
    BY <1>1, <1>5, SlotIs
  <2> QED
    BY <1>7, <2>1, <2>2, Zenon DEF Slot
<1>9. a = [b EXCEPT ![Slot(w + n2)] = c] /\ a = [b EXCEPT ![Slot(r + (n1 + n2))] = c]
    BY <1>8, Zenon
<1>10. f = Plus(r, INPUT_BUF) <=> n1 + n2 + 1 = INPUT_BUF
  <2>1. Plus(r, INPUT_BUF) \in Idx /\ Plus(r, Dist(r, f)) = f
    <3>1. r \in Idx /\ f \in Idx /\ INPUT_BUF \in Idx
      BY <1>1, <1>2, <1>4
    <3> QED BY ONLY <3>1, PlusIs, DistMoves
  <2>2. Plus(r, INPUT_BUF) = IF r + INPUT_BUF < Modulus32 THEN r + INPUT_BUF
                             ELSE r + INPUT_BUF - Modulus32
    BY <1>1, <1>2, PlusIs
  <2>3. Dist(r, f) = IF r <= f THEN f - r ELSE f - r + Modulus32
    BY <1>1, <1>4, DistIs
  <2>4. r \in 0..(Modulus32 - 1) /\ f \in 0..(Modulus32 - 1)
    BY <1>1, <1>4 DEF Idx
  <2>5. Dist(r, f) \in Nat /\ Dist(r, f) <= INPUT_BUF
    BY <1>2, <1>3, <1>6
  <2> HIDE DEF f
  <2>6. f = Plus(r, INPUT_BUF) <=> Dist(r, f) = INPUT_BUF
    BY <1>2, <2>2, <2>3, <2>4, <2>5
  <2> QED
    BY <1>6, <2>6
<1> HIDE DEF n1, n2, f
<1>11. n1 \in Nat /\ n2 \in Nat /\ n1 + n2 < INPUT_BUF
    BY <1>3 DEF n1, n2
<1>12. a \in Ring
  <2>1. Slot(e) \in 0..(INPUT_BUF - 1)
    BY <1>1, SlotType DEF Idx
  <2> QED
    BY <1>1, <2>1 DEF Ring
<1>13. Text(a, r, n1) = Text(b, r, n1)
  <2>1. n1 + n2 \in 0..(INPUT_BUF - 1) /\ n1 \in 0..(n1 + n2)
    BY <1>2, <1>11
  <2>2. Text([b EXCEPT ![Slot(r + (n1 + n2))] = c], r, n1) = Text(b, r, n1)
    BY <1>1, <2>1, TextKept
  <2> QED
    BY <1>9, <2>2, Zenon
<1>14. Text(a, w, n2 + 1) = Append(Text(b, w, n2), c)
  <2>1. n2 \in 0..(INPUT_BUF - 1)
    BY <1>2, <1>11
  <2>2. Text([b EXCEPT ![Slot(w + n2)] = c], w, n2 + 1) = Append(Text(b, w, n2), c)
    BY <1>1, <2>1, TextAppend
  <2> QED
    BY <1>9, <2>2, Zenon
<1>15. Text(a, r, n1 + n2 + 1) = Text(b, r, n1) \o Append(Text(b, w, n2), c)
  <2>1. n2 + 1 \in Nat /\ n1 + (n2 + 1) = n1 + n2 + 1
    BY <1>11
  <2>2. Text(a, r, n1 + (n2 + 1)) = Text(a, r, n1) \o Text(a, w, n2 + 1)
    BY <1>1, <1>12, <2>1, RingJoin DEF n1
  <2> QED
    BY <1>13, <1>14, <2>1, <2>2
<1>16. Text(a, f, 0) = <<>>
  <2>1. f \in Nat /\ 0 \in Nat
    BY <1>4 DEF Idx
  <2>2. Text(a, f, 0) \in Seq(Keys) /\ Len(Text(a, f, 0)) = 0
    BY <1>12, <2>1, TextIs
  <2> QED
    BY <2>2, EmptySeq
<1>17. RingRight(a, r, f, f)
    BY <1>1, <1>2, <1>4, <1>6, <1>11, <1>12 DEF RingRight
<1>18. ASSUME c # Newline PROVE RingRight(a, r, w, f)
  <2>1. Dist(r, w) + Dist(w, f) <= INPUT_BUF
    BY <1>2, <1>6, <1>11 DEF n1
  <2>2. ASSUME NEW k \in 1..(n2 + 1) PROVE a[Slot(w + (k - 1))] # Newline
    <3>1. n2 + 1 \in Nat
      BY <1>11
    <3>2. Text(a, w, n2 + 1)[k] = a[Slot(w + (k - 1))]
      <4>1. a \in Ring /\ w \in Nat
        BY <1>1, <1>12
      <4>2. \A j \in 1..(n2 + 1) : Text(a, w, n2 + 1)[j] = a[Slot(w + (j - 1))]
        BY ONLY <3>1, <4>1, TextIs
      <4> QED BY ONLY k \in 1..(n2 + 1), <4>2
    <3>3. /\ Text(b, w, n2) \in Seq(Keys) /\ Len(Text(b, w, n2)) = n2
          /\ \A j \in 1..n2 : Text(b, w, n2)[j] = b[Slot(w + (j - 1))]
      BY <1>1, <1>11, TextIs
    <3>4. /\ Append(Text(b, w, n2), c)[n2 + 1] = c
          /\ \A j \in 1..n2 : Append(Text(b, w, n2), c)[j] = Text(b, w, n2)[j]
      BY <3>3, AppendProperties
    <3>5. k \in 1..n2 \/ k = n2 + 1
      BY <1>11
    <3>6. \A j \in 1..n2 : b[Slot(w + (j - 1))] # Newline
      BY <1>1 DEF n2
    <3>7. Append(Text(b, w, n2), c)[k] # Newline
      BY <1>18, <3>3, <3>4, <3>5, <3>6
    <3> QED
      BY <1>14, <3>2, <3>7
  <2> QED
    BY <1>1, <1>4, <1>6, <1>12, <2>1, <2>2 DEF RingRight
<1> QED
    BY <1>3, <1>6, <1>10, <1>13, <1>14, <1>15, <1>16, <1>17, <1>18
    DEF Stretch, n1, n2, f

\* No character of the line being typed is a newline.
LEMMA LineChar ==
    ASSUME NEW b, NEW r, NEW w, NEW e, RingRight(b, r, w, e),
           NEW j \in 1..Dist(w, e)
    PROVE  b[Plus(e, -j) % INPUT_BUF] # Newline
<1>1. /\ w \in Idx /\ e \in Idx
      /\ \A k \in 1..Dist(w, e) : b[Slot(w + (k - 1))] # Newline
    BY DEF RingRight
<1>2. Dist(w, e) \in Nat /\ Dist(w, e) \in Idx
    BY <1>1, RingCounts, DistIs
<1> DEFINE n == Dist(w, e) - j
<1>3. j \in 0..Dist(w, e) /\ n + 1 \in 1..Dist(w, e) /\ (n + 1) - 1 = n /\ n \in Idx
    BY <1>2, RingSizes DEF Idx
<1>4. Plus(e, -j) = Plus(w, n)
    BY <1>1, <1>3, DistMoves
<1> HIDE DEF n
<1>5. Plus(w, n) % INPUT_BUF = (w + n) % INPUT_BUF
    BY <1>1, <1>3, SlotIs
<1>6. b[Slot(w + ((n + 1) - 1))] # Newline
    BY <1>1, <1>3
<1>7. b[Slot(w + n)] # Newline
    BY <1>3, <1>6
<1> QED
    BY <1>4, <1>5, <1>7, Zenon DEF Slot

-----------------------------------------------------------------------------
(* Console input: the inductive invariant and the line editor.             *)

ConsPlaces == {"out", "entry", "locked", "tosleep", "sleep"}

ConsTypes ==
    /\ input \in [buf : Ring, r : Idx, w : Idx, e : Idx]
    /\ consLock \in Readers \cup {NoReader}
    /\ cpc \in [Readers -> ConsPlaces]
    /\ left \in [Readers -> Nat] /\ got \in [Readers -> Seq(Keys)]

\* A reader between its look at the ring and its sleep has the lock, and there
\* is nothing to read for it nor for those asleep.
ReadersWait ==
    \A p \in Readers :
        /\ cpc[p] \in {"locked", "tosleep"} <=> consLock = p
        /\ cpc[p] \in {"tosleep", "sleep"} => input.r = input.w

\* A call that goes on has not got the end of a line.
CallsRight ==
    \A p \in Readers :
        /\ cpc[p] = "out" => got[p] = <<>>
        /\ left[p] > 0 => got[p] = <<>> \/ got[p][Len(got[p])] # Newline

InputRight == RingRight(input.buf, input.r, input.w, input.e)

ConsInv == ConsTypes /\ InputRight /\ ReadersWait /\ CallsRight

Entered == Stretch(input.buf, input.r, input.w)
Line == Stretch(input.buf, input.w, input.e)

\* What a step means to the line editor.
EditorStep ==
    Editor!EdNext \/ UNCHANGED <<Between(input.r, input.w),
                                 Between(input.w, input.e), got>>

LEMMA BetweenIs ==
    ASSUME NEW i \in Idx, NEW j \in Idx
    PROVE  Between(i, j) = Stretch(input.buf, i, j)
<1>1. Dist(i, j) \in Idx
    BY DistIs
<1>2. ASSUME NEW k \in 1..Dist(i, j)
      PROVE  At(Plus(i, k - 1)) = input.buf[Slot(i + (k - 1))]
  <2>1. k - 1 \in Idx
    BY <1>1, RingSizes DEF Idx
  <2>2. Plus(i, k - 1) % INPUT_BUF = (i + (k - 1)) % INPUT_BUF
    BY <2>1, SlotIs
  <2> QED
    BY <2>2, Zenon DEF At, Slot
<1> QED
    BY <1>2 DEF Between, Stretch, Text

LEMMA EditorView ==
    ConsInv => /\ Between(input.r, input.w) = Entered
               /\ Between(input.w, input.e) = Line
<1> SUFFICES ASSUME ConsInv
             PROVE  /\ Between(input.r, input.w) = Entered
                    /\ Between(input.w, input.e) = Line
    OBVIOUS
<1>1. input.r \in Idx /\ input.w \in Idx /\ input.e \in Idx
    BY DEF ConsInv, InputRight, RingRight
<1> QED
    BY <1>1, BetweenIs DEF Entered, Line

\* The facts of the two views on both sides of a step.
LEMMA StepView ==
    ASSUME ConsInv, ConsInv'
    PROVE  /\ Between(input.r, input.w) = Entered
           /\ Between(input.w, input.e) = Line
           /\ Between(input.r, input.w)' = Entered'
           /\ Between(input.w, input.e)' = Line'
<1>1. (Between(input.r, input.w) = Entered /\ Between(input.w, input.e) = Line)'
    BY EditorView, PTL
<1> QED
    BY <1>1, EditorView

\* A step that leaves the ring and the readers' characters alone.
LEMMA RingSame ==
    ASSUME ConsInv, ConsInv', input' = input, got' = got
    PROVE  EditorStep
<1>1. Entered' = Entered /\ Line' = Line
    BY DEF Entered, Line
<1> QED
    BY <1>1, StepView DEF EditorStep

LEMMA ConsInitInv ==
    ConsInit => ConsInv
<1> SUFFICES ASSUME ConsInit PROVE ConsInv
    OBVIOUS
<1>1. 0 \in Idx /\ INPUT_BUF \in Nat
    BY RingSizes DEF Idx
<1>2. /\ input.r = 0 /\ input.w = 0 /\ input.e = 0
      /\ input.buf = [i \in 0..(INPUT_BUF - 1) |-> NoChar]
    BY DEF ConsInit
<1>3. input.buf \in Ring
    BY <1>2 DEF Ring, Keys
<1>4. input \in [buf : Ring, r : Idx, w : Idx, e : Idx]
    BY <1>1, <1>3 DEF ConsInit
<1>5. Dist(0, 0) = 0
    BY <1>1, DistMoves
<1>6. InputRight
    BY <1>1, <1>2, <1>3, <1>5 DEF InputRight, RingRight
<1>7. ConsTypes
    BY <1>4 DEF ConsInit, ConsTypes, ConsPlaces
<1>8. ReadersWait /\ CallsRight
    BY ConsoleAssumption DEF ConsInit, ReadersWait, CallsRight
<1> QED
    BY <1>6, <1>7, <1>8 DEF ConsInv

LEMMA ConsInitEditor ==
    ConsInit => Editor!EdInit
<1> SUFFICES ASSUME ConsInit PROVE Editor!EdInit
    OBVIOUS
<1>1. ConsInv
    BY ConsInitInv
<1>2. 0 \in Idx /\ input.r = 0 /\ input.w = 0 /\ input.e = 0
    BY RingSizes DEF ConsInit, Idx
<1>3. Dist(0, 0) = 0
    BY <1>2, DistMoves
<1>4. /\ Entered \in Seq(Keys) /\ Len(Entered) = 0
      /\ Line \in Seq(Keys) /\ Len(Line) = 0
    BY <1>1, <1>2, <1>3, RingCounts DEF ConsInv, InputRight, Entered, Line
<1>5. Entered = <<>> /\ Line = <<>>
    BY <1>4, EmptySeq
<1>6. Between(input.r, input.w) = <<>> /\ Between(input.w, input.e) = <<>>
    BY <1>1, <1>5, EditorView
<1> QED
    BY <1>6 DEF ConsInit, Editor!EdInit

\* The ring is right after a step that leaves it alone.
LEMMA InputSame ==
    ASSUME ConsInv, input' = input
    PROVE  InputRight'
BY DEF ConsInv, InputRight

LEMMA ReadStartStep ==
    ASSUME ConsInv, NEW p \in Readers, NEW n \in ReadSizes, ReadStart(p, n)
    PROVE  ConsInv' /\ EditorStep
<1> USE DEF ConsInv
<1>20. ConsTypes'
    BY ConsoleAssumption DEF ReadStart, ConsTypes, ConsPlaces
<1>21. InputRight'
    BY InputSame DEF ReadStart
<1>22. ReadersWait'
    BY ConsoleAssumption DEF ReadStart, ConsTypes, ReadersWait
<1>23. CallsRight'
    BY DEF ReadStart, ConsTypes, CallsRight
<1>24. ConsInv'
    BY <1>20, <1>21, <1>22, <1>23
<1>25. EditorStep
    BY <1>24, RingSame DEF ReadStart
<1> QED
    BY <1>24, <1>25

LEMMA ReadEnterStep ==
    ASSUME ConsInv, NEW p \in Readers, ReadEnter(p)
    PROVE  ConsInv' /\ EditorStep
<1> USE DEF ConsInv
<1>20. ConsTypes'
    BY ConsoleAssumption DEF ReadEnter, ConsTypes, ConsPlaces
<1>21. InputRight'
    BY InputSame DEF ReadEnter
<1>22. ReadersWait'
    BY ConsoleAssumption DEF ReadEnter, ConsTypes, ReadersWait
<1>23. CallsRight'
    BY DEF ReadEnter, ConsTypes, CallsRight
<1>24. ConsInv'
    BY <1>20, <1>21, <1>22, <1>23
<1>25. EditorStep
    BY <1>24, RingSame DEF ReadEnter
<1> QED
    BY <1>24, <1>25

LEMMA ReadSleepStep ==
    ASSUME ConsInv, NEW p \in Readers, ReadSleep(p)
    PROVE  ConsInv' /\ EditorStep
<1> USE DEF ConsInv
<1>20. ConsTypes'
    BY ConsoleAssumption DEF ReadSleep, ConsTypes, ConsPlaces
<1>21. InputRight'
    BY InputSame DEF ReadSleep
<1>22. ReadersWait'
    BY ConsoleAssumption DEF ReadSleep, ConsTypes, ReadersWait
<1>23. CallsRight'
    BY DEF ReadSleep, ConsTypes, CallsRight
<1>24. ConsInv'
    BY <1>20, <1>21, <1>22, <1>23
<1>25. EditorStep
    BY <1>24, RingSame DEF ReadSleep
<1> QED
    BY <1>24, <1>25

LEMMA KillReaderStep ==
    ASSUME ConsInv, NEW p \in Readers, KillReader(p)
    PROVE  ConsInv' /\ EditorStep
<1> USE DEF ConsInv
<1>20. ConsTypes'
    BY ConsoleAssumption DEF KillReader, ConsTypes, ConsPlaces
<1>21. InputRight'
    BY InputSame DEF KillReader
<1>22. ReadersWait'
    BY ConsoleAssumption DEF KillReader, ConsTypes, ReadersWait
<1>23. CallsRight'
    BY DEF KillReader, ConsTypes, CallsRight
<1>24. ConsInv'
    BY <1>20, <1>21, <1>22, <1>23
<1>25. EditorStep
    BY <1>24, RingSame DEF KillReader
<1> QED
    BY <1>24, <1>25

LEMMA ReadReturnStep ==
    ASSUME ConsInv, NEW p \in Readers, ReadReturn(p)
    PROVE  ConsInv' /\ EditorStep
<1> USE DEF ConsInv
<1>20. ConsTypes'
    BY ConsoleAssumption DEF ReadReturn, Returns, ConsTypes, ConsPlaces
<1>21. InputRight'
    BY InputSame DEF ReadReturn, Returns
<1>22. ReadersWait'
    BY ConsoleAssumption DEF ReadReturn, Returns, ConsTypes, ReadersWait
<1>23. CallsRight'
    BY DEF ReadReturn, Returns, ConsTypes, CallsRight
<1>24. ConsInv'
    BY <1>20, <1>21, <1>22, <1>23
<1>25. EditorStep
  <2>1. input' = input /\ got' = [got EXCEPT ![p] = <<>>]
    BY DEF ReadReturn, Returns
  <2>2. Entered' = Entered /\ Line' = Line
    BY <2>1 DEF Entered, Line
  <2>3. Editor!EdReturn(p)
    BY <1>24, <2>1, <2>2, StepView DEF Editor!EdReturn
  <2> QED
    BY <2>3 DEF EditorStep, Editor!EdNext
<1> QED
    BY <1>24, <1>25

LEMMA ReadEmptyReturns ==
    ASSUME ConsInv, NEW p \in Readers, dead[p], Returns(p), UNCHANGED <<input, dead>>, cpc[p] = "locked"
    PROVE  ConsInv' /\ EditorStep
<1> USE DEF ConsInv
<1>20. ConsTypes'
    BY ConsoleAssumption DEF Returns, ConsTypes, ConsPlaces
<1>21. InputRight'
    BY InputSame DEF Returns
<1>22. ReadersWait'
    BY ConsoleAssumption DEF Returns, ConsTypes, ReadersWait
<1>23. CallsRight'
    BY DEF Returns, ConsTypes, CallsRight
<1>24. ConsInv'
    BY <1>20, <1>21, <1>22, <1>23
<1>25. EditorStep
  <2>1. input' = input /\ got' = [got EXCEPT ![p] = <<>>]
    BY DEF Returns
  <2>2. Entered' = Entered /\ Line' = Line
    BY <2>1 DEF Entered, Line
  <2>3. Editor!EdReturn(p)
    BY <1>24, <2>1, <2>2, StepView DEF Editor!EdReturn
  <2> QED
    BY <2>3 DEF EditorStep, Editor!EdNext
<1> QED
    BY <1>24, <1>25

LEMMA ReadEmptySleeps ==
    ASSUME ConsInv, NEW p \in Readers, UNCHANGED <<input, dead, got, left, consLock>>,
           cpc[p] = "locked", input.r = input.w,
           cpc' = [cpc EXCEPT ![p] = "tosleep"]
    PROVE  ConsInv' /\ EditorStep
<1> USE DEF ConsInv
<1>20. ConsTypes'
    BY ConsoleAssumption DEF ConsTypes, ConsPlaces
<1>21. InputRight'
    BY InputSame
<1>22. ReadersWait'
    BY ConsoleAssumption DEF ConsTypes, ReadersWait
<1>23. CallsRight'
    BY DEF ConsTypes, CallsRight
<1>24. ConsInv'
    BY <1>20, <1>21, <1>22, <1>23
<1>25. EditorStep
    BY <1>24, RingSame
<1> QED
    BY <1>24, <1>25

LEMMA ReadEmptyStep ==
    ASSUME ConsInv, NEW p \in Readers, ReadEmpty(p)
    PROVE  ConsInv' /\ EditorStep
<1>1. CASE dead[p] /\ Returns(p)
    BY <1>1, ReadEmptyReturns DEF ReadEmpty
<1>2. CASE ~dead[p] /\ cpc' = [cpc EXCEPT ![p] = "tosleep"]
           /\ UNCHANGED <<got, left, consLock>>
    BY <1>2, ReadEmptySleeps DEF ReadEmpty
<1> QED
    BY <1>1, <1>2 DEF ReadEmpty

LEMMA ReadCharStep ==
    ASSUME ConsInv, NEW p \in Readers, ReadChar(p)
    PROVE  ConsInv' /\ EditorStep
<1> USE DEF ConsInv
<1>1. /\ input.r # input.w /\ input \in [buf : Ring, r : Idx, w : Idx, e : Idx]
      /\ RingRight(input.buf, input.r, input.w, input.e)
      /\ At(input.r) = input.buf[Slot(input.r)]
    BY DEF ReadChar, ConsTypes, InputRight, At, Slot
<1>2. /\ RingRight(input.buf, Plus(input.r, 1), input.w, input.e)
      /\ Entered # <<>> /\ Head(Entered) = At(input.r)
      /\ Stretch(input.buf, Plus(input.r, 1), input.w) = Tail(Entered)
    BY <1>1, RingTake DEF Entered
<1>3. Plus(input.r, 1) \in Idx
    BY <1>2 DEF RingRight
<1>4. /\ input'.r = Plus(input.r, 1) /\ input'.w = input.w /\ input'.e = input.e
      /\ input'.buf = input.buf /\ input' \in [buf : Ring, r : Idx, w : Idx, e : Idx]
    BY <1>1, <1>3 DEF ReadChar
<1>5. At(input.r) \in Keys
  <2>1. Slot(input.r) \in 0..(INPUT_BUF - 1)
    BY <1>1, SlotType DEF Idx
  <2> QED
    BY <1>1, <2>1 DEF Ring
<1>6. /\ left[p] \in Nat /\ left[p] > 0 /\ got[p] \in Seq(Keys)
      /\ got' = [got EXCEPT ![p] = Append(got[p], At(input.r))]
      /\ got'[p] = Append(got[p], At(input.r))
      /\ left'[p] = (IF At(input.r) = Newline THEN 0 ELSE left[p] - 1)
      /\ left' = [left EXCEPT ![p] = IF At(input.r) = Newline THEN 0 ELSE left[p] - 1]
      /\ cpc' = cpc /\ consLock' = consLock /\ cpc[p] = "locked"
    BY DEF ReadChar, ConsTypes
<1>7. Append(got[p], At(input.r)) \in Seq(Keys)
    BY <1>5, <1>6, AppendProperties
<1>20. ConsTypes'
  <2>1. left' \in [Readers -> Nat]
    BY <1>6 DEF ConsTypes
  <2>2. got' \in [Readers -> Seq(Keys)]
    BY <1>6, <1>7 DEF ConsTypes
  <2> QED
    BY <1>4, <1>6, <2>1, <2>2 DEF ConsTypes
<1>21. InputRight'
    BY <1>2, <1>4 DEF InputRight
<1>22. ReadersWait'
    BY <1>1, <1>6, ConsoleAssumption DEF ReadersWait
<1>23. CallsRight'
  <2>1. /\ Len(got'[p]) = Len(got[p]) + 1
        /\ got'[p][Len(got'[p])] = At(input.r)
    BY <1>5, <1>6, AppendProperties
  <2>2. left'[p] > 0 => At(input.r) # Newline
    BY <1>6
  <2>3. ASSUME NEW q \in Readers, q # p
        PROVE  got'[q] = got[q] /\ left'[q] = left[q]
    BY <1>6, <2>3 DEF ConsTypes
  <2> QED
    BY <1>6, <2>1, <2>2, <2>3 DEF CallsRight
<1>24. ConsInv'
    BY <1>20, <1>21, <1>22, <1>23
<1>25. EditorStep
  <2>1. Entered' = Tail(Entered) /\ Line' = Line
    BY <1>2, <1>4 DEF Entered, Line
  <2>2. got[p] = <<>> \/ got[p][Len(got[p])] # Newline
    BY <1>6 DEF CallsRight
  <2>3. Head(Entered) # Eof
    BY <1>2 DEF ReadChar
  <2>4. Editor!EdDeliver(p)
    BY <1>2, <1>6, <1>24, <2>1, <2>2, <2>3, StepView DEF Editor!EdDeliver
  <2> QED
    BY <2>4 DEF EditorStep, Editor!EdNext
<1> QED
    BY <1>24, <1>25

LEMMA ReadEofStep ==
    ASSUME ConsInv, NEW p \in Readers, ReadEof(p)
    PROVE  ConsInv' /\ EditorStep
<1> USE DEF ConsInv
<1>1. /\ input.r # input.w /\ input \in [buf : Ring, r : Idx, w : Idx, e : Idx]
      /\ RingRight(input.buf, input.r, input.w, input.e)
      /\ At(input.r) = input.buf[Slot(input.r)]
    BY DEF ReadEof, ConsTypes, InputRight, At, Slot
<1>2. /\ RingRight(input.buf, Plus(input.r, 1), input.w, input.e)
      /\ Entered # <<>> /\ Head(Entered) = At(input.r)
      /\ Stretch(input.buf, Plus(input.r, 1), input.w) = Tail(Entered)
    BY <1>1, RingTake DEF Entered
<1>3. Plus(input.r, 1) \in Idx
    BY <1>2 DEF RingRight
<1>4. /\ input'.w = input.w /\ input'.e = input.e /\ input'.buf = input.buf
      /\ input'.r = (IF got[p] # <<>> THEN input.r ELSE Plus(input.r, 1))
      /\ input' \in [buf : Ring, r : Idx, w : Idx, e : Idx]
      /\ got[p] # <<>> => input' = input
    BY <1>1, <1>3 DEF ReadEof, EofTaken
<1>5. /\ left' = [left EXCEPT ![p] = 0] /\ got' = got
      /\ cpc' = cpc /\ consLock' = consLock /\ cpc[p] = "locked"
    BY DEF ReadEof
<1>20. ConsTypes'
    BY <1>4, <1>5 DEF ConsTypes
<1>21. InputRight'
    BY <1>1, <1>2, <1>4 DEF InputRight
<1>22. ReadersWait'
    BY <1>1, <1>5, ConsoleAssumption DEF ReadersWait
<1>23. CallsRight'
    BY <1>5 DEF ConsTypes, CallsRight
<1>24. ConsInv'
    BY <1>20, <1>21, <1>22, <1>23
<1>25. EditorStep
  <2>1. CASE got[p] # <<>>
    BY <1>4, <1>5, <1>24, <2>1, RingSame
  <2>2. CASE got[p] = <<>>
    <3>1. Entered' = Tail(Entered) /\ Line' = Line
      BY <1>2, <1>4, <2>2 DEF Entered, Line
    <3>2. Head(Entered) = Eof
      BY <1>2 DEF ReadEof
    <3>3. Editor!EdEof(p)
      BY <1>2, <1>5, <1>24, <2>2, <3>1, <3>2, StepView DEF Editor!EdEof
    <3> QED
      BY <3>3 DEF EditorStep, Editor!EdNext
  <2> QED
    BY <2>1, <2>2
<1> QED
    BY <1>24, <1>25

\* One character, or the whole line, is erased.
LEMMA EraseStep ==
    ASSUME ConsInv, NEW k \in 0..Dist(input.w, input.e), k \in {1, Dist(input.w, input.e)},
           input' = [input EXCEPT !.e = Plus(@, -k)], UNCHANGED cpc,
           UNCHANGED <<consLock, left, got, dead>>
    PROVE  ConsInv' /\ EditorStep
<1> USE DEF ConsInv
<1>1. /\ input \in [buf : Ring, r : Idx, w : Idx, e : Idx]
      /\ RingRight(input.buf, input.r, input.w, input.e)
    BY DEF ConsTypes, InputRight
<1>2. /\ RingRight(input.buf, input.r, input.w, Plus(input.e, -k))
      /\ Stretch(input.buf, input.w, Plus(input.e, -k)) = SubSeq(Line, 1, Len(Line) - k)
    BY <1>1, RingErase DEF Line
<1>3. Plus(input.e, -k) \in Idx
    BY <1>2 DEF RingRight
<1>4. /\ input'.r = input.r /\ input'.w = input.w /\ input'.e = Plus(input.e, -k)
      /\ input'.buf = input.buf /\ input' \in [buf : Ring, r : Idx, w : Idx, e : Idx]
    BY <1>1, <1>3
<1>20. ConsTypes'
    BY <1>4 DEF ConsTypes
<1>21. InputRight'
    BY <1>2, <1>4 DEF InputRight
<1>22. ReadersWait'
    BY <1>4 DEF ReadersWait
<1>23. CallsRight'
    BY DEF CallsRight
<1>24. ConsInv'
    BY <1>20, <1>21, <1>22, <1>23
<1>25. EditorStep
  <2>1. Entered' = Entered /\ Line' = SubSeq(Line, 1, Len(Line) - k)
    BY <1>2, <1>4 DEF Entered, Line
  <2>2. /\ Line \in Seq(Keys) /\ Len(Line) = Dist(input.w, input.e)
        /\ Dist(input.w, input.e) \in Nat
    BY <1>1, RingCounts DEF Line
  <2>3. CASE Line = <<>>
    <3>1. k = 0
      BY <2>2, <2>3, EmptySeq
    <3>2. Line' = <<>>
      BY <2>1, <2>2, <2>3, <3>1, EmptySeq
    <3> QED
      BY <1>24, <2>1, <2>3, <3>2, StepView DEF EditorStep
  <2>4. CASE Line # <<>>
    <3>1. Len(Line) - k \in {0, Len(Line) - 1}
      BY <2>2
    <3>2. Editor!EdErase
      BY <1>24, <2>1, <2>4, <3>1, StepView DEF Editor!EdErase
    <3> QED
      BY <3>2 DEF EditorStep, Editor!EdNext
  <2> QED
    BY <2>3, <2>4
<1> QED
    BY <1>24, <1>25

\* A character is typed.
LEMMA TypeStep ==
    ASSUME ConsInv, NEW key \in Keys, consLock = NoReader, Consoleintr(key),
           key \notin {KillLine, Backspace}
    PROVE  ConsInv' /\ EditorStep
<1> USE DEF ConsInv
<1> DEFINE c == IF key = Return THEN Newline ELSE key
           a == [input.buf EXCEPT ![Slot(input.e)] = c]
           b == input.buf
           r == input.r
           w == input.w
           e == input.e
           f == Plus(e, 1)
<1>1. /\ input \in [buf : Ring, r : Idx, w : Idx, e : Idx] /\ RingRight(b, r, w, e)
    BY DEF ConsTypes, InputRight
<1>2. c \in Chars /\ c \in Keys /\ Dist(r, e) < INPUT_BUF
    BY DEF Consoleintr, Keys, Chars
<1>3. /\ input'.buf = a /\ input'.r = r /\ input'.e = f
      /\ input'.w = (IF Enters(c) THEN f ELSE w)
      /\ DOMAIN input' = DOMAIN input
      /\ cpc' = (IF Enters(c) THEN ReadersWoken ELSE cpc)
      /\ UNCHANGED <<consLock, left, got>>
    BY <1>1 DEF Consoleintr, Slot
<1>4. Enters(c) <=> c \in {Newline, Eof} \/ f = Plus(r, INPUT_BUF)
    BY DEF Enters
<1> HIDE DEF c, a
<1>5. /\ f = Plus(r, INPUT_BUF) <=> Len(Stretch(b, r, w)) + Len(Stretch(b, w, e)) + 1
                                        = INPUT_BUF
      /\ RingRight(a, r, f, f)
      /\ Stretch(a, r, f) = Stretch(b, r, w) \o Append(Stretch(b, w, e), c)
      /\ Stretch(a, f, f) = <<>>
      /\ c # Newline => RingRight(a, r, w, f)
      /\ Stretch(a, r, w) = Stretch(b, r, w)
      /\ Stretch(a, w, f) = Append(Stretch(b, w, e), c)
  <2>1. a = [b EXCEPT ![Slot(e)] = c]
    BY DEF a
  <2> QED
    BY <1>1, <1>2, <2>1, RingType
<1>6. RingRight(a, r, input'.w, f)
    BY <1>3, <1>4, <1>5
<1>20. ConsTypes'
  <2>1. input' \in [buf : Ring, r : Idx, w : Idx, e : Idx]
    <3>1. /\ a \in Ring /\ r \in Idx /\ input'.w \in Idx /\ f \in Idx
      BY <1>6 DEF RingRight
    <3>2. input' = [buf |-> input'.buf, r |-> input'.r, w |-> input'.w, e |-> input'.e]
      BY <1>1 DEF Consoleintr
    <3> QED
      BY <1>3, <3>1, <3>2
  <2> QED
    BY <1>3, <2>1 DEF ConsTypes, ConsPlaces, ReadersWoken
<1>21. InputRight'
    BY <1>3, <1>6 DEF InputRight
<1>22. ReadersWait'
  <2>1. \A p \in Readers : cpc[p] \notin {"locked", "tosleep"}
    BY ConsoleAssumption DEF ReadersWait
  <2>2. CASE Enters(c)
    BY <1>3, <2>1, <2>2, ConsoleAssumption DEF ReadersWait, ReadersWoken
  <2>3. CASE ~Enters(c)
    BY <1>3, <2>1, <2>3, ConsoleAssumption DEF ReadersWait
  <2> QED
    BY <2>2, <2>3
<1>23. CallsRight'
    BY <1>3 DEF CallsRight, ReadersWoken, ConsTypes
<1>24. ConsInv'
    BY <1>20, <1>21, <1>22, <1>23
<1>25. EditorStep
  <2>1. /\ Entered = Stretch(b, r, w) /\ Line = Stretch(b, w, e)
        /\ Entered' = Stretch(a, r, input'.w) /\ Line' = Stretch(a, input'.w, f)
    BY <1>3 DEF Entered, Line
  <2>2. Len(Entered) + Len(Line) < INPUT_BUF
    BY <1>1, <1>2, <2>1, RingCounts
  <2>3. Enters(c) <=> c \in {Newline, Eof} \/ Len(Entered) + Len(Line) + 1 = INPUT_BUF
    BY <1>4, <1>5, <2>1
  <2>4. CASE Enters(c)
    <3>1. Entered' = Entered \o Append(Line, c) /\ Line' = <<>>
      BY <1>3, <1>5, <2>1, <2>4
    <3>2. Editor!EdType(c)
      BY <1>3, <1>24, <2>2, <2>3, <2>4, <3>1, StepView DEF Editor!EdType, Editor!Room
    <3> QED
      BY <1>2, <3>2 DEF EditorStep, Editor!EdNext
  <2>5. CASE ~Enters(c)
    <3>1. Entered' = Entered /\ Line' = Append(Line, c)
      BY <1>3, <1>5, <2>1, <2>5
    <3>2. Editor!EdType(c)
      BY <1>3, <1>24, <2>2, <2>3, <2>5, <3>1, StepView DEF Editor!EdType, Editor!Room
    <3> QED
      BY <1>2, <3>2 DEF EditorStep, Editor!EdNext
  <2> QED
    BY <2>4, <2>5
<1> QED
    BY <1>24, <1>25

LEMMA ConsoleintrStep ==
    ASSUME ConsInv, NEW key \in Keys, Consoleintr(key)
    PROVE  ConsInv' /\ EditorStep
<1>1. RingRight(input.buf, input.r, input.w, input.e)
    BY DEF ConsInv, InputRight
<1>2. Dist(input.w, input.e) \in Nat
    BY <1>1, RingCounts
<1>3. UNCHANGED <<consLock, left, got, dead>>
    BY DEF Consoleintr
<1>4. CASE key = KillLine /\ UNCHANGED cpc /\
           \E k \in 0..Dist(input.w, input.e) :
                /\ \A j \in 1..k : At(Plus(input.e, -j)) # Newline
                /\ \/ k = Dist(input.w, input.e)
                   \/ At(Plus(input.e, -(k + 1))) = Newline
                /\ input' = [input EXCEPT !.e = Plus(@, -k)]
  <2>1. PICK k \in 0..Dist(input.w, input.e) :
                /\ \/ k = Dist(input.w, input.e)
                   \/ At(Plus(input.e, -(k + 1))) = Newline
                /\ input' = [input EXCEPT !.e = Plus(@, -k)]
    BY <1>4
  <2>2. k = Dist(input.w, input.e)
    <3> SUFFICES ASSUME k # Dist(input.w, input.e) PROVE FALSE
      OBVIOUS
    <3> DEFINE j == k + 1
    <3>1. j \in 1..Dist(input.w, input.e)
      BY <1>2
    <3>2. At(Plus(input.e, -j)) = Newline
      BY <2>1
    <3> HIDE DEF j
    <3>3. input.buf[Plus(input.e, -j) % INPUT_BUF] # Newline
      BY <1>1, <3>1, LineChar
    <3> QED
      BY <3>2, <3>3 DEF At
  <2> QED
    BY <1>3, <1>4, <2>1, <2>2, EraseStep
<1>5. CASE /\ key = Backspace /\ input.e # input.w /\ UNCHANGED cpc
           /\ input' = [input EXCEPT !.e = Plus(@, -1)]
  <2>1. input.w \in Idx /\ input.e \in Idx
    BY <1>1 DEF RingRight
  <2>2. Dist(input.w, input.e) # 0
    BY <1>5, <2>1, DistMoves
  <2>3. 1 \in 0..Dist(input.w, input.e)
    BY <1>2, <2>2
  <2> QED
    BY <1>3, <1>5, <2>3, EraseStep
<1>6. CASE key \notin {KillLine, Backspace}
    BY <1>6, TypeStep DEF Consoleintr
<1> QED
    BY <1>4, <1>5, <1>6 DEF Consoleintr

LEMMA ConsNextStep ==
    ASSUME ConsInv, ConsNext
    PROVE  ConsInv' /\ EditorStep
BY ConsoleintrStep, ReadStartStep, ReadEnterStep, ReadEmptyStep, ReadSleepStep,
   ReadCharStep, ReadEofStep, ReadReturnStep, KillReaderStep
   DEF ConsNext, ReaderStep

LEMMA ConsSame ==
    ASSUME ConsInv, UNCHANGED consVars
    PROVE  ConsInv' /\ EditorStep
<1>1. ConsInv'
    BY DEF consVars, ConsInv, ConsTypes, InputRight, ReadersWait, CallsRight
<1> QED
    BY <1>1, RingSame DEF consVars

\* Every step keeps the invariant and is a step of the line editor.
LEMMA ConsStep ==
    ConsInv /\ [Next]_<<device, bufVars, consVars>> => ConsInv' /\ EditorStep
BY ConsNextStep, ConsSame DEF Next

\* No reader sleeps while characters are entered, for any number of readers
\* and any size of the ring, although several readers share the characters, a
\* reader may put a ^D back and a line may come just before the sleep: the
\* lock that consoleread() holds from its look at input.r to sleep() is enough.
THEOREM ReadersAreServed == Spec => []ReadersServed
<1>1. Init => ConsInv
    BY ConsInitInv DEF Init
<1>2. ConsInv /\ [Next]_<<device, bufVars, consVars>> => ConsInv'
    BY ConsStep
<1>3. ConsInv => ReadersServed
    BY DEF ConsInv, ReadersWait, ReadersServed
<1> QED
    BY <1>1, <1>2, <1>3, PTL DEF Spec

\* The ring of consoleintr() and consoleread() with its three wrapping indices
\* implements the line editor, for every size of the ring, every larger
\* multiple of it the indices wrap at, and any number of readers: characters
\* are delivered once and in order, erased only before they are entered, and a
\* full ring enters its line.
THEOREM ConsoleIsEditor == Spec => ImplementsEditor
<1>1. Init => ConsInv
    BY ConsInitInv DEF Init
<1>2. ConsInv /\ [Next]_<<device, bufVars, consVars>> => ConsInv'
    BY ConsStep
<1>3. Init => Editor!EdInit
    BY ConsInitEditor DEF Init
<1>4. ConsInv /\ [Next]_<<device, bufVars, consVars>> =>
        [Editor!EdNext]_<<Between(input.r, input.w), Between(input.w, input.e), got>>
    BY ConsStep DEF EditorStep
<1> QED
    BY <1>1, <1>2, <1>3, <1>4, PTL DEF Spec, ImplementsEditor, Editor!EdSpec

=============================================================================

---------------------------- MODULE StorageProofs ----------------------------
(***************************************************************************)
(* Theorems about the disk.                                                *)
(*                                                                         *)
(* The log (module Log): the space begin_op() reserves is enough, a group  *)
(* of operations is durable when the last of them has returned, and the    *)
(* log with its crashes implements the atomic disk of module AtomicDisk.   *)
(*                                                                         *)
(* The blocks of files (module FileData): a block that is marked is in one *)
(* place, and a file reads as what was written to it, whatever the calls   *)
(* on several files do at once.                                            *)
(***************************************************************************)
EXTENDS Log, FileData, FiniteSetTheorems, SequenceTheorems,
        WellFoundedInduction, TLAPS

\* The sizes of param.h and mkfs.c: LOGSIZE is three times MAXOPBLOCKS and
\* the log on the disk has LOGSIZE blocks, the header being one of them.  An
\* operation that wrote MAXOPBLOCKS blocks could meet the missing one.
LogFits ==
    /\ OpBlocks < MAXOPBLOCKS
    /\ MAXOPBLOCKS < LOGSIZE
    /\ LOGSIZE <= Size

-----------------------------------------------------------------------------
(* The inductive invariant.                                                *)

In(s, b) == \E k \in 1..Len(s) : s[k] = b
Distinct(s) == \A j, k \in 1..Len(s) : s[j] = s[k] => j = k

Active == {p \in Procs : pc[p] \in {"op", "log", "panic"}}

\* How many of the blocks W are in the log s.
Logged(W, s) == Cardinality({b \in W : In(s, b)})

\* The blocks of the log that the operations under way may still need: of the
\* MAXOPBLOCKS of each, those that do not stand for a block it has logged.
Spare(a, w, s) ==
    {t \in a \X (1..MAXOPBLOCKS) : Logged(w[t[1]], s) < t[2]}

\* The operations of a are counted by n, none has written too many blocks, and
\* what all may still need is there.  One alone leaves a block unused.
Accounts(a, w, s, n) ==
    /\ IsFiniteSet(a) /\ n = Cardinality(a)
    /\ \A p \in Procs : IsFiniteSet(w[p]) /\ Cardinality(w[p]) <= OpBlocks
    /\ n > 0 => Len(s) + Cardinality(Spare(a, w, s)) <= LOGSIZE
    /\ n = 1 => Len(s) + Cardinality(Spare(a, w, s)) < LOGSIZE

\* A sequence of blocks that fits in the log of the disk.
Fits(s) == s \in Seq(Blocks) /\ Len(s) < LOGSIZE /\ Distinct(s)

LogTypes ==
    /\ home \in [Blocks -> Vals]
    /\ logd \in [InLog -> Vals]
    /\ cache \in [Blocks -> Vals]
    /\ Fits(head) /\ Fits(lh)
    /\ committing \in BOOLEAN
    /\ pc \in [Procs -> Places]
    /\ wrote \in [Procs -> SUBSET Blocks]
    /\ buf \in [Procs -> Blocks \cup {NoBlock}]
    /\ step \in Steps
    /\ tail \in Nat /\ tail <= Len(lh)

\* Who may be where at each step of a commit and of a recovery.
Phases ==
    /\ committing <=> step \in {"log", "install", "end"}
    /\ step \in {"read", "replay", "boot"} => \A p \in Procs : pc[p] = "down"
    /\ \A p \in Procs :
        /\ pc[p] = "down" => step \in {"read", "replay", "boot"}
        /\ pc[p] = "commit" =>
                committing /\ \A q \in Procs : pc[q] = "commit" => p = q
        /\ pc[p] \in {"op", "log"} => step = "none"
        /\ pc[p] = "log" => buf[p] \in wrote[p]

\* The count, and the space that is left for the operations under way.
Reserved ==
    /\ Accounts(Active, wrote, lh, outstanding)
    /\ outstanding = 0 /\ step = "none" => lh = <<>>

\* How far the blocks have got on their way to their places on the disk.
Contents ==
    /\ step \in {"none", "log", "end", "boot"} => head = <<>>
    /\ step \in {"end", "read", "boot"} => lh = <<>>
    /\ step \in {"install", "replay"} => head = lh
    /\ step = "log" => \A k \in 1..tail : logd[k] = cache[lh[k]]
    /\ step = "install" => \A k \in 1..Len(lh) : logd[k] = cache[lh[k]]
    /\ step \in {"install", "replay"} =>
            \A k \in 1..tail : home[lh[k]] = logd[k]
    /\ step \in {"none", "log", "install", "end"} =>
            \A b \in Blocks :
                \/ cache[b] = home[b]
                \/ In(lh, b)
                \/ \E p \in Procs : pc[p] = "log" /\ buf[p] = b

LogInv == LogTypes /\ Phases /\ NoPanic /\ Reserved /\ Contents

-----------------------------------------------------------------------------
(* Lemmas about the accounts.                                              *)

LEMMA CardEqual ==
    ASSUME NEW S, NEW T, S = T
    PROVE  /\ Cardinality(S) = Cardinality(T)
           /\ IsFiniteSet(S) <=> IsFiniteSet(T)
BY Zenon

\* A subset that lacks an element is smaller.
LEMMA SmallerSubset ==
    ASSUME NEW T, IsFiniteSet(T), NEW S, NEW x \in T,
           \A y \in S : y \in T /\ y # x
    PROVE  /\ IsFiniteSet(S) /\ Cardinality(S) \in Nat /\ Cardinality(T) \in Nat
           /\ Cardinality(S) + 1 <= Cardinality(T)
<1>1. /\ IsFiniteSet(T \ {x}) /\ Cardinality(T \ {x}) = Cardinality(T) - 1
      /\ Cardinality(T) \in Nat
    BY FS_RemoveElement, FS_CardinalityType
<1>2. S \in SUBSET (T \ {x})
    OBVIOUS
<1>3. IsFiniteSet(S) /\ Cardinality(S) <= Cardinality(T \ {x})
    BY <1>1, <1>2, FS_Subset
<1> QED
    BY <1>1, <1>3, FS_CardinalityType

\* The blocks an operation has in the log are some of those it has written.
LEMMA LoggedFew ==
    ASSUME NEW W, IsFiniteSet(W), NEW s
    PROVE  /\ Logged(W, s) \in Nat /\ Cardinality(W) \in Nat
           /\ IsFiniteSet({b \in W : In(s, b)})
           /\ Logged(W, s) <= Cardinality(W)
<1>1. {b \in W : In(s, b)} \in SUBSET W
    OBVIOUS
<1> QED
    BY <1>1, FS_Subset, FS_CardinalityType DEF Logged

LEMMA SpareFinite ==
    ASSUME NEW a, IsFiniteSet(a), NEW w, NEW s
    PROVE  /\ IsFiniteSet(Spare(a, w, s)) /\ Cardinality(Spare(a, w, s)) \in Nat
           /\ Cardinality(a) \in Nat
           /\ Cardinality(Spare(a, w, s)) <= Cardinality(a) * MAXOPBLOCKS
<1>1. MAXOPBLOCKS \in Nat
    BY LogAssumption
<1>2. IsFiniteSet(1..MAXOPBLOCKS) /\ Cardinality(1..MAXOPBLOCKS) = MAXOPBLOCKS
    BY <1>1, FS_Interval
<1>3. /\ IsFiniteSet(a \X (1..MAXOPBLOCKS))
      /\ Cardinality(a \X (1..MAXOPBLOCKS))
             = Cardinality(a) * Cardinality(1..MAXOPBLOCKS)
    BY <1>2, FS_Product
<1>4. Spare(a, w, s) \in SUBSET (a \X (1..MAXOPBLOCKS))
    BY DEF Spare
<1>5. /\ IsFiniteSet(Spare(a, w, s))
      /\ Cardinality(Spare(a, w, s)) <= Cardinality(a \X (1..MAXOPBLOCKS))
    BY <1>3, <1>4, FS_Subset
<1> QED
    BY <1>2, <1>3, <1>5, FS_CardinalityType

\* An operation always has its last block to spare.
LEMMA SpareLast ==
    ASSUME LogFits, NEW a, NEW w, NEW s, NEW p \in a,
           IsFiniteSet(w[p]), Cardinality(w[p]) <= OpBlocks
    PROVE  <<p, MAXOPBLOCKS>> \in Spare(a, w, s)
<1>1. MAXOPBLOCKS \in 1..MAXOPBLOCKS /\ OpBlocks \in Nat /\ MAXOPBLOCKS \in Nat
    BY LogAssumption
<1>2. Logged(w[p], s) \in Nat /\ Logged(w[p], s) <= Cardinality(w[p])
    BY LoggedFew
<1>3. Cardinality(w[p]) \in Nat
    BY FS_CardinalityType
<1>4. Logged(w[p], s) < MAXOPBLOCKS
    BY <1>1, <1>2, <1>3 DEF LogFits
<1> QED
    BY <1>1, <1>4 DEF Spare

\* With an operation under way the log has room for its block, and one more.
LEMMA Room ==
    ASSUME LogFits, NEW a \in SUBSET Procs, NEW w, NEW s \in Seq(Blocks), NEW n,
           Accounts(a, w, s, n), NEW p \in a
    PROVE  Len(s) + 1 < LOGSIZE /\ n \in Nat /\ n >= 1
<1> DEFINE T == Spare(a, w, s)
<1>1. /\ IsFiniteSet(T) /\ Cardinality(T) \in Nat /\ n \in Nat
      /\ IsFiniteSet(a) /\ n = Cardinality(a)
    BY SpareFinite DEF Accounts
<1>2. <<p, MAXOPBLOCKS>> \in T
    BY SpareLast DEF Accounts
<1>3. n >= 1
    BY <1>1, FS_EmptySet
<1>4. LOGSIZE \in Nat /\ Len(s) \in Nat
    BY LogAssumption
<1> HIDE DEF T
<1>5. Cardinality(T) >= 1
    BY <1>1, <1>2, FS_EmptySet
<1>6. CASE n = 1
  <2>1. Len(s) + Cardinality(T) < LOGSIZE
    BY <1>6 DEF Accounts, T
  <2> QED
    BY <1>1, <1>3, <1>4, <1>5, <2>1
<1>7. CASE n > 1
  <2>1. PICK q \in a : q # p
    <3>1. SUFFICES ASSUME \A q \in a : q = p PROVE FALSE
      OBVIOUS
    <3>2. a = {p}
      BY <3>1
    <3>3. Cardinality(a) = 1
      BY <3>2, CardEqual, FS_Singleton
    <3> QED
      BY <1>1, <1>7, <3>3
  <2>2. <<q, MAXOPBLOCKS>> \in T
    BY SpareLast DEF Accounts, T
  <2> DEFINE D == T \ {<<q, MAXOPBLOCKS>>}
  <2>3. Cardinality(D) = Cardinality(T) - 1 /\ IsFiniteSet(D)
    BY <1>1, <2>2, FS_RemoveElement
  <2>4. <<p, MAXOPBLOCKS>> \in D
    BY <1>2, <2>1
  <2> HIDE DEF D
  <2>5. Cardinality(D) >= 1
    BY <2>3, <2>4, FS_EmptySet, FS_CardinalityType
  <2>6. Len(s) + Cardinality(T) <= LOGSIZE
    BY <1>1, <1>7 DEF Accounts, T
  <2> QED
    BY <1>1, <1>3, <1>4, <2>3, <2>5, <2>6
<1> QED
    BY <1>1, <1>3, <1>6, <1>7

LEMMA AccountsNone ==
    ASSUME NEW w, NEW s,
           \A p \in Procs : IsFiniteSet(w[p]) /\ Cardinality(w[p]) <= OpBlocks
    PROVE  Accounts({}, w, s, 0)
<1>1. IsFiniteSet({}) /\ Cardinality({}) = 0
    BY FS_EmptySet
<1> QED
    BY <1>1 DEF Accounts

\* begin_op() counts the operation when its blocks fit with those of all others.
LEMMA AccountsBegin ==
    ASSUME LogFits, NEW a \in SUBSET Procs, NEW w, NEW s \in Seq(Blocks), NEW n,
           Accounts(a, w, s, n), NEW p \in Procs \ a,
           Len(s) + (n + 1) * MAXOPBLOCKS <= LOGSIZE,
           n = 0 => s = <<>>
    PROVE  Accounts(a \cup {p}, w, s, n + 1)
<1> DEFINE c == a \cup {p}
           T == Spare(c, w, s)
<1>1. IsFiniteSet(a) /\ n = Cardinality(a) /\ n \in Nat
    BY FS_CardinalityType DEF Accounts
<1>2. IsFiniteSet(c) /\ Cardinality(c) = n + 1
    BY <1>1, FS_AddElement
<1>3. Cardinality(T) \in Nat /\ Cardinality(T) <= (n + 1) * MAXOPBLOCKS
  <2> HIDE DEF c
  <2>1. Cardinality(T) \in Nat /\ Cardinality(T) <= Cardinality(c) * MAXOPBLOCKS
    BY <1>2, SpareFinite
  <2> QED
    BY <1>2, <2>1
<1>4. LOGSIZE \in Nat /\ Len(s) \in Nat /\ MAXOPBLOCKS \in Nat
    BY LogAssumption
<1>5. (n + 1) * MAXOPBLOCKS \in Nat /\ (n = 0 => (n + 1) * MAXOPBLOCKS = MAXOPBLOCKS)
    BY <1>1, <1>4
<1> HIDE DEF T, c
<1>6. Len(s) + Cardinality(T) <= LOGSIZE
    BY <1>3, <1>4, <1>5
<1>7. n = 0 => Len(s) + Cardinality(T) < LOGSIZE
    BY <1>3, <1>4, <1>5 DEF LogFits
<1> QED
    BY <1>1, <1>2, <1>6, <1>7 DEF Accounts, T, c

\* A write of an operation within its OpBlocks frees nothing.
LEMMA AccountsWrite ==
    ASSUME NEW a \in SUBSET Procs, NEW w \in [Procs -> SUBSET Blocks],
           NEW s \in Seq(Blocks), NEW n,
           Accounts(a, w, s, n), NEW p \in Procs, NEW b \in Blocks,
           Cardinality(w[p] \cup {b}) <= OpBlocks
    PROVE  Accounts(a, [w EXCEPT ![p] = @ \cup {b}], s, n)
<1> DEFINE v == [w EXCEPT ![p] = @ \cup {b}]
           T == Spare(a, w, s)
           U == Spare(a, v, s)
<1>1. v[p] = w[p] \cup {b} /\ \A q \in Procs : q # p => v[q] = w[q]
    OBVIOUS
<1>2. IsFiniteSet(w[p] \cup {b})
    BY FS_AddElement DEF Accounts
<1>3. \A q \in Procs : IsFiniteSet(v[q]) /\ Cardinality(v[q]) <= OpBlocks
    BY <1>1, <1>2 DEF Accounts
<1> HIDE DEF v
<1>4. \A q \in Procs : Logged(w[q], s) <= Logged(v[q], s)
  <2> TAKE q \in Procs
  <2>1. {x \in w[q] : In(s, x)} \in SUBSET {x \in v[q] : In(s, x)}
    BY <1>1
  <2>2. IsFiniteSet({x \in v[q] : In(s, x)})
    BY <1>3, LoggedFew
  <2> QED
    BY <2>1, <2>2, FS_Subset DEF Logged
<1>5. \A q \in Procs : Logged(w[q], s) \in Nat /\ Logged(v[q], s) \in Nat
    BY <1>3, LoggedFew DEF Accounts
<1>6. U \in SUBSET T
    BY <1>4, <1>5 DEF Spare
<1>7. IsFiniteSet(T) /\ Cardinality(T) \in Nat
    BY SpareFinite DEF Accounts
<1> HIDE DEF T, U
<1>8. Cardinality(U) <= Cardinality(T) /\ Cardinality(U) \in Nat
    BY <1>6, <1>7, FS_Subset, FS_CardinalityType
<1>9. LOGSIZE \in Nat /\ Len(s) \in Nat
    BY LogAssumption
<1>10. /\ n > 0 => Len(s) + Cardinality(U) <= LOGSIZE
       /\ n = 1 => Len(s) + Cardinality(U) < LOGSIZE
    BY <1>7, <1>8, <1>9 DEF Accounts, T
<1> QED
    BY <1>3, <1>10 DEF Accounts, U, v

\* A block that enters the log takes the place of one that was to spare.
LEMMA AccountsAppend ==
    ASSUME LogFits, NEW a \in SUBSET Procs, NEW w \in [Procs -> SUBSET Blocks],
           NEW s \in Seq(Blocks), NEW n,
           Accounts(a, w, s, n), NEW p \in a, NEW b \in w[p], ~In(s, b)
    PROVE  Accounts(a, w, Append(s, b), n)
<1> DEFINE r == Append(s, b)
           T == Spare(a, w, s)
           U == Spare(a, w, r)
           Had(q) == {x \in w[q] : In(s, x)}
           Has(q) == {x \in w[q] : In(r, x)}
<1>1. /\ r \in Seq(Blocks) /\ Len(r) = Len(s) + 1 /\ Len(s) \in Nat
      /\ \A k \in 1..Len(s) : r[k] = s[k]
      /\ r[Len(s) + 1] = b
    OBVIOUS
<1>2. \A x : In(r, x) <=> In(s, x) \/ x = b
  <2> HIDE DEF r
  <2> TAKE x
  <2>1. ASSUME In(r, x), x # b PROVE In(s, x)
    BY <1>1, <2>1 DEF In
  <2>2. In(s, x) => In(r, x)
    BY <1>1 DEF In
  <2>3. Len(s) + 1 \in 1..Len(r)
    BY <1>1
  <2>4. In(r, b)
    BY <1>1, <2>3 DEF In
  <2> QED
    BY <2>1, <2>2, <2>4
<1> HIDE DEF r
<1>3. \A q \in Procs : /\ IsFiniteSet(Had(q)) /\ IsFiniteSet(Has(q))
                       /\ Logged(w[q], s) \in Nat /\ Logged(w[q], r) \in Nat
                       /\ Logged(w[q], r) <= Cardinality(w[q])
                       /\ Cardinality(w[q]) \in Nat
    BY LoggedFew DEF Accounts
<1>4. \A q \in Procs : Logged(w[q], s) <= Logged(w[q], r)
  <2> TAKE q \in Procs
  <2>1. Had(q) \in SUBSET Has(q)
    BY <1>2
  <2> QED
    BY <1>3, <2>1, FS_Subset DEF Logged
<1>5. Logged(w[p], s) + 1 <= Logged(w[p], r)
  <2>1. b \in Has(p)
    BY <1>2
  <2>2. \A y \in Had(p) : y \in Has(p) /\ y # b
    BY <1>2
  <2> QED
    BY <1>3, <2>1, <2>2, SmallerSubset DEF Logged
<1> HIDE DEF Had, Has
<1> DEFINE x == <<p, Logged(w[p], r)>>
<1>6. x \in T
  <2>1. /\ OpBlocks \in Nat /\ MAXOPBLOCKS \in Nat /\ p \in Procs
        /\ Cardinality(w[p]) <= OpBlocks
    BY LogAssumption DEF Accounts
  <2>2. Logged(w[p], r) \in 1..MAXOPBLOCKS
    BY <1>3, <1>5, <2>1 DEF LogFits
  <2>3. Logged(w[p], s) < Logged(w[p], r)
    BY <1>3, <1>5, <2>1
  <2> QED
    BY <2>2, <2>3 DEF Spare
<1>7. \A y \in U : y \in T /\ y # x
    BY <1>3, <1>4 DEF Spare
<1>8. IsFiniteSet(T)
    BY SpareFinite DEF Accounts
<1> HIDE DEF T, U, x
<1>9. /\ Cardinality(U) \in Nat /\ Cardinality(T) \in Nat
      /\ Cardinality(U) + 1 <= Cardinality(T)
    BY <1>6, <1>7, <1>8, SmallerSubset
<1>10. LOGSIZE \in Nat
    BY LogAssumption
<1>11. /\ n > 0 => Len(r) + Cardinality(U) <= LOGSIZE
       /\ n = 1 => Len(r) + Cardinality(U) < LOGSIZE
    BY <1>1, <1>9, <1>10 DEF Accounts, T
<1> QED
    BY <1>11 DEF Accounts, U, r

\* end_op() gives back what the operation did not use: one block at least.
LEMMA AccountsEnd ==
    ASSUME LogFits, NEW a \in SUBSET Procs, NEW w \in [Procs -> SUBSET Blocks],
           NEW s \in Seq(Blocks), NEW n,
           Accounts(a, w, s, n), NEW p \in a
    PROVE  Accounts(a \ {p}, [w EXCEPT ![p] = {}], s, n - 1)
<1> DEFINE v == [w EXCEPT ![p] = {}]
           c == a \ {p}
           T == Spare(a, w, s)
           U == Spare(c, v, s)
           x == <<p, MAXOPBLOCKS>>
<1>1. v[p] = {} /\ \A q \in Procs : q # p => v[q] = w[q]
    OBVIOUS
<1>2. IsFiniteSet(v[p]) /\ Cardinality(v[p]) <= OpBlocks
  <2>1. Cardinality(v[p]) = 0 /\ IsFiniteSet(v[p])
    BY <1>1, CardEqual, FS_EmptySet
  <2> QED
    BY <2>1, LogAssumption
<1>3. \A q \in Procs : IsFiniteSet(v[q]) /\ Cardinality(v[q]) <= OpBlocks
    BY <1>1, <1>2 DEF Accounts
<1>4. IsFiniteSet(a) /\ n = Cardinality(a) /\ n \in Nat
    BY FS_CardinalityType DEF Accounts
<1>5. IsFiniteSet(c) /\ Cardinality(c) = n - 1
    BY <1>4, FS_RemoveElement
<1>6. x \in T
    BY SpareLast DEF Accounts
<1>7. \A y \in U : y \in T /\ y # x
  <2> HIDE DEF v
  <2> QED
    BY <1>1 DEF Spare
<1>8. IsFiniteSet(T)
    BY <1>4, SpareFinite
<1> HIDE DEF T, U, x, c, v
<1>9. /\ Cardinality(U) \in Nat /\ Cardinality(T) \in Nat
      /\ Cardinality(U) + 1 <= Cardinality(T)
    BY <1>6, <1>7, <1>8, SmallerSubset
<1>10. LOGSIZE \in Nat /\ Len(s) \in Nat
    BY LogAssumption
<1>11. n > 0 => Len(s) + Cardinality(U) < LOGSIZE
    BY <1>9, <1>10 DEF Accounts, T
<1>12. n - 1 > 0 => n > 0
    BY <1>4
<1> QED
    BY <1>3, <1>5, <1>4, <1>9, <1>10, <1>11, <1>12 DEF Accounts, U, c, v

-----------------------------------------------------------------------------
(* Every step keeps the invariant.                                        *)

LEMMA AccountsSame ==
    ASSUME NEW a, NEW w, NEW s, NEW n, Accounts(a, w, s, n), NEW c, c = a
    PROVE  Accounts(c, w, s, n)
BY Zenon

\* A block of the log has a place in the log of the disk.
LEMMA FitsInLog ==
    ASSUME LogFits, NEW s, Fits(s), NEW k \in 1..Len(s)
    PROVE  k \in InLog /\ s[k] \in Blocks
BY LogAssumption DEF LogFits, Fits, InLog

LEMMA FitsEmpty ==
    ASSUME LogFits
    PROVE  Fits(<<>>) /\ (\A b : ~In(<<>>, b)) /\ Len(<<>>) = 0
BY LogAssumption DEF LogFits, Fits, Distinct, In

LEMMA InitInv == LogFits /\ Init => LogInv
<1> SUFFICES ASSUME LogFits, Init PROVE LogInv
    OBVIOUS
<1> USE DEF Init
<1>1. LogTypes
  <2>1. Fits(head) /\ Fits(lh) /\ Len(lh) = 0
    BY FitsEmpty
  <2>2. pc \in [Procs -> Places] /\ buf \in [Procs -> Blocks \cup {NoBlock}]
    BY DEF Places
  <2>3. wrote \in [Procs -> SUBSET Blocks]
    OBVIOUS
  <2>4. /\ home \in [Blocks -> Vals] /\ logd \in [InLog -> Vals] /\ cache = home
        /\ committing = FALSE /\ step = "none" /\ tail = 0
    OBVIOUS
  <2> HIDE DEF Init
  <2>5. committing \in BOOLEAN
    BY <2>4
  <2>6. step \in Steps /\ tail \in Nat /\ tail <= Len(lh)
    BY <2>1, <2>4 DEF Steps
  <2>7. cache \in [Blocks -> Vals]
    BY <2>4
  <2> QED
    BY <2>1, <2>2, <2>3, <2>4, <2>5, <2>6, <2>7 DEF LogTypes
<1>2. Phases /\ NoPanic
    BY DEF Phases, NoPanic
<1>3. Active = {}
    BY DEF Active
<1>4. \A p \in Procs : IsFiniteSet(wrote[p]) /\ Cardinality(wrote[p]) <= OpBlocks
  <2> TAKE p \in Procs
  <2>1. wrote[p] = {}
    OBVIOUS
  <2>2. Cardinality(wrote[p]) = 0 /\ IsFiniteSet(wrote[p])
    BY <2>1, CardEqual, FS_EmptySet
  <2> QED
    BY <2>2, LogAssumption
<1>5. Accounts({}, wrote, lh, 0)
    BY <1>4, AccountsNone
<1>6. Accounts(Active, wrote, lh, outstanding)
    BY <1>3, <1>5, AccountsSame
<1>7. Reserved
    BY <1>6 DEF Reserved
<1>8. Contents
    BY DEF Contents
<1> QED
    BY <1>1, <1>2, <1>7, <1>8 DEF LogInv

LEMMA CallStep ==
    ASSUME LogFits, LogInv, NEW p \in Procs, Call(p)
    PROVE  LogInv'
<1> USE DEF LogInv
<1>1. LogTypes'
    BY DEF LogTypes, Call, Goto, Woken, Places, Steps, disk
<1>2. Phases'
    BY DEF LogTypes, Phases, Call, Goto, Woken, Places, Steps, disk
<1>3. NoPanic'
    BY DEF LogTypes, NoPanic, Call, Goto, Woken, Places, Steps, disk
<1>4. Reserved'
  <2>1. Active' = Active
    BY DEF LogTypes, Phases, NoPanic, Active, Call, Goto, Woken, Places, Steps, disk
  <2>2. wrote' = wrote /\ lh' = lh /\ outstanding' = outstanding
    BY DEF Call, Goto, Woken, Places, Steps, disk
  <2>3. Accounts(Active', wrote', lh', outstanding')
    BY <2>1, <2>2, AccountsSame DEF Reserved
  <2> QED
    BY <2>2, <2>3 DEF Reserved, Phases, Call, Goto, Woken, Places, Steps, disk
<1>5. Contents'
    BY DEF LogTypes, Phases, Contents, Call, Goto, Woken, Places, Steps, disk
<1> QED
    BY <1>1, <1>2, <1>3, <1>4, <1>5

LEMMA BeginOpStep ==
    ASSUME LogFits, LogInv, NEW p \in Procs, BeginOp(p)
    PROVE  LogInv'
<1> USE DEF LogInv
<1> DEFINE full == committing \/ NoSpace
<1>1. LogTypes'
    BY DEF LogTypes, BeginOp, Goto, Woken, Places, Steps, disk
<1>2. Phases'
    BY DEF LogTypes, Phases, BeginOp, Goto, Woken, Places, Steps, disk
<1>3. NoPanic'
    BY DEF LogTypes, NoPanic, BeginOp, Goto, Woken, Places, Steps, disk
<1>4. Reserved'
  <2>1. CASE full
    <3>1. Active' = Active
      BY <2>1 DEF LogTypes, Active, BeginOp, Goto, Places
    <3>2. wrote' = wrote /\ lh' = lh /\ outstanding' = outstanding /\ step' = step
      BY <2>1 DEF BeginOp
    <3>3. Accounts(Active', wrote', lh', outstanding')
      BY <3>1, <3>2, AccountsSame DEF Reserved
    <3> QED
      BY <3>2, <3>3 DEF Reserved
  <2>2. CASE ~full
    <3>1. Active' = Active \cup {p} /\ p \notin Active
      BY <2>2 DEF LogTypes, Active, BeginOp, Goto, Places
    <3>2. /\ wrote' = wrote /\ lh' = lh /\ outstanding' = outstanding + 1
          /\ pc[p] = "begin" /\ ~committing
      BY <2>2 DEF BeginOp
    <3>3. step = "none"
      BY <3>2 DEF Phases, LogTypes, Steps
    <3>4. Len(lh) \in Nat /\ LOGSIZE \in Nat /\ MAXOPBLOCKS \in Nat
      BY LogAssumption DEF LogTypes, Fits
    <3>5. outstanding \in Nat
      BY FS_CardinalityType DEF Reserved, Accounts
    <3>6. Len(lh) + (outstanding + 1) * MAXOPBLOCKS <= LOGSIZE
      <4> DEFINE m == (outstanding + 1) * MAXOPBLOCKS
      <4>1. m \in Nat /\ ~(Len(lh) + m > LOGSIZE)
        BY <2>2, <3>4, <3>5 DEF NoSpace
      <4> HIDE DEF m
      <4>2. Len(lh) + m <= LOGSIZE
        BY <4>1, <3>4
      <4> QED
        BY <4>2 DEF m
    <3>7. Accounts(Active \cup {p}, wrote, lh, outstanding + 1)
      BY <3>1, <3>3, <3>6, AccountsBegin DEF Reserved, LogTypes, Fits, Active
    <3>8. Accounts(Active', wrote', lh', outstanding')
      BY <3>1, <3>2, <3>7, AccountsSame
    <3> QED
      BY <3>2, <3>5, <3>8 DEF Reserved
  <2> QED
    BY <2>1, <2>2
<1>5. Contents'
    BY DEF LogTypes, Phases, Contents, BeginOp, Goto, Woken, Places, Steps, disk
<1> QED
    BY <1>1, <1>2, <1>3, <1>4, <1>5

LEMMA LogCheckStep ==
    ASSUME LogFits, LogInv, NEW p \in Procs, NEW b \in Blocks,
           NEW v \in Vals, LogCheck(p, b, v)
    PROVE  LogInv'
<1> USE DEF LogInv
<1>6. /\ Len(lh) + 1 < LOGSIZE /\ outstanding >= 1 /\ outstanding \in Nat
      /\ Len(lh) \in Nat /\ LOGSIZE \in Nat /\ Size \in Nat
  <2>1. p \in Active /\ Active \in SUBSET Procs
    BY DEF LogCheck, Active
  <2>2. lh \in Seq(Blocks) /\ Accounts(Active, wrote, lh, outstanding)
    BY DEF Reserved, LogTypes, Fits
  <2>3. Len(lh) + 1 < LOGSIZE /\ outstanding >= 1 /\ outstanding \in Nat
    BY <2>1, <2>2, Room
  <2> QED
    BY <2>2, <2>3, LogAssumption
<1>7. ~(TooBig \/ outstanding < 1)
    BY <1>6 DEF LogFits, TooBig
<1>8. pc[p] = "op" /\ pc' = [pc EXCEPT ![p] = "log"]
    BY <1>7 DEF LogCheck, Goto
<1>1. LogTypes'
    BY <1>8 DEF LogTypes, LogCheck, Places, disk
<1>2. Phases'
    BY <1>8 DEF LogTypes, Phases, LogCheck, disk
<1>3. NoPanic'
    BY <1>8 DEF LogTypes, NoPanic
<1>4. Reserved'
  <2>1. Active' = Active
    BY <1>8 DEF LogTypes, Active
  <2>2. /\ wrote' = [wrote EXCEPT ![p] = @ \cup {b}] /\ lh' = lh
        /\ outstanding' = outstanding /\ step' = step
    BY DEF LogCheck
  <2>3. Accounts(Active, [wrote EXCEPT ![p] = @ \cup {b}], lh, outstanding)
    BY AccountsWrite DEF LogCheck, Reserved, LogTypes, Fits, Active
  <2>4. Accounts(Active', wrote', lh', outstanding')
    BY <2>1, <2>2, <2>3, AccountsSame
  <2> QED
    BY <2>2, <2>4 DEF Reserved
<1>5. Contents'
  <2>1. step = "none"
    BY <1>8 DEF Phases
  <2>2. ASSUME NEW c \in Blocks
        PROVE  \/ cache'[c] = home'[c]
               \/ In(lh', c)
               \/ \E q \in Procs : pc'[q] = "log" /\ buf'[q] = c
    <3>1. /\ home' = home /\ lh' = lh /\ cache' = [cache EXCEPT ![b] = v]
          /\ buf' = [buf EXCEPT ![p] = b]
      BY DEF LogCheck, disk
    <3>2. CASE c = b
      BY <1>8, <3>1, <3>2 DEF LogTypes
    <3>3. CASE c # b
      <4>1. \/ cache[c] = home[c]
            \/ In(lh, c)
            \/ \E q \in Procs : pc[q] = "log" /\ buf[q] = c
        BY <2>1 DEF Contents
      <4> QED
        BY <1>8, <3>1, <3>3, <4>1 DEF LogTypes
    <3> QED
      BY <3>2, <3>3
  <2> QED
    BY <1>8, <2>1, <2>2 DEF Contents, LogCheck, disk
<1> QED
    BY <1>1, <1>2, <1>3, <1>4, <1>5

LEMMA LogAppendStep ==
    ASSUME LogFits, LogInv, NEW p \in Procs, LogAppend(p)
    PROVE  LogInv'
<1> USE DEF LogInv
<1>6. /\ pc[p] = "log" /\ step = "none" /\ buf[p] \in wrote[p]
      /\ buf[p] \in Blocks /\ p \in Active
    BY DEF LogAppend, LogTypes, Phases, Active
<1>7. Len(lh) + 1 < LOGSIZE /\ Len(lh) \in Nat /\ outstanding >= 1
  <2>1. Active \in SUBSET Procs
    BY DEF Active
  <2>2. lh \in Seq(Blocks) /\ Accounts(Active, wrote, lh, outstanding)
    BY DEF Reserved, LogTypes, Fits
  <2>3. Len(lh) + 1 < LOGSIZE /\ outstanding >= 1
    BY <1>6, <2>1, <2>2, Room
  <2> QED
    BY <2>2, <2>3
<1>8. /\ lh' = IF In(lh, buf[p]) THEN lh ELSE Append(lh, buf[p])
      /\ pc' = [pc EXCEPT ![p] = "op"] /\ buf' = [buf EXCEPT ![p] = NoBlock]
    BY DEF LogAppend, Absorbed, In, Goto
<1>9. /\ lh' \in Seq(Blocks) /\ Len(lh') \in Nat
      /\ Len(lh') < LOGSIZE /\ Len(lh') >= Len(lh)
    BY <1>6, <1>7, <1>8 DEF LogTypes, Fits
<1>10. Distinct(lh')
  <2>1. CASE In(lh, buf[p])
    BY <1>8, <2>1 DEF LogTypes, Fits
  <2>2. CASE ~In(lh, buf[p])
    <3>1. /\ lh \in Seq(Blocks) /\ Distinct(lh)
          /\ Len(lh') = Len(lh) + 1 /\ lh'[Len(lh) + 1] = buf[p]
          /\ \A k \in 1..Len(lh) : lh'[k] = lh[k]
      BY <1>6, <1>8, <2>2 DEF LogTypes, Fits
    <3> QED
      BY <1>7, <2>2, <3>1 DEF Distinct, In
  <2> QED
    BY <2>1, <2>2
<1>11. \A c : In(lh, c) \/ c = buf[p] => In(lh', c)
  <2>1. CASE In(lh, buf[p])
    BY <1>8, <2>1
  <2>2. CASE ~In(lh, buf[p])
    <3>1. /\ Len(lh') = Len(lh) + 1 /\ lh'[Len(lh) + 1] = buf[p]
          /\ \A k \in 1..Len(lh) : lh'[k] = lh[k]
      BY <1>6, <1>8, <2>2 DEF LogTypes, Fits
    <3> QED
      BY <1>7, <3>1 DEF In
  <2> QED
    BY <2>1, <2>2
<1>1. LogTypes'
    BY <1>8, <1>9, <1>10 DEF LogTypes, Fits, LogAppend, Places, disk
<1>2. Phases'
    BY <1>6, <1>8 DEF LogTypes, Phases, LogAppend, disk
<1>3. NoPanic'
    BY <1>8 DEF LogTypes, NoPanic
<1>4. Reserved'
  <2>1. Active' = Active
    BY <1>6, <1>8 DEF LogTypes, Active
  <2>2. wrote' = wrote /\ outstanding' = outstanding
    BY DEF LogAppend
  <2>3. Accounts(Active, wrote, lh', outstanding)
    <3>1. CASE In(lh, buf[p])
      BY <1>8, <3>1 DEF Reserved
    <3>2. CASE ~In(lh, buf[p])
      <4>1. Accounts(Active, wrote, Append(lh, buf[p]), outstanding)
        BY <1>6, <3>2, AccountsAppend DEF Reserved, LogTypes, Fits, Active
      <4> QED
        BY <1>8, <3>2, <4>1
    <3> QED
      BY <3>1, <3>2
  <2>4. Accounts(Active', wrote', lh', outstanding')
    BY <2>1, <2>2, <2>3, AccountsSame
  <2> QED
    BY <1>7, <2>2, <2>4 DEF Reserved
<1>5. Contents'
  <2>1. ASSUME NEW c \in Blocks
        PROVE  \/ cache'[c] = home'[c]
               \/ In(lh', c)
               \/ \E q \in Procs : pc'[q] = "log" /\ buf'[q] = c
    <3>1. cache' = cache /\ home' = home
      BY DEF LogAppend, disk
    <3>2. \/ cache[c] = home[c]
          \/ In(lh, c)
          \/ \E q \in Procs : pc[q] = "log" /\ buf[q] = c
      BY <1>6 DEF Contents
    <3>3. ASSUME NEW q \in Procs, pc[q] = "log", buf[q] = c, q # p
          PROVE  pc'[q] = "log" /\ buf'[q] = c
      BY <1>8, <3>3 DEF LogTypes
    <3> QED
      BY <1>11, <3>1, <3>2, <3>3
  <2> QED
    BY <1>6, <2>1 DEF Contents, LogAppend, disk
<1> QED
    BY <1>1, <1>2, <1>3, <1>4, <1>5

LEMMA EndOpStep ==
    ASSUME LogFits, LogInv, NEW p \in Procs, EndOp(p)
    PROVE  LogInv'
<1> USE DEF LogInv
<1>6. /\ pc[p] = "op" /\ step = "none" /\ ~committing /\ p \in Active
      /\ outstanding \in Nat /\ outstanding >= 1
    BY Room DEF EndOp, Phases, Active, Reserved, LogTypes, Fits
<1>7. /\ outstanding' = outstanding - 1
      /\ wrote' = [wrote EXCEPT ![p] = {}]
      /\ UNCHANGED <<disk, cache, lh, buf>>
    BY DEF EndOp
<1>8. CASE outstanding = 1
  <2>1. /\ committing' = TRUE /\ pc' = [pc EXCEPT ![p] = "commit"]
        /\ step' = IF lh = <<>> THEN "end" ELSE "log"
        /\ tail' = 0
    BY <1>6, <1>8 DEF EndOp, Goto
  <2>2. \A q \in Procs : q # p => pc[q] \notin {"op", "log", "panic"}
    <3>1. IsFiniteSet(Active) /\ Cardinality(Active) = 1
      BY <1>8 DEF Reserved, Accounts
    <3>2. IsFiniteSet(Active \ {p}) /\ Cardinality(Active \ {p}) = 0
      <4>1. p \in Active
        BY <1>6
      <4>2. Cardinality(Active \ {p}) = Cardinality(Active) - 1 /\ IsFiniteSet(Active \ {p})
        BY ONLY <3>1, <4>1, FS_RemoveElement
      <4> QED BY ONLY <3>1, <4>2
    <3>3. Active \ {p} = {}
      BY <3>2, FS_EmptySet
    <3> QED
      BY <3>3 DEF Active
  <2>3. Len(lh) \in Nat /\ (lh # <<>> => lh' # <<>>)
    BY <1>7 DEF LogTypes, Fits
  <2>4. LogTypes'
    BY <1>7, <2>1, <2>3 DEF LogTypes, Places, Steps, disk
  <2>5. Phases'
    BY <1>6, <1>7, <2>1, <2>2 DEF LogTypes, Phases, Places
  <2>6. NoPanic'
    BY <2>1 DEF NoPanic, LogTypes
  <2>7. Active' = Active \ {p}
    BY <2>1 DEF Active, LogTypes
  <2>8. Accounts(Active', wrote', lh', outstanding')
    <3>1. Accounts(Active \ {p}, [wrote EXCEPT ![p] = {}], lh, outstanding - 1)
      BY <1>6, AccountsEnd DEF Reserved, LogTypes, Fits, Active
    <3> QED
      BY <1>7, <2>7, <3>1, AccountsSame
  <2>9. Contents'
    <3>1. ASSUME NEW c \in Blocks
          PROVE  \/ cache'[c] = home'[c]
                 \/ In(lh', c)
                 \/ \E q \in Procs : pc'[q] = "log" /\ buf'[q] = c
      BY <1>6, <1>7, <2>2 DEF Contents, disk
    <3> QED
      BY <1>6, <1>7, <2>1, <3>1 DEF Contents, disk
  <2> QED
    BY <2>1, <2>4, <2>5, <2>6, <2>8, <2>9 DEF Reserved
<1>9. CASE outstanding # 1
  <2>1. /\ UNCHANGED <<committing, step, tail>>
        /\ pc' = [Woken EXCEPT ![p] = "idle"]
    BY <1>6, <1>9 DEF EndOp
  <2>2. /\ pc' \in [Procs -> Places] /\ pc'[p] = "idle"
        /\ \A q \in Procs \ {p} :
            pc'[q] = IF pc[q] = "asleep" THEN "begin" ELSE pc[q]
    BY <2>1 DEF Woken, LogTypes, Places
  <2>3. Active' = Active \ {p}
    BY <2>2 DEF Active
  <2>4. Accounts(Active', wrote', lh', outstanding')
    <3>1. Accounts(Active \ {p}, [wrote EXCEPT ![p] = {}], lh, outstanding - 1)
      BY <1>6, AccountsEnd DEF Reserved, LogTypes, Fits, Active
    <3> QED
      BY <1>7, <2>3, <3>1, AccountsSame
  <2>5. LogTypes'
    BY <1>7, <2>1, <2>2 DEF LogTypes, disk
  <2>6. Phases'
    BY <1>6, <1>7, <2>1, <2>2 DEF LogTypes, Phases
  <2>7. NoPanic'
    BY <2>2 DEF NoPanic
  <2>8. Contents'
    <3>1. ASSUME NEW c \in Blocks
          PROVE  \/ cache'[c] = home'[c]
                 \/ In(lh', c)
                 \/ \E q \in Procs : pc'[q] = "log" /\ buf'[q] = c
      <4>1. \A q \in Procs : pc[q] = "log" => pc'[q] = "log"
        BY <1>6, <2>2
      <4> QED
        BY <1>6, <1>7, <4>1 DEF Contents, disk
    <3> QED
      BY <1>6, <1>7, <2>1, <3>1 DEF Contents, disk
  <2> QED
    BY <1>6, <1>7, <1>9, <2>4, <2>5, <2>6, <2>7, <2>8 DEF Reserved
<1> QED
    BY <1>8, <1>9

LEMMA WriteLogStep ==
    ASSUME LogFits, LogInv, WriteLog
    PROVE  LogInv'
<1> USE DEF LogInv
<1>6. /\ Fits(lh) /\ Len(lh) \in Nat /\ tail + 1 \in 1..Len(lh)
      /\ tail + 1 \in InLog /\ lh[tail + 1] \in Blocks
  <2>1. Fits(lh) /\ Len(lh) \in Nat /\ tail + 1 \in 1..Len(lh)
    BY DEF WriteLog, LogTypes, Fits
  <2> QED
    BY <2>1, FitsInLog
<1>1. LogTypes'
    BY <1>6 DEF LogTypes, WriteLog
<1>2. Phases'
    BY DEF LogTypes, Phases, WriteLog, Goto, Woken, Places, Steps, disk
<1>3. NoPanic'
    BY DEF LogTypes, NoPanic, WriteLog, Goto, Woken, Places, Steps, disk
<1>4. Reserved'
  <2>1. Active' = Active
    BY DEF LogTypes, Phases, NoPanic, Active, WriteLog, Goto, Woken, Places, Steps, disk
  <2>2. wrote' = wrote /\ lh' = lh /\ outstanding' = outstanding
    BY DEF WriteLog, Goto, Woken, Places, Steps, disk
  <2>3. Accounts(Active', wrote', lh', outstanding')
    BY <2>1, <2>2, AccountsSame DEF Reserved
  <2> QED
    BY <2>2, <2>3 DEF Reserved, Phases, WriteLog, Goto, Woken, Places, Steps, disk
<1>5. Contents'
  <2>1. /\ step = "log" /\ step' = "log" /\ tail' = tail + 1
        /\ UNCHANGED <<home, head, cache, lh, pc, buf>>
        /\ logd' = [logd EXCEPT ![tail + 1] = cache[lh[tail + 1]]]
    BY DEF WriteLog
  <2>2. \A k \in 1..tail' : logd'[k] = cache'[lh'[k]]
    <3> TAKE k \in 1..tail'
    <3>1. k \in InLog
      BY <1>6, <2>1, FitsInLog DEF LogTypes
    <3>2. CASE k = tail + 1
      BY <2>1, <3>1, <3>2 DEF LogTypes
    <3>3. CASE k # tail + 1
      <4>1. k \in 1..tail
        BY <2>1, <3>3 DEF LogTypes
      <4> QED
        BY <2>1, <3>1, <3>3, <4>1 DEF LogTypes, Contents
    <3> QED
      BY <3>2, <3>3
  <2> QED
    BY <2>1, <2>2 DEF Contents
<1> QED
    BY <1>1, <1>2, <1>3, <1>4, <1>5

LEMMA WriteHeadStep ==
    ASSUME LogFits, LogInv, WriteHead
    PROVE  LogInv'
<1> USE DEF LogInv
<1>1. LogTypes'
    BY DEF LogTypes, WriteHead, Steps, Fits
<1>2. Phases'
    BY DEF LogTypes, Phases, WriteHead, Goto, Woken, Places, Steps, disk
<1>3. NoPanic'
    BY DEF LogTypes, NoPanic, WriteHead, Goto, Woken, Places, Steps, disk
<1>4. Reserved'
  <2>1. Active' = Active
    BY DEF LogTypes, Phases, NoPanic, Active, WriteHead, Goto, Woken, Places, Steps, disk
  <2>2. wrote' = wrote /\ lh' = lh /\ outstanding' = outstanding
    BY DEF WriteHead, Goto, Woken, Places, Steps, disk
  <2>3. Accounts(Active', wrote', lh', outstanding')
    BY <2>1, <2>2, AccountsSame DEF Reserved
  <2> QED
    BY <2>2, <2>3 DEF Reserved, Phases, WriteHead, Goto, Woken, Places, Steps, disk
<1>5. Contents'
    BY DEF LogTypes, Phases, Contents, WriteHead, Goto, Woken, Places, Steps, disk
<1> QED
    BY <1>1, <1>2, <1>3, <1>4, <1>5

LEMMA InstallStep ==
    ASSUME LogFits, LogInv, Install
    PROVE  LogInv'
<1> USE DEF LogInv
<1>6. /\ Fits(lh) /\ Len(lh) \in Nat /\ tail + 1 \in 1..Len(lh)
      /\ tail + 1 \in InLog /\ lh[tail + 1] \in Blocks
  <2>1. Fits(lh) /\ Len(lh) \in Nat /\ tail + 1 \in 1..Len(lh)
    BY DEF Install, LogTypes, Fits
  <2> QED
    BY <2>1, FitsInLog
<1>1. LogTypes'
    BY <1>6 DEF LogTypes, Install
<1>2. Phases'
    BY DEF LogTypes, Phases, Install, Goto, Woken, Places, Steps, disk
<1>3. NoPanic'
    BY DEF LogTypes, NoPanic, Install, Goto, Woken, Places, Steps, disk
<1>4. Reserved'
  <2>1. Active' = Active
    BY DEF LogTypes, Phases, NoPanic, Active, Install, Goto, Woken, Places, Steps, disk
  <2>2. wrote' = wrote /\ lh' = lh /\ outstanding' = outstanding
    BY DEF Install, Goto, Woken, Places, Steps, disk
  <2>3. Accounts(Active', wrote', lh', outstanding')
    BY <2>1, <2>2, AccountsSame DEF Reserved
  <2> QED
    BY <2>2, <2>3 DEF Reserved, Phases, Install, Goto, Woken, Places, Steps, disk
<1>5. Contents'
  <2>1. /\ step \in {"install", "replay"} /\ step' = step /\ tail' = tail + 1
        /\ UNCHANGED <<logd, head, cache, lh, pc, buf>>
        /\ home' = [home EXCEPT ![lh[tail + 1]] = logd[tail + 1]]
    BY DEF Install
  <2>2. \A k \in 1..tail' : home'[lh'[k]] = logd'[k]
    <3> TAKE k \in 1..tail'
    <3>1. k \in 1..Len(lh) /\ lh[k] \in Blocks
      BY <1>6, <2>1, FitsInLog DEF LogTypes
    <3>2. CASE k = tail + 1
      BY <2>1, <3>1, <3>2 DEF LogTypes
    <3>3. CASE k # tail + 1
      <4>1. k \in 1..tail /\ home[lh[k]] = logd[k]
        BY <2>1, <3>3 DEF LogTypes, Contents
      <4>2. lh[k] # lh[tail + 1]
        BY <1>6, <3>1, <3>3 DEF Fits, Distinct
      <4> QED
        BY <2>1, <3>1, <4>1, <4>2 DEF LogTypes
    <3> QED
      BY <3>2, <3>3
  <2>3. ASSUME NEW c \in Blocks, step = "install"
        PROVE  \/ cache'[c] = home'[c]
               \/ In(lh', c)
               \/ \E q \in Procs : pc'[q] = "log" /\ buf'[q] = c
    <3>1. In(lh, lh[tail + 1])
      BY <1>6 DEF In
    <3> QED
      BY <2>1, <2>3, <3>1 DEF Contents, LogTypes
  <2> QED
    BY <2>1, <2>2, <2>3 DEF Contents
<1> QED
    BY <1>1, <1>2, <1>3, <1>4, <1>5

LEMMA EraseHeadStep ==
    ASSUME LogFits, LogInv, EraseHead
    PROVE  LogInv'
<1> USE DEF LogInv
<1>6. Fits(<<>>) /\ Len(<<>>) = 0
    BY FitsEmpty
<1>1. LogTypes'
    BY <1>6 DEF LogTypes, EraseHead, Steps
<1>2. Phases'
    BY DEF LogTypes, Phases, EraseHead, Goto, Woken, Places, Steps, disk
<1>3. NoPanic'
    BY DEF LogTypes, NoPanic, EraseHead, Goto, Woken, Places, Steps, disk
<1>4. Reserved'
  <2>1. Active' = {} /\ outstanding' = 0
    <3>1. Active = {}
      BY DEF EraseHead, Phases, NoPanic, Active
    <3>2. outstanding = 0
      BY <3>1, CardEqual, FS_EmptySet DEF Reserved, Accounts
    <3> QED
      BY <3>1, <3>2 DEF EraseHead, Active
  <2>2. \A q \in Procs : IsFiniteSet(wrote'[q]) /\ Cardinality(wrote'[q]) <= OpBlocks
    BY DEF EraseHead, Reserved, Accounts
  <2>3. Accounts({}, wrote', lh', 0)
    BY <2>2, AccountsNone
  <2>4. Accounts(Active', wrote', lh', outstanding')
    BY <2>1, <2>3, AccountsSame
  <2>5. lh' = <<>>
    BY DEF EraseHead
  <2> QED
    BY <2>4, <2>5 DEF Reserved
<1>5. Contents'
  <2>1. /\ step \in {"install", "replay"} /\ tail = Len(lh) /\ head' = <<>>
        /\ lh' = <<>> /\ step' = IF step = "install" THEN "end" ELSE "boot"
        /\ UNCHANGED <<home, cache, pc, buf>>
    BY DEF EraseHead
  <2>2. ASSUME NEW c \in Blocks, step = "install" PROVE cache'[c] = home'[c]
    <3>1. \A q \in Procs : pc[q] # "log"
      BY <2>2 DEF Phases
    <3>2. CASE In(lh, c)
      <4>1. PICK k \in 1..Len(lh) : lh[k] = c
        BY <3>2 DEF In
      <4> QED
        BY <2>1, <2>2, <4>1 DEF Contents
    <3> QED
      BY <2>1, <2>2, <3>1, <3>2 DEF Contents
  <2> QED
    BY <2>1, <2>2 DEF Contents
<1> QED
    BY <1>1, <1>2, <1>3, <1>4, <1>5

LEMMA CommitEndStep ==
    ASSUME LogFits, LogInv, NEW p \in Procs, CommitEnd(p)
    PROVE  LogInv'
<1> USE DEF LogInv
<1>6. /\ pc[p] = "commit" /\ step = "end" /\ committing' = FALSE
      /\ step' = "none" /\ UNCHANGED <<disk, cache, lh, outstanding, wrote, buf, tail>>
    BY DEF CommitEnd
<1>7. /\ pc' \in [Procs -> Places] /\ pc'[p] = "idle"
      /\ \A q \in Procs \ {p} :
          pc'[q] = IF pc[q] = "asleep" THEN "begin" ELSE pc[q]
    BY DEF CommitEnd, Woken, LogTypes, Places
<1>8. \A q \in Procs : pc[q] \notin {"op", "log", "down", "panic"}
    BY <1>6 DEF Phases, NoPanic
<1>1. LogTypes'
    BY <1>6, <1>7 DEF LogTypes, Steps, disk
<1>2. Phases'
  <2>1. \A q \in Procs : pc'[q] # "commit"
    BY <1>6, <1>7 DEF Phases
  <2> QED
    BY <1>6, <1>7, <1>8, <2>1 DEF LogTypes, Phases
<1>3. NoPanic'
    BY <1>7, <1>8 DEF NoPanic
<1>4. Reserved'
  <2>1. Active' = Active
    BY <1>6, <1>7, <1>8 DEF Active
  <2>2. Accounts(Active', wrote', lh', outstanding')
    BY <1>6, <2>1, AccountsSame DEF Reserved
  <2> QED
    BY <1>6, <2>2 DEF Reserved, Contents
<1>5. Contents'
    BY <1>6, <1>7, <1>8 DEF Contents, disk
<1> QED
    BY <1>1, <1>2, <1>3, <1>4, <1>5

LEMMA CrashStep ==
    ASSUME LogFits, LogInv, Crash
    PROVE  LogInv'
<1> USE DEF LogInv
<1>6. Fits(<<>>) /\ Len(<<>>) = 0
    BY FitsEmpty
<1>1. LogTypes'
  <2>1. lh' = <<>> /\ Fits(lh') /\ Len(lh') = 0 /\ tail' = 0
    BY <1>6 DEF Crash
  <2>2. pc' \in [Procs -> Places] /\ buf' \in [Procs -> Blocks \cup {NoBlock}]
    BY DEF Crash, Places
  <2>3. wrote' \in [Procs -> SUBSET Blocks]
    BY DEF Crash
  <2>4. /\ UNCHANGED <<home, logd, head, cache>>
        /\ committing' = FALSE /\ step' = "read"
    BY DEF Crash, disk
  <2>5. committing' \in BOOLEAN
    BY <2>4
  <2>6. step' \in Steps /\ tail' \in Nat /\ tail' <= Len(lh')
    BY <2>1, <2>4 DEF Steps
  <2> QED
    BY <2>1, <2>2, <2>3, <2>4, <2>5, <2>6 DEF LogTypes
<1>2. Phases'
    BY DEF LogTypes, Phases, Crash, Goto, Woken, Places, Steps, disk
<1>3. NoPanic'
    BY DEF LogTypes, NoPanic, Crash, Goto, Woken, Places, Steps, disk
<1>4. Reserved'
  <2>1. Active' = {} /\ outstanding' = 0
    BY DEF Crash, Active
  <2>2. \A q \in Procs : IsFiniteSet(wrote'[q]) /\ Cardinality(wrote'[q]) <= OpBlocks
    <3> TAKE q \in Procs
    <3>1. wrote'[q] = {}
      BY DEF Crash
    <3>2. Cardinality(wrote'[q]) = 0 /\ IsFiniteSet(wrote'[q])
      BY <3>1, CardEqual, FS_EmptySet
    <3> QED
      BY <3>2, LogAssumption
  <2>3. Accounts({}, wrote', lh', 0)
    BY <2>2, AccountsNone
  <2>4. Accounts(Active', wrote', lh', outstanding')
    BY <2>1, <2>3, AccountsSame
  <2> QED
    BY <2>4 DEF Reserved, Crash
<1>5. Contents'
    BY DEF LogTypes, Phases, Contents, Crash, Goto, Woken, Places, Steps, disk
<1> QED
    BY <1>1, <1>2, <1>3, <1>4, <1>5

LEMMA ReadHeadStep ==
    ASSUME LogFits, LogInv, ReadHead
    PROVE  LogInv'
<1> USE DEF LogInv
<1>1. LogTypes'
  <2>1. lh = <<>> /\ lh' = head /\ Fits(head)
    BY DEF ReadHead, Contents, LogTypes
  <2>2. Len(lh) = 0 /\ Len(head) \in Nat
    BY <2>1 DEF Fits
  <2>3. tail' = 0 /\ tail' <= Len(lh')
    BY <2>1, <2>2 DEF LogTypes, ReadHead
  <2> QED
    BY <2>1, <2>3 DEF LogTypes, ReadHead, Steps, disk
<1>2. Phases'
    BY DEF LogTypes, Phases, ReadHead, Goto, Woken, Places, Steps, disk
<1>3. NoPanic'
    BY DEF LogTypes, NoPanic, ReadHead, Goto, Woken, Places, Steps, disk
<1>4. Reserved'
  <2>1. Active' = {} /\ outstanding' = 0
    <3>1. Active = {}
      BY DEF ReadHead, Phases, Active
    <3>2. outstanding = 0
      BY <3>1, CardEqual, FS_EmptySet DEF Reserved, Accounts
    <3> QED
      BY <3>1, <3>2 DEF ReadHead, Active
  <2>2. \A q \in Procs : IsFiniteSet(wrote'[q]) /\ Cardinality(wrote'[q]) <= OpBlocks
    BY DEF ReadHead, Reserved, Accounts
  <2>3. Accounts({}, wrote', lh', 0)
    BY <2>2, AccountsNone
  <2>4. Accounts(Active', wrote', lh', outstanding')
    BY <2>1, <2>3, AccountsSame
  <2> QED
    BY <2>4 DEF Reserved, ReadHead
<1>5. Contents'
    BY DEF LogTypes, Phases, Contents, ReadHead, Goto, Woken, Places, Steps, disk
<1> QED
    BY <1>1, <1>2, <1>3, <1>4, <1>5

LEMMA BootStep ==
    ASSUME LogFits, LogInv, Boot
    PROVE  LogInv'
<1> USE DEF LogInv
<1>1. LogTypes'
    BY DEF LogTypes, Boot, Goto, Woken, Places, Steps, disk
<1>2. Phases'
    BY DEF LogTypes, Phases, Boot, Goto, Woken, Places, Steps, disk
<1>3. NoPanic'
    BY DEF LogTypes, NoPanic, Boot, Goto, Woken, Places, Steps, disk
<1>4. Reserved'
  <2>1. Active' = Active
    BY DEF Boot, Phases, Active
  <2>2. wrote' = wrote /\ lh' = lh /\ outstanding' = outstanding
    BY DEF Boot
  <2>3. Accounts(Active', wrote', lh', outstanding')
    BY <2>1, <2>2, AccountsSame DEF Reserved
  <2> QED
    BY <2>2, <2>3 DEF Reserved, Contents, Boot
<1>5. Contents'
    BY DEF LogTypes, Phases, Contents, Boot, Goto, Woken, Places, Steps, disk
<1> QED
    BY <1>1, <1>2, <1>3, <1>4, <1>5

LEMMA NextInv == LogFits /\ LogInv /\ [Next]_vars => LogInv'
<1> SUFFICES ASSUME LogFits, LogInv, [Next]_vars PROVE LogInv'
    OBVIOUS
<1>1. CASE UNCHANGED vars
  <2>1. Active' = Active
    BY <1>1 DEF vars, Active
  <2>2. Accounts(Active', wrote', lh', outstanding')
    BY <1>1, <2>1, AccountsSame DEF vars, LogInv, Reserved
  <2>3. Reserved'
    BY <1>1, <2>2 DEF vars, LogInv, Reserved
  <2>4. LogTypes' /\ Phases' /\ NoPanic'
    BY <1>1 DEF vars, disk, LogInv, LogTypes, Phases, NoPanic
  <2>5. Contents'
    BY <1>1 DEF vars, disk, LogInv, Contents
  <2> QED
    BY <2>3, <2>4, <2>5 DEF LogInv
<1>2. CASE Next
    BY <1>2, CallStep, BeginOpStep, LogCheckStep, LogAppendStep, EndOpStep,
       WriteLogStep, WriteHeadStep, InstallStep, EraseHeadStep, CommitEndStep,
       CrashStep, ReadHeadStep, BootStep DEF Next, Proc, CommitSteps
<1> QED
    BY <1>1, <1>2

\* The accounts, the phases and the contents of the blocks, whatever crashes.
THEOREM LogInvariance == LogFits => (Spec => []LogInv)
<1>1. LogFits /\ Init => LogInv
    BY InitInv
<1>2. LogFits /\ LogInv /\ [Next]_vars => LogInv'
    BY NextInv
<1>3. ASSUME LogFits PROVE Spec => []LogInv
    BY <1>1, <1>2, <1>3, PTL DEF Spec
<1> QED
    BY <1>3

\* The panics of log_write() and end_op() do not fire with any number of
\* processes: between the look at the size of the log, which log_write() takes
\* without the lock, and the append, others only use what begin_op() reserved.
THEOREM LogNeverPanics == LogFits => (Spec => []NoPanic)
<1>1. LogInv => NoPanic
    BY DEF LogInv
<1>2. ASSUME LogFits PROVE Spec => []NoPanic
    BY <1>1, <1>2, LogInvariance, PTL
<1> QED
    BY <1>2

-----------------------------------------------------------------------------
(* What the next boot finds.                                               *)

\* With an empty header the next boot finds the home blocks.
LEMMA RecoveredEmpty ==
    LogTypes /\ head = <<>> => Recovered = home
BY DEF LogTypes, Recovered

\* When no operation is under way a block that is not in the log is the same
\* in memory and at home.
LEMMA CleanBlocks ==
    ASSUME LogInv, step \in {"none", "log", "install", "end"},
           \A p \in Procs : pc[p] # "log", NEW b \in Blocks
    PROVE  cache[b] = home[b] \/ In(lh, b)
BY DEF LogInv, Contents

LEMMA DurableNow == LogInv => DurableAfterEnd
<1> SUFFICES ASSUME LogInv, step = "none", outstanding = 0 PROVE Recovered = cache
    BY DEF DurableAfterEnd
<1>1. lh = <<>> /\ head = <<>> /\ LogTypes
    BY DEF LogInv, Reserved, Contents
<1>2. \A p \in Procs : pc[p] # "log"
  <2>1. IsFiniteSet(Active) /\ Cardinality(Active) = 0
    BY DEF LogInv, Reserved, Accounts
  <2>2. Active = {}
    BY <2>1, FS_EmptySet
  <2> QED
    BY <2>2 DEF Active
<1>3. \A b : ~In(lh, b)
    BY <1>1 DEF In
<1>4. \A b \in Blocks : cache[b] = home[b]
    BY <1>2, <1>3, CleanBlocks
<1>5. cache = home
    BY <1>1, <1>4 DEF LogTypes
<1> QED
    BY <1>1, <1>5, RecoveredEmpty

\* When the last end_op() has returned the next boot finds all that its group
\* has written, and nothing of the log is left.
THEOREM GroupIsDurable == LogFits => (Spec => []DurableAfterEnd)
<1>1. LogInv => DurableAfterEnd
    BY DurableNow
<1>2. ASSUME LogFits PROVE Spec => []DurableAfterEnd
    BY <1>1, <1>2, LogInvariance, PTL
<1> QED
    BY <1>2

-----------------------------------------------------------------------------
(* The log implements the atomic disk.                                     *)

\* Home blocks h, overwritten by the blocks l of the log that header s names.
Replayed(h, l, s) ==
    [b \in Blocks |->
        IF \E k \in 1..Len(s) : s[k] = b
        THEN l[CHOOSE k \in 1..Len(s) : s[k] = b]
        ELSE h[b]]

LEMMA RecoveredIs ==
    /\ Recovered = Replayed(home, logd, head)
    /\ Recovered' = Replayed(home', logd', head')
BY DEF Recovered, Replayed

LEMMA ReplayedAt ==
    ASSUME NEW h, NEW l, NEW s, Fits(s), NEW b \in Blocks
    PROVE  /\ \A k \in 1..Len(s) : s[k] = b => Replayed(h, l, s)[b] = l[k]
           /\ ~In(s, b) => Replayed(h, l, s)[b] = h[b]
<1>1. ASSUME NEW k \in 1..Len(s), s[k] = b PROVE Replayed(h, l, s)[b] = l[k]
  <2>1. \A j \in 1..Len(s) : s[j] = b => j = k
    BY <1>1 DEF Fits, Distinct
  <2>2. (CHOOSE j \in 1..Len(s) : s[j] = b) = k
    BY <1>1, <2>1
  <2> QED
    BY <1>1, <2>2 DEF Replayed
<1> QED
    BY <1>1 DEF Replayed, In

\* Two ways of overwriting that agree on every block are one.
LEMMA ReplayedIs ==
    ASSUME NEW h, NEW l, NEW s, NEW f, f = [b \in Blocks |-> f[b]],
           \A b \in Blocks : Replayed(h, l, s)[b] = f[b]
    PROVE  Replayed(h, l, s) = f
<1>1. /\ DOMAIN Replayed(h, l, s) = Blocks
      /\ Replayed(h, l, s) = [b \in Blocks |-> Replayed(h, l, s)[b]]
    BY DEF Replayed
<1> QED
    BY <1>1

\* The disk of the refinement mapping.
Memory == IF step \in {"read", "replay", "boot"} THEN Recovered ELSE cache

\* A step that leaves the three parts of the abstract disk alone.
LEMMA Stutters ==
    ASSUME Memory' = Memory, Recovered' = Recovered, Active' = Active
    PROVE  UNCHANGED Disk!diskVars
BY DEF Disk!diskVars, Memory, Active

LEMMA DiskBegins ==
    ASSUME NEW p \in Procs, p \notin Active, Active' = Active \cup {p},
           Memory' = Memory, Recovered' = Recovered
    PROVE  Disk!DNext
<1>1. Disk!Begin(p)
    BY DEF Disk!Begin, Memory, Active
<1> QED
    BY <1>1 DEF Disk!DNext

LEMMA DiskEnds ==
    ASSUME NEW p \in Procs, p \in Active, Active' = Active \ {p},
           Memory' = Memory, Recovered' = Recovered
    PROVE  Disk!DNext
<1>1. Disk!End(p)
    BY DEF Disk!End, Memory, Active
<1> QED
    BY <1>1 DEF Disk!DNext

LEMMA DiskWrites ==
    ASSUME NEW p \in Procs, NEW b \in Blocks, NEW v \in Vals, p \in Active,
           Active' = Active, Memory' = [Memory EXCEPT ![b] = v],
           Recovered' = Recovered
    PROVE  Disk!DNext
<1>1. Disk!Write(p, b, v)
    BY DEF Disk!Write, Memory, Active
<1> QED
    BY <1>1 DEF Disk!DNext

LEMMA DiskCommits ==
    ASSUME Active = {}, Active' = {}, Memory' = Memory, Recovered' = Memory
    PROVE  Disk!DNext
<1>1. Disk!Commit
    BY DEF Disk!Commit, Memory, Active
<1> QED
    BY <1>1 DEF Disk!DNext

LEMMA DiskCrashes ==
    ASSUME Active' = {}, Memory' = Recovered, Recovered' = Recovered
    PROVE  Disk!DNext
<1>1. Disk!Crash
    BY DEF Disk!Crash, Memory, Active
<1> QED
    BY <1>1 DEF Disk!DNext

LEMMA InitDisk == LogFits /\ Init => Disk!DInit
<1> SUFFICES ASSUME LogFits, Init PROVE Disk!DInit
    OBVIOUS
<1>1. LogInv
    BY InitInv
<1>2. Recovered = home
    BY <1>1, RecoveredEmpty DEF LogInv, Init
<1>3. Memory = cache /\ cache = home /\ home \in [Blocks -> Vals] /\ Active = {}
    BY DEF Init, Memory, Active
<1> QED
    BY <1>2, <1>3 DEF Disk!DInit, Memory, Active

\* The system calls: an operation begins, writes and ends.
LEMMA CallsRefine ==
    ASSUME LogFits, LogInv, NEW p \in Procs,
           \/ Call(p)
           \/ Proc(p)
           \/ \E b \in Blocks, v \in Vals : LogCheck(p, b, v)
    PROVE  Disk!DNext \/ UNCHANGED Disk!diskVars
<1>1. home' = home /\ logd' = logd /\ head' = head
    BY DEF Call, Proc, BeginOp, LogAppend, EndOp, CommitEnd, LogCheck, disk
<1>2. Recovered' = Recovered
    BY <1>1 DEF Recovered
<1>3. ASSUME step' = step \/ {step, step'} \cap {"read", "replay", "boot"} = {},
             cache' = cache
      PROVE  Memory' = Memory
    BY <1>2, <1>3 DEF Memory
<1>4. LogTypes /\ Phases /\ NoPanic
    BY DEF LogInv
<1>5. CASE Call(p)
  <2>1. Active' = Active
    BY <1>4, <1>5 DEF LogTypes, Active, Call, Goto
  <2>2. Memory' = Memory
    BY <1>3, <1>5 DEF Call
  <2> QED
    BY <1>2, <2>1, <2>2, Stutters
<1>6. CASE BeginOp(p)
  <2>1. Memory' = Memory
    BY <1>3, <1>6 DEF BeginOp
  <2>2. \/ Active' = Active
        \/ p \notin Active /\ Active' = Active \cup {p}
    BY <1>4, <1>6 DEF LogTypes, Active, BeginOp, Goto
  <2> QED
    BY <1>2, <2>1, <2>2, Stutters, DiskBegins
<1>7. CASE LogAppend(p)
  <2>1. Active' = Active
    BY <1>4, <1>7 DEF LogTypes, Active, LogAppend, Goto
  <2>2. Memory' = Memory
    BY <1>3, <1>7 DEF LogAppend
  <2> QED
    BY <1>2, <2>1, <2>2, Stutters
<1>8. CASE EndOp(p)
  <2>1. pc[p] = "op" /\ step = "none" /\ ~committing
    BY <1>4, <1>8 DEF Phases, EndOp
  <2>2. p \in Active /\ Active' = Active \ {p}
    BY <1>4, <1>8, <2>1 DEF LogTypes, Active, EndOp, Goto, Woken
  <2>3. step' \in {"none", "log", "end"} /\ cache' = cache
    BY <1>8, <2>1 DEF EndOp
  <2>4. Memory' = Memory
    BY <2>1, <2>3 DEF Memory
  <2> QED
    BY <1>2, <2>2, <2>4, DiskEnds
<1>9. CASE CommitEnd(p)
  <2>1. Active' = Active
    BY <1>4, <1>9 DEF LogTypes, Active, CommitEnd, Woken
  <2>2. Memory' = Memory
    BY <1>9 DEF CommitEnd, Memory
  <2> QED
    BY <1>2, <2>1, <2>2, Stutters
<1>10. ASSUME NEW b \in Blocks, NEW v \in Vals, LogCheck(p, b, v)
       PROVE  Disk!DNext
  <2>1. /\ pc[p] = "op" /\ step = "none" /\ step' = step
        /\ cache' = [cache EXCEPT ![b] = v]
    BY <1>4, <1>10 DEF Phases, LogCheck
  <2>2. p \in Active /\ Active' = Active
    BY <1>4, <1>10 DEF LogTypes, Active, LogCheck, Goto
  <2>3. Memory' = [Memory EXCEPT ![b] = v]
    BY <2>1 DEF Memory
  <2> QED
    BY <1>2, <2>2, <2>3, DiskWrites
<1> QED
    BY <1>5, <1>6, <1>7, <1>8, <1>9, <1>10 DEF Proc

\* Writing the header is the moment at which the group becomes durable.
LEMMA WriteHeadRefines ==
    ASSUME LogFits, LogInv, WriteHead
    PROVE  Disk!DNext
<1>1. /\ step = "log" /\ step' = "install" /\ tail = Len(lh) /\ head' = lh
      /\ UNCHANGED <<home, logd, cache, pc>>
    BY DEF WriteHead
<1>2. \A p \in Procs : pc[p] \notin {"op", "log", "panic"}
    BY <1>1 DEF LogInv, Phases, NoPanic
<1>3. Active = {} /\ Active' = {}
    BY <1>1, <1>2 DEF Active
<1>4. Memory' = Memory /\ Memory = cache
    BY <1>1 DEF Memory
<1>5. \A b \in Blocks : Replayed(home', logd', head')[b] = cache[b]
  <2> TAKE b \in Blocks
  <2>1. Fits(lh) /\ head' = lh /\ logd' = logd /\ home' = home
    BY <1>1 DEF LogInv, LogTypes
  <2>2. CASE In(lh, b)
    <3>1. PICK k \in 1..Len(lh) : lh[k] = b
      BY <2>2 DEF In
    <3>2. logd[k] = cache[b]
      BY <1>1, <3>1 DEF LogInv, Contents
    <3> QED
      BY <2>1, <3>1, <3>2, ReplayedAt
  <2>3. CASE ~In(lh, b)
    <3>1. cache[b] = home[b]
      BY <1>1, <1>2, <2>3 DEF LogInv, Contents
    <3> QED
      BY <2>1, <2>3, <3>1, ReplayedAt
  <2> QED
    BY <2>2, <2>3
<1>6. cache = [b \in Blocks |-> cache[b]]
    BY DEF LogInv, LogTypes
<1>7. Recovered' = Memory
    BY <1>4, <1>5, <1>6, ReplayedIs, RecoveredIs
<1> QED
    BY <1>3, <1>4, <1>7, DiskCommits

\* Installing changes home blocks that the header names only.
LEMMA InstallRefines ==
    ASSUME LogFits, LogInv, Install
    PROVE  UNCHANGED Disk!diskVars
<1>1. /\ step \in {"install", "replay"} /\ head = lh /\ Fits(head)
      /\ UNCHANGED <<logd, head, cache, pc, step>>
      /\ home' = [home EXCEPT ![lh[tail + 1]] = logd[tail + 1]]
    BY DEF LogInv, LogTypes, Contents, Install
<1>2. In(lh, lh[tail + 1])
  <2>1. tail + 1 \in 1..Len(lh)
    BY DEF Install, LogInv, LogTypes, Fits
  <2> QED
    BY <2>1 DEF In
<1> DEFINE f == Replayed(home, logd, head)
<1>3. \A b \in Blocks : Replayed(home', logd', head')[b] = f[b]
  <2> TAKE b \in Blocks
  <2>1. CASE In(head, b)
    <3>1. PICK k \in 1..Len(head) : head[k] = b
      BY <2>1 DEF In
    <3> QED
      BY <1>1, <3>1, ReplayedAt
  <2>2. CASE ~In(head, b)
    <3>1. home'[b] = home[b]
      BY <1>1, <1>2, <2>2 DEF LogInv, LogTypes
    <3>2. Replayed(home', logd', head')[b] = home'[b]
      <4>1. Fits(head') /\ ~In(head', b)
        BY <1>1, <2>2
      <4> QED
        BY <4>1, ReplayedAt
    <3>3. f[b] = home[b]
      BY <1>1, <2>2, ReplayedAt
    <3> QED
      BY <3>1, <3>2, <3>3
  <2> QED
    BY <2>1, <2>2
<1>4. f = [b \in Blocks |-> f[b]]
    BY DEF Replayed
<1>5. Recovered' = Recovered
  <2> HIDE DEF f
  <2>1. Replayed(home', logd', head') = f
    BY <1>3, <1>4, ReplayedIs
  <2> QED
    BY <2>1, RecoveredIs DEF f
<1>6. Memory' = Memory /\ Active' = Active
    BY <1>1, <1>5 DEF Memory, Active
<1> QED
    BY <1>5, <1>6, Stutters

\* When all is installed the header is not needed any more.
LEMMA EraseHeadRefines ==
    ASSUME LogFits, LogInv, LogInv', EraseHead
    PROVE  UNCHANGED Disk!diskVars
<1>1. /\ step \in {"install", "replay"} /\ head = lh /\ Fits(head)
      /\ tail = Len(lh) /\ head' = <<>>
      /\ step' = IF step = "install" THEN "end" ELSE "boot"
      /\ UNCHANGED <<home, logd, cache, pc>>
    BY DEF LogInv, LogTypes, Contents, EraseHead
<1>2. \A b \in Blocks : Replayed(home, logd, head)[b] = home[b]
  <2> TAKE b \in Blocks
  <2>1. CASE In(head, b)
    <3>1. PICK k \in 1..Len(head) : head[k] = b
      BY <2>1 DEF In
    <3>2. home[b] = logd[k]
      BY <1>1, <3>1 DEF LogInv, Contents
    <3> QED
      BY <1>1, <3>1, <3>2, ReplayedAt
  <2>2. CASE ~In(head, b)
    BY <1>1, <2>2, ReplayedAt
  <2> QED
    BY <2>1, <2>2
<1>3. home = [b \in Blocks |-> home[b]]
    BY DEF LogInv, LogTypes
<1>4. Recovered = home
    BY <1>2, <1>3, ReplayedIs, RecoveredIs
<1>5. (Recovered = home)'
  <2>1. (LogTypes /\ head = <<>>)'
    BY <1>1 DEF LogInv
  <2> QED
    BY <2>1, RecoveredEmpty, PTL
<1>6. Memory' = Memory /\ Active' = Active
    BY <1>1, <1>4, <1>5 DEF Memory, Active
<1> QED
    BY <1>1, <1>4, <1>5, <1>6, Stutters

LEMMA NextDisk ==
    LogFits /\ LogInv /\ LogInv' /\ [Next]_vars => [Disk!DNext]_(Disk!diskVars)
<1> SUFFICES ASSUME LogFits, LogInv, LogInv', [Next]_vars
             PROVE  Disk!DNext \/ UNCHANGED Disk!diskVars
    OBVIOUS
<1>1. CASE UNCHANGED vars
  <2>1. Recovered' = Recovered
    BY <1>1 DEF vars, disk, Recovered
  <2>2. Memory' = Memory /\ Active' = Active
    BY <1>1, <2>1 DEF vars, Memory, Active
  <2> QED
    BY <2>1, <2>2, Stutters
<1>2. CASE WriteLog
  <2>1. /\ step = "log" /\ step' = step /\ home' = home /\ cache' = cache
        /\ pc' = pc
    BY <1>2 DEF WriteLog
  <2>2. Recovered = home
    BY <2>1, RecoveredEmpty DEF LogInv, Contents
  <2>3. (Recovered = home)'
    <3>1. (LogTypes /\ head = <<>>)'
      BY <2>1 DEF LogInv, Contents
    <3> QED
      BY <3>1, RecoveredEmpty, PTL
  <2>4. Memory' = Memory /\ Active' = Active
    BY <2>1, <2>2, <2>3 DEF Memory, Active
  <2> QED
    BY <2>1, <2>2, <2>3, <2>4, Stutters
<1>3. CASE Crash
  <2>1. Recovered' = Recovered
    BY <1>3 DEF Crash, disk, Recovered
  <2>2. Memory' = Recovered
    BY <1>3, <2>1 DEF Crash, Memory
  <2>3. Active' = {}
    BY <1>3 DEF Crash, Active
  <2> QED
    BY <2>1, <2>2, <2>3, DiskCrashes
<1>4. CASE ReadHead
  <2>1. Recovered' = Recovered
    BY <1>4 DEF ReadHead, disk, Recovered
  <2>2. Memory' = Memory /\ Active' = Active
    BY <1>4, <2>1 DEF ReadHead, Memory, Active
  <2> QED
    BY <2>1, <2>2, Stutters
<1>5. CASE Boot
  <2>1. Recovered' = Recovered
    BY <1>5 DEF Boot, disk, Recovered
  <2>2. step = "boot" /\ step' = "none" /\ cache' = home /\ head = <<>>
    BY <1>5 DEF Boot, LogInv, Contents
  <2>3. Recovered = home
    BY <2>2, RecoveredEmpty DEF LogInv
  <2>4. Memory' = Memory
    BY <2>2, <2>3 DEF Memory
  <2>5. Active' = Active
    BY <1>5 DEF Boot, LogInv, Phases, Active
  <2> QED
    BY <2>1, <2>4, <2>5, Stutters
<1> QED
    BY <1>1, <1>2, <1>3, <1>4, <1>5, CallsRefine, WriteHeadRefines,
       InstallRefines, EraseHeadRefines DEF Next, CommitSteps

\* The operations of the file system are atomic across crashes: whenever the
\* machine stops, in the middle of commit() or of the recovery itself, the next
\* boot finds all the writes of the committed groups and nothing of the others,
\* for any number of processes, blocks and crashes.
THEOREM LogIsAtomic == LogFits => (Spec => CrashAtomic)
<1>1. LogFits /\ Init => Disk!DInit
    BY InitDisk
<1>2. LogFits /\ LogInv /\ LogInv' /\ [Next]_vars => [Disk!DNext]_(Disk!diskVars)
    BY NextDisk
<1>3. ASSUME LogFits PROVE Spec => CrashAtomic
    BY <1>1, <1>2, <1>3, LogInvariance, PTL DEF Spec, CrashAtomic, Disk!DSpec
<1> QED
    BY <1>3

-----------------------------------------------------------------------------
(* The blocks of files: the inductive invariant of module FileData.        *)

\* What a word of a block may be.
FileWords == Words \cup {ImageWord} \cup Data \cup {0}
DInodes == [addrs : [0..NDIRECT -> Data \cup {0}], size : 0..(MAXFILE * BSIZE)]
Jobs == [kind : {"none", "read", "write", "trunc"}, f : All, off : Nat, end : Nat,
         rest : Nat, word : FileWords, fresh : Data \cup {0}]

FDTypes ==
    /\ phase \in {"mkfs", "run"} /\ freeblock \in Nat \ {0}
    /\ bitmap \subseteq Data
    /\ block \in [Data -> [0..(BSIZE - 1) -> FileWords]]
    /\ inode \in [All -> DInodes] /\ dinode \in [All -> DInodes]
    /\ iholder \in [All -> Writers \cup {NoOne}]
    /\ job \in [Writers -> Jobs]

\* While mkfs runs nobody calls, and what it has not given out is clear.
ImageRight ==
    phase = "mkfs" =>
        /\ \A p \in Writers : job[p] = NoJob
        /\ \A f \in All : iholder[f] = NoOne /\ inode[f] = dinode[f]
        /\ freeblock <= ImageBlocks + 1
        /\ \A b \in Data : b >= freeblock => block[b] = Zeroes

\* The call that has the lock of a file, and how far it is.
Kind(f) == IF iholder[f] = NoOne THEN "none" ELSE job[iholder[f]].kind
Off(f) == IF iholder[f] = NoOne THEN 0 ELSE job[iholder[f]].off
End(f) == IF iholder[f] = NoOne THEN 0 ELSE job[iholder[f]].end

\* Who has the lock is in a call on the file.
HolderRight(f) ==
    iholder[f] # NoOne => job[iholder[f]].f = f /\ job[iholder[f]].kind # "none"

RangeRight(f) ==
    /\ Kind(f) \in {"read", "write"} => Off(f) <= End(f) /\ End(f) <= MAXFILE * BSIZE
    /\ Kind(f) = "read" => End(f) <= inode[f].size

\* How far itrunc() is.
TruncRight(f) ==
    Kind(f) = "trunc" =>
        /\ Off(f) <= MAXFILE + 1
        /\ \A i \in 0..(NDIRECT - 1) : i < Off(f) => inode[f].addrs[i] = 0
        /\ Off(f) > MAXFILE => inode[f].addrs[NDIRECT] = 0

\* The disk has what the cache has, or the call that has the lock will write it.
CacheRight(f) ==
    \/ inode[f] = dinode[f]
    \/ Kind(f) = "trunc"
    \/ Kind(f) = "write" /\ End(f) > inode[f].size

\* A file has no holes, up to its size and to what has been written beyond it.
NoHoles(f) ==
    Kind(f) # "trunc" =>
        \A o \in Nat : o < inode[f].size \/ (Kind(f) = "write" /\ o < Off(f)) =>
            Lookup(inode[f], o \div BSIZE) # 0

\* The words of an indirect block are block numbers.
TableRight(f) ==
    inode[f].addrs[NDIRECT] # 0 =>
        \A w \in 0..(BSIZE - 1) : block[inode[f].addrs[NDIRECT]][w] \in Data \cup {0}

FileRight(f) == /\ HolderRight(f) /\ RangeRight(f) /\ TruncRight(f)
                /\ CacheRight(f) /\ NoHoles(f) /\ TableRight(f)

\* A block is taken only for a place that is empty.
FreshRight(p) == job[p].fresh # 0 => Working(p) /\ Missing(p)

\* What place i of file f refers to: an address of the inode, or an entry of
\* its indirect block that is not freed.
Slots == 0..MAXFILE
Ref(f, i) ==
    IF i <= NDIRECT THEN inode[f].addrs[i]
    ELSE IF inode[f].addrs[NDIRECT] = 0 \/ (Kind(f) = "trunc" /\ i <= Off(f)) THEN 0
    ELSE block[inode[f].addrs[NDIRECT]][i - NDIRECT - 1]

Used == IF phase = "mkfs" THEN 1..(freeblock - 1) ELSE bitmap

\* R says what each place refers to, F what each call has in hand, U the blocks
\* that are in use: each of them is somewhere, and in one place.
OneOwner(R, F, U) ==
    /\ U \subseteq Data
    /\ \A f \in All, i \in Slots : R[f][i] \in U \cup {0}
    /\ \A p \in Writers : F[p] \in U \cup {0}
    /\ \A f, g \in All, i, j \in Slots : R[f][i] = R[g][j] /\ R[f][i] # 0 => f = g /\ i = j
    /\ \A p, q \in Writers : F[p] = F[q] /\ F[p] # 0 => p = q
    /\ \A f \in All, i \in Slots, p \in Writers : R[f][i] = F[p] => F[p] = 0
    /\ \A b \in U : (\E f \in All, i \in Slots : R[f][i] = b) \/ \E p \in Writers : F[p] = b

Refs == [f \in All |-> [i \in Slots |-> Ref(f, i)]]
InHand == [p \in Writers |-> job[p].fresh]

OwnersRight == OneOwner(Refs, InHand, Used)

FDInv == /\ FDTypes /\ ImageRight /\ OwnersRight
         /\ \A f \in All : FileRight(f)
         /\ \A p \in Writers : FreshRight(p)

\* The sizes.
LEMMA Sizes ==
    /\ NBlocks \in Nat \ {0} /\ BSIZE \in Nat \ {0} /\ NDIRECT \in Nat \ {0}
    /\ MaxWrite \in Nat \ {0} /\ ImageBlocks \in Nat /\ ImageBlocks <= NBlocks
    /\ MAXFILE = NDIRECT + BSIZE /\ MAXFILE \in Nat \ {0}
    /\ MAXFILE * BSIZE \in Nat /\ 0 \notin Data /\ Data \subseteq Nat
    /\ NoOne \notin Writers /\ Root \in All
BY FileDataAssumption DEF MAXFILE, NINDIRECT, Data, All

\* Division by the words of a block.
LEMMA DivIs ==
    ASSUME NEW a \in Nat, NEW n \in Nat \ {0}
    PROVE  /\ a \div n \in Nat /\ a % n \in 0..(n - 1)
           /\ a = n * (a \div n) + (a % n)
OBVIOUS

\* The quotient of an offset by the block size is one number.
LEMMA DivOne ==
    ASSUME NEW n \in Nat \ {0}, NEW q \in Nat, NEW r \in 0..(n - 1), NEW q2 \in Nat,
           NEW r2 \in 0..(n - 1), n * q + r = n * q2 + r2
    PROVE  q = q2
<1>1. ASSUME NEW x \in Nat, NEW y \in Nat, x < y PROVE n * x + n <= n * y
  <2>1. y = x + 1 + (y - x - 1) /\ y - x - 1 \in Nat
    BY <1>1
  <2>2. n * y = n * x + n + n * (y - x - 1)
    BY <2>1
  <2>3. n * (y - x - 1) \in Nat
    BY <2>1
  <2> QED BY <2>2, <2>3
<1>2. ~(q < q2)
  BY <1>1
<1>3. ~(q2 < q)
  BY <1>1
<1> QED BY <1>2, <1>3

\* The offsets of one block.
LEMMA SameBlock ==
    ASSUME NEW a \in Nat, NEW o \in Nat, NEW n \in Nat \ {0},
           a <= o, o < a + (n - (a % n))
    PROVE  o \div n = a \div n
<1>1. /\ a \div n \in Nat /\ a % n \in 0..(n - 1) /\ a = n * (a \div n) + (a % n)
      /\ o \div n \in Nat /\ o % n \in 0..(n - 1) /\ o = n * (o \div n) + (o % n)
  BY DivIs
<1>2. o = n * (a \div n) + ((a % n) + (o - a)) /\ (a % n) + (o - a) \in 0..(n - 1)
  <2> DEFINE A == n * (a \div n)
             r == a % n
  <2>1. A \in Nat /\ r \in 0..(n - 1) /\ a = A + r
    BY <1>1
  <2> HIDE DEF A, r
  <2>2. o = A + (r + (o - a)) /\ r + (o - a) \in 0..(n - 1)
    <3>1. o < a + (n - r) /\ a <= o
      BY DEF r
    <3> QED BY ONLY <2>1, <3>1, o \in Nat, a \in Nat, n \in Nat \ {0}
  <2> QED BY <2>2 DEF A, r
<1>3. n * (o \div n) + (o % n) = n * (a \div n) + ((a % n) + (o - a))
  BY <1>1, <1>2
<1> DEFINE q == o \div n
           r == o % n
           q2 == a \div n
           r2 == (a % n) + (o - a)
<1>4. q \in Nat /\ r \in 0..(n - 1) /\ q2 \in Nat /\ r2 \in 0..(n - 1)
      /\ n * q + r = n * q2 + r2
  BY <1>1, <1>2, <1>3
<1> HIDE DEF q, r, q2, r2
<1>5. q = q2
  BY ONLY <1>4, DivOne, n \in Nat \ {0}
<1> QED BY <1>5 DEF q, q2

\* An offset below that of block m is in a block below m, and the reverse.
LEMMA BlockBelow ==
    ASSUME NEW a \in Nat, NEW m \in Nat, NEW n \in Nat \ {0}
    PROVE  /\ a < m * n => a \div n < m
           /\ a \div n < m => a + (n - (a % n)) <= m * n
<1> DEFINE q == a \div n
           r == a % n
<1>1. q \in Nat /\ r \in 0..(n - 1) /\ a = n * q + r
  BY DivIs
<1> HIDE DEF q, r
<1>2. ASSUME NEW x \in Nat, NEW y \in Nat, x <= y PROVE n * x <= n * y
  <2>1. n * y = n * x + n * (y - x) /\ n * (y - x) \in Nat
    BY <1>2
  <2> QED BY <2>1
<1>3. m * n = n * m
  OBVIOUS
<1>4. a < m * n => q < m
  BY <1>1, <1>2, <1>3
<1>5. q < m => n * (q + 1) <= n * m /\ n * (q + 1) = n * q + n
  BY <1>1, <1>2
<1>6. q < m => a + (n - r) <= m * n
  BY <1>1, <1>3, <1>5
<1> QED BY <1>4, <1>6 DEF q, r

\* The part of a copy that lies in one block.
LEMMA PartIs ==
    ASSUME NEW off \in Nat, NEW end \in Nat, off < end
    PROVE  /\ PartLen(off, end) \in Nat \ {0} /\ off + PartLen(off, end) <= end
           /\ \A o \in Nat : off <= o /\ o < off + PartLen(off, end) =>
                o \div BSIZE = off \div BSIZE
<1>1. off % BSIZE \in 0..(BSIZE - 1) /\ BSIZE \in Nat \ {0}
  BY DivIs, Sizes
<1> DEFINE room == BSIZE - (off % BSIZE)
<1>2. room \in Nat \ {0}
  BY <1>1
<1>3. PartLen(off, end) = IF end - off < room THEN end - off ELSE room
  BY DEF PartLen
<1>4. \A o \in Nat : off <= o /\ o < off + room => o \div BSIZE = off \div BSIZE
  BY <1>1, SameBlock
<1> HIDE DEF room
<1> QED BY <1>2, <1>3, <1>4

\* A block is taken from those that are free.
LEMMA OwnerTaken ==
    ASSUME NEW R, NEW F, NEW U, OneOwner(R, F, U), NEW b \in Data \ U,
           NEW p \in Writers, F[p] = 0, NEW G,
           \A q \in Writers : G[q] = IF q = p THEN b ELSE F[q]
    PROVE  OneOwner(R, G, U \cup {b})
BY Sizes DEF OneOwner

\* The block in hand is entered where nothing was.
LEMMA OwnerEntered ==
    ASSUME NEW R, NEW F, NEW U, OneOwner(R, F, U), NEW p \in Writers, F[p] # 0, NEW G,
           \A q \in Writers : G[q] = IF q = p THEN 0 ELSE F[q],
           NEW f \in All, NEW i \in Slots, R[f][i] = 0, NEW S,
           \A g \in All, j \in Slots : S[g][j] = IF g = f /\ j = i THEN F[p] ELSE R[g][j]
    PROVE  OneOwner(S, G, U)
<1>1. /\ U \subseteq Data /\ \A g \in All, j \in Slots : S[g][j] \in U \cup {0}
      /\ \A q \in Writers : G[q] \in U \cup {0}
  BY DEF OneOwner
<1>2. \A g, h \in All, j, k \in Slots : S[g][j] = S[h][k] /\ S[g][j] # 0 => g = h /\ j = k
  BY DEF OneOwner
<1>3. \A q, r \in Writers : G[q] = G[r] /\ G[q] # 0 => q = r
  BY DEF OneOwner
<1>4. \A g \in All, j \in Slots, q \in Writers : S[g][j] = G[q] => G[q] = 0
  BY DEF OneOwner
<1>5. ASSUME NEW b \in U
      PROVE  (\E g \in All, j \in Slots : S[g][j] = b) \/ \E q \in Writers : G[q] = b
  <2>1. CASE b = F[p]
    BY <2>1
  <2>2. CASE b # F[p]
    <3>1. b # 0
      BY <1>1, Sizes
    <3> QED BY <2>2, <3>1 DEF OneOwner
  <2> QED BY <2>1, <2>2
<1> QED BY <1>1, <1>2, <1>3, <1>4, <1>5 DEF OneOwner

\* A place is emptied, and its block is free.
LEMMA OwnerFreed ==
    ASSUME NEW R, NEW F, NEW U, OneOwner(R, F, U), NEW f \in All, NEW i \in Slots, NEW S,
           \A g \in All, j \in Slots : S[g][j] = IF g = f /\ j = i THEN 0 ELSE R[g][j]
    PROVE  OneOwner(S, F, U \ {R[f][i]})
<1>1. U \ {R[f][i]} \subseteq Data
  BY DEF OneOwner
<1>2. \A g \in All, j \in Slots : S[g][j] \in (U \ {R[f][i]}) \cup {0}
  BY DEF OneOwner
<1>3. \A q \in Writers : F[q] \in (U \ {R[f][i]}) \cup {0}
  BY DEF OneOwner
<1>4. \A g, h \in All, j, k \in Slots : S[g][j] = S[h][k] /\ S[g][j] # 0 => g = h /\ j = k
  BY DEF OneOwner
<1>5. \A g \in All, j \in Slots, q \in Writers : S[g][j] = F[q] => F[q] = 0
  BY DEF OneOwner
<1>6. ASSUME NEW b \in U \ {R[f][i]}
      PROVE  (\E g \in All, j \in Slots : S[g][j] = b) \/ \E q \in Writers : F[q] = b
  BY DEF OneOwner
<1> QED BY <1>1, <1>2, <1>3, <1>4, <1>5, <1>6 DEF OneOwner

\* A free block is entered at once.
LEMMA OwnerAdded ==
    ASSUME NEW R, NEW F, NEW U, OneOwner(R, F, U), NEW b \in Data \ U,
           NEW f \in All, NEW i \in Slots, R[f][i] = 0, NEW S,
           \A g \in All, j \in Slots : S[g][j] = IF g = f /\ j = i THEN b ELSE R[g][j]
    PROVE  OneOwner(S, F, U \cup {b})
<1>1. U \cup {b} \subseteq Data /\ b # 0
  BY Sizes DEF OneOwner
<1>2. \A g \in All, j \in Slots : S[g][j] \in (U \cup {b}) \cup {0}
  BY DEF OneOwner
<1>3. \A g, h \in All, j, k \in Slots : S[g][j] = S[h][k] /\ S[g][j] # 0 => g = h /\ j = k
  BY <1>1 DEF OneOwner
<1>4. \A g \in All, j \in Slots, q \in Writers : S[g][j] = F[q] => F[q] = 0
  BY <1>1 DEF OneOwner
<1>5. ASSUME NEW x \in U \cup {b}
      PROVE  (\E g \in All, j \in Slots : S[g][j] = x) \/ \E q \in Writers : F[q] = x
  <2>1. CASE x = b
    BY <2>1
  <2>2. CASE x # b
    <3>1. x \in U /\ x # 0
      BY <2>2, <1>1, Sizes
    <3>2. CASE \E q \in Writers : F[q] = x
      BY <3>2
    <3>3. CASE \E g \in All, j \in Slots : R[g][j] = x
      BY <3>1, <3>3
    <3> QED BY <3>1, <3>2, <3>3 DEF OneOwner
  <2> QED BY <2>1, <2>2
<1> QED BY <1>1, <1>2, <1>3, <1>4, <1>5 DEF OneOwner

\* Nothing moves.
LEMMA OwnerSame ==
    ASSUME NEW R, NEW F, NEW U, OneOwner(R, F, U), NEW S, NEW G,
           \A g \in All, j \in Slots : S[g][j] = R[g][j],
           \A q \in Writers : G[q] = F[q]
    PROVE  OneOwner(S, G, U)
<1>1. /\ U \subseteq Data /\ \A f \in All, i \in Slots : S[f][i] \in U \cup {0}
      /\ \A p \in Writers : G[p] \in U \cup {0}
  BY DEF OneOwner
<1>2. \A f, g \in All, i, j \in Slots : S[f][i] = S[g][j] /\ S[f][i] # 0 => f = g /\ i = j
  BY DEF OneOwner
<1>3. /\ \A p, q \in Writers : G[p] = G[q] /\ G[p] # 0 => p = q
      /\ \A f \in All, i \in Slots, p \in Writers : S[f][i] = G[p] => G[p] = 0
  BY DEF OneOwner
<1>4. ASSUME NEW b \in U
      PROVE  (\E f \in All, i \in Slots : S[f][i] = b) \/ \E p \in Writers : G[p] = b
  <2>1. CASE \E p \in Writers : F[p] = b
    BY <2>1
  <2>2. CASE \E f \in All, i \in Slots : R[f][i] = b
    BY <2>2
  <2> QED BY <2>1, <2>2 DEF OneOwner
<1> QED BY <1>1, <1>2, <1>3, <1>4 DEF OneOwner

\* The place of the k-th block of a file.
Place(k) == IF k < NDIRECT THEN k ELSE k + 1

\* Fields of the inodes and of the blocks.
LEMMA InodeIs ==
    ASSUME FDTypes, NEW f \in All
    PROVE  /\ inode[f] \in DInodes /\ dinode[f] \in DInodes
           /\ inode[f].addrs \in [0..NDIRECT -> Data \cup {0}]
           /\ \A i \in 0..NDIRECT : inode[f].addrs[i] \in Data \cup {0}
           /\ inode[f].addrs[NDIRECT] \in Data \cup {0}
           /\ inode[f].size \in Nat /\ inode[f].size <= MAXFILE * BSIZE
           /\ dinode[f].size \in Nat /\ dinode[f].size <= MAXFILE * BSIZE
           /\ iholder[f] \in Writers \cup {NoOne}
           /\ iholder[f] # NoOne => iholder[f] \in Writers
<1>1. inode[f] \in DInodes /\ dinode[f] \in DInodes
  BY DEF FDTypes
<1>2. MAXFILE * BSIZE \in Nat /\ NDIRECT \in Nat
  BY Sizes
<1>3. /\ inode[f].addrs \in [0..NDIRECT -> Data \cup {0}]
      /\ inode[f].size \in 0..(MAXFILE * BSIZE)
      /\ dinode[f].size \in 0..(MAXFILE * BSIZE)
  BY <1>1 DEF DInodes
<1>4. iholder[f] \in Writers \cup {NoOne}
  BY DEF FDTypes
<1> QED BY <1>1, <1>2, <1>3, <1>4

\* The fields of the call a process is in.
LEMMA JobIs ==
    ASSUME FDTypes, NEW p \in Writers
    PROVE  /\ job[p] \in Jobs /\ job[p].kind \in {"none", "read", "write", "trunc"}
           /\ job[p].f \in All /\ job[p].off \in Nat /\ job[p].end \in Nat
           /\ job[p].rest \in Nat /\ job[p].fresh \in Data \cup {0}
           /\ p # NoOne
BY Sizes DEF FDTypes, Jobs

\* Block k of a file is a direct address, or an entry of the indirect block.
LEMMA PlaceIs ==
    ASSUME NEW k \in 0..(MAXFILE - 1)
    PROVE  /\ Place(k) \in Slots /\ Place(k) # NDIRECT /\ NDIRECT \in Slots
           /\ k < NDIRECT => Place(k) = k /\ k \in 0..NDIRECT
           /\ ~(k < NDIRECT) => /\ Place(k) = k + 1 /\ Place(k) > NDIRECT
                                /\ Place(k) - NDIRECT - 1 = k - NDIRECT
                                /\ k - NDIRECT \in 0..(BSIZE - 1)
BY Sizes DEF Place, Slots

\* What bmap() finds is what the place refers to.
LEMMA LookupIs ==
    ASSUME FDTypes, NEW f \in All, Kind(f) # "trunc", NEW k \in 0..(MAXFILE - 1)
    PROVE  Lookup(inode[f], k) = Ref(f, Place(k))
<1>1. CASE k < NDIRECT
  BY <1>1, PlaceIs, Sizes DEF Lookup, Ref
<1>2. CASE ~(k < NDIRECT)
  <2>1. /\ Place(k) > NDIRECT /\ Place(k) \in Nat /\ NDIRECT \in Nat
        /\ Place(k) - NDIRECT - 1 = k - NDIRECT
    BY <1>2, PlaceIs, Sizes DEF Slots
  <2>2. ~(Place(k) <= NDIRECT)
    BY <2>1
  <2> QED BY <1>2, <2>1, <2>2 DEF Lookup, Ref
<1> QED BY <1>1, <1>2

\* An address of the inode is a place.
LEMMA AddrIs ==
    ASSUME NEW f \in All, NEW i \in 0..NDIRECT
    PROVE  Ref(f, i) = inode[f].addrs[i] /\ i \in Slots
BY Sizes DEF Ref, Slots

\* What OneOwner is about are the places and the blocks in hand.
LEMMA RefsAre ==
    /\ \A f \in All, i \in Slots : Refs[f][i] = Ref(f, i)
    /\ \A f \in All, i \in Slots : Refs'[f][i] = Ref(f, i)'
    /\ \A p \in Writers : InHand[p] = job[p].fresh
    /\ \A p \in Writers : InHand'[p] = job'[p].fresh
BY DEF Refs, InHand

\* A block that another place refers to, or a call has in hand, or nobody, is
\* no indirect block.
LEMMA NoTable ==
    ASSUME FDTypes, OwnersRight, NEW g \in All, inode[g].addrs[NDIRECT] # 0
    PROVE  /\ \A f \in All, i \in Slots :
                Ref(f, i) = inode[g].addrs[NDIRECT] => f = g /\ i = NDIRECT
           /\ \A p \in Writers : job[p].fresh # inode[g].addrs[NDIRECT]
           /\ inode[g].addrs[NDIRECT] \in Used /\ inode[g].addrs[NDIRECT] \in Data
<1>1. Ref(g, NDIRECT) = inode[g].addrs[NDIRECT] /\ NDIRECT \in Slots
  BY Sizes, AddrIs
<1> DEFINE b == inode[g].addrs[NDIRECT]
<1>2. Refs[g][NDIRECT] = b /\ b # 0
  BY <1>1, RefsAre
<1> HIDE DEF b
<1>3. \A f \in All, i \in Slots : Refs[f][i] = b => f = g /\ i = NDIRECT
  BY <1>1, <1>2 DEF OwnersRight, OneOwner
<1>4. \A p \in Writers : InHand[p] # b
  BY <1>1, <1>2 DEF OwnersRight, OneOwner
<1>5. b \in Used /\ b \in Data
  BY <1>1, <1>2 DEF OwnersRight, OneOwner
<1> QED BY <1>3, <1>4, <1>5, RefsAre DEF b

\* File g stays as it is.
Same(g) ==
    /\ inode'[g] = inode[g] /\ dinode'[g] = dinode[g] /\ iholder'[g] = iholder[g]
    /\ iholder[g] # NoOne =>
            /\ job'[iholder[g]].f = job[iholder[g]].f
            /\ job'[iholder[g]].kind = job[iholder[g]].kind
            /\ job'[iholder[g]].off = job[iholder[g]].off
            /\ job'[iholder[g]].end = job[iholder[g]].end
    /\ inode[g].addrs[NDIRECT] # 0 =>
            block'[inode[g].addrs[NDIRECT]] = block[inode[g].addrs[NDIRECT]]

\* A step that leaves a file, its call and its indirect block alone keeps what
\* is true of it.
LEMMA SameFile ==
    ASSUME NEW g \in All, Same(g)
    PROVE  /\ FileRight(g) => FileRight(g)'
           /\ Kind(g)' = Kind(g)
           /\ \A i : Ref(g, i)' = Ref(g, i)
           /\ \A k : Lookup(inode[g], k)' = Lookup(inode[g], k)
<1>1. Kind(g)' = Kind(g) /\ Off(g)' = Off(g) /\ End(g)' = End(g)
  BY DEF Same, Kind, Off, End
<1>2. \A i : Ref(g, i)' = Ref(g, i)
  BY <1>1 DEF Same, Ref
<1>3. \A k : Lookup(inode[g], k)' = Lookup(inode[g], k)
  BY DEF Same, Lookup
<1>4. HolderRight(g) => HolderRight(g)'
  BY DEF Same, HolderRight
<1>5. RangeRight(g) => RangeRight(g)'
  BY <1>1 DEF Same, RangeRight
<1>6. TruncRight(g) => TruncRight(g)'
  BY <1>1 DEF Same, TruncRight
<1>7. CacheRight(g) => CacheRight(g)'
  BY <1>1 DEF Same, CacheRight
<1>8. NoHoles(g) => NoHoles(g)'
  BY <1>1, <1>3 DEF Same, NoHoles
<1>9. TableRight(g) => TableRight(g)'
  BY DEF Same, TableRight
<1> QED BY <1>1, <1>2, <1>3, <1>4, <1>5, <1>6, <1>7, <1>8, <1>9 DEF FileRight

\* A step of process p in run that changes the files S, of which nobody else has
\* the lock.
LEMMA StepKeeps ==
    ASSUME FDInv, phase = "run", phase' = phase, FDTypes',
           NEW p \in Writers, NEW S \in SUBSET All,
           \A q \in Writers : q # p => job'[q] = job[q],
           \A g \in All \ S : Same(g),
           \A g \in S : iholder[g] \in {p, NoOne} /\ FileRight(g)',
           FreshRight(p)', OwnersRight'
    PROVE  FDInv'
<1>1. ImageRight'
  BY DEF ImageRight
<1>2. ASSUME NEW g \in All PROVE FileRight(g)'
  <2>1. FileRight(g)
    BY DEF FDInv
  <2> QED BY <2>1, SameFile
<1>3. ASSUME NEW q \in Writers, q # p PROVE FreshRight(q)'
  <2>1. job'[q] = job[q]
    BY <1>3
  <2> SUFFICES ASSUME job[q].fresh # 0 PROVE Working(q)' /\ Missing(q)'
    BY <2>1 DEF FreshRight
  <2>2. Working(q) /\ Missing(q)
    BY DEF FDInv, FreshRight
  <2>3. job[q].f \in All /\ iholder[job[q].f] = q /\ q # NoOne
    BY <2>2, JobIs DEF FDInv, Working
  <2>4. PICK g \in All : g = job[q].f
    BY <2>3
  <2>5. Same(g)
    BY <1>3, <2>3, <2>4
  <2>6. Working(q)'
    BY <2>1, <2>2, <2>4, <2>5 DEF Working, Same
  <2>7. Missing(q)'
    <3>1. PICK k : k = Bn(q)
      OBVIOUS
    <3>2. Bn(q)' = k /\ job'[q].f = g
      BY <2>1, <2>4, <3>1 DEF Bn
    <3>3. Lookup(inode[g], k)' = Lookup(inode[g], k)
      BY <2>5, SameFile
    <3>4. Lookup(inode[g], k) = 0
      BY <2>2, <2>4, <3>1 DEF Missing
    <3> QED BY <3>2, <3>3, <3>4 DEF Missing
  <2> QED BY <2>6, <2>7
<1> QED BY <1>1, <1>2, <1>3 DEF FDInv

\* A process has the lock of no file but that of its call.
LEMMA OneLock ==
    ASSUME FDInv, NEW p \in Writers
    PROVE  /\ \A g \in All : g # job[p].f => iholder[g] # p
           /\ job[p].kind = "none" => \A g \in All : iholder[g] # p
           /\ \A g \in All : FileRight(g) /\ HolderRight(g) /\ RangeRight(g)
                /\ TruncRight(g) /\ CacheRight(g) /\ NoHoles(g) /\ TableRight(g)
           /\ job[p].f \in All
BY JobIs, Sizes DEF FDInv, FileRight, HolderRight

\* A process in no call, or that waits for a lock, has no block in hand.
LEMMA NothingInHand ==
    ASSUME FDInv, NEW p \in Writers, ~Working(p)
    PROVE  job[p].fresh = 0
BY DEF FDInv, FreshRight

\* The blocks in use are those of the bitmap, and every place refers to what
\* it did.
LEMMA OwnersKeep ==
    ASSUME FDInv, phase = "run", phase' = phase, bitmap' = bitmap,
           \A g \in All, i \in Slots : Ref(g, i)' = Ref(g, i),
           \A q \in Writers : job'[q].fresh = job[q].fresh
    PROVE  OwnersRight'
<1>1. OneOwner(Refs, InHand, Used) /\ Used' = Used
  BY DEF FDInv, OwnersRight, Used
<1>2. /\ \A g \in All, i \in Slots : Refs'[g][i] = Refs[g][i]
      /\ \A q \in Writers : InHand'[q] = InHand[q]
  BY RefsAre
<1>3. OneOwner(Refs', InHand', Used)
  BY <1>1, <1>2, OwnerSame
<1> QED BY <1>1, <1>3 DEF OwnersRight

\* fileread(), filewrite() and iput() before the lock: no file changes.
LEMMA StartCallKeeps ==
    ASSUME FDInv, NEW p \in Writers, NEW kind \in {"read", "write", "trunc"},
           NEW f \in All, NEW off \in Nat, NEW n \in Nat, NEW word \in FileWords,
           StartCall(p, kind, f, off, n, word)
    PROVE  FDInv'
<1>1. phase = "run" /\ phase' = phase /\ job[p].kind = "none"
  BY DEF StartCall, mkfsVars
<1> DEFINE j == [kind |-> kind, f |-> f, off |-> off, end |-> off, rest |-> n,
                 word |-> word, fresh |-> 0]
<1>2. j \in Jobs /\ j.fresh = 0
  BY Sizes DEF Jobs
<1> HIDE DEF j
<1>3. job' = [job EXCEPT ![p] = j] /\ job \in [Writers -> Jobs]
  BY DEF StartCall, j, FDInv, FDTypes
<1>4. job'[p] = j /\ \A q \in Writers : q # p => job'[q] = job[q]
  BY <1>3
<1>5. FDTypes'
  <2>1. job' \in [Writers -> Jobs]
    BY <1>2, <1>3
  <2> QED BY <2>1 DEF StartCall, mkfsVars, FDInv, FDTypes
<1>6. \A g \in All : Same(g)
  <2> TAKE g \in All
  <2>1. iholder[g] # p /\ (iholder[g] # NoOne => iholder[g] \in Writers)
    BY <1>1, OneLock, InodeIs DEF FDInv
  <2>2. iholder[g] # NoOne => job'[iholder[g]] = job[iholder[g]]
    BY <2>1, <1>4
  <2> QED BY <2>2 DEF StartCall, Same
<1>7. job[p].fresh = 0
  BY <1>1, NothingInHand DEF Working
<1>8. OwnersRight'
  <2>1. \A g \in All, i \in Slots : Ref(g, i)' = Ref(g, i)
    BY <1>6, SameFile
  <2>2. \A q \in Writers : job'[q].fresh = job[q].fresh
    BY <1>2, <1>4, <1>7
  <2> QED BY <1>1, <2>1, <2>2, OwnersKeep DEF StartCall
<1>9. FreshRight(p)'
  BY <1>2, <1>4 DEF FreshRight
<1> DEFINE S == {}
<1>10. S \in SUBSET All /\ (\A g \in All \ S : Same(g))
       /\ \A g \in S : iholder[g] \in {p, NoOne} /\ FileRight(g)'
  BY <1>6
<1> HIDE DEF S
<1> QED BY <1>1, <1>4, <1>5, <1>8, <1>9, <1>10, StepKeeps

\* The bitmap has a first block that is not marked.
LEMMA LeastIs ==
    ASSUME NEW S \in SUBSET Data, S # {}
    PROVE  Least(S) \in S
<1>1. IsWellFoundedOn(OpToRel(<, Nat), Nat) /\ S \subseteq Nat
  BY NatLessThanWellFounded, Sizes
<1>2. PICK x \in S : \A y \in S : <<y, x>> \notin OpToRel(<, Nat)
  BY <1>1, WFMin
<1>3. \A y \in S : ~(y < x)
  BY <1>1, <1>2 DEF OpToRel
<1>4. ASSUME NEW y \in S PROVE x <= y
  <2>1. x \in Nat /\ y \in Nat /\ ~(y < x)
    BY <1>1, <1>3
  <2> QED BY ONLY <2>1
<1> QED BY <1>4 DEF Least

\* balloc(): the block was nowhere, and is now in hand for a place that is empty.
LEMMA BallocKeeps ==
    ASSUME FDInv, NEW p \in Writers, phase = "run", Balloc(p)
    PROVE  FDInv'
<1> DEFINE b == Least(Data \ bitmap)
<1>1. b \in Data \ bitmap
  BY LeastIs DEF Balloc
<1>2. job' = [job EXCEPT ![p].fresh = b] /\ job \in [Writers -> Jobs]
      /\ bitmap' = bitmap \cup {b}
  BY DEF Balloc, FDInv, FDTypes
<1> HIDE DEF b
<1>3. /\ \A q \in Writers : q # p => job'[q] = job[q]
      /\ job'[p].fresh = b /\ job'[p].f = job[p].f /\ job'[p].kind = job[p].kind
      /\ job'[p].off = job[p].off /\ job'[p].end = job[p].end
      /\ job' \in [Writers -> Jobs]
  BY ONLY <1>1, <1>2, p \in Writers DEF Jobs
<1>4. FDTypes'
  BY <1>1, <1>2, <1>3 DEF Balloc, mkfsVars, FDInv, FDTypes
<1>5. \A g \in All : Same(g)
  <2> TAKE g \in All
  <2>1. iholder[g] # NoOne => iholder[g] \in Writers
    BY InodeIs DEF FDInv
  <2> QED BY <2>1, <1>3 DEF Balloc, Same
<1>6. OwnersRight'
  <2>1. OneOwner(Refs, InHand, bitmap) /\ Used' = bitmap \cup {b} /\ phase' = phase
    BY <1>2 DEF FDInv, OwnersRight, Used, Balloc, mkfsVars
  <2>2. /\ \A g \in All, i \in Slots : Refs'[g][i] = Refs[g][i]
        /\ \A q \in Writers : InHand'[q] = IF q = p THEN b ELSE InHand[q]
    BY <1>3, <1>5, RefsAre, SameFile
  <2> InHand[p] = 0
    BY RefsAre DEF Balloc
  <2>3. OneOwner(Refs, InHand', bitmap \cup {b})
    BY <1>1, <2>1, <2>2, OwnerTaken
  <2>4. OneOwner(Refs', InHand', bitmap \cup {b})
    BY <2>2, <2>3, OwnerSame
  <2> QED BY <2>1, <2>4 DEF OwnersRight
<1>7. FreshRight(p)'
  <2>1. Working(p)'
    BY <1>3 DEF Balloc, Working
  <2>2. Missing(p)'
    BY <1>3 DEF Balloc, Missing, Bn, Lookup
  <2> QED BY <2>1, <2>2 DEF FreshRight
<1> DEFINE S == {}
<1>10. S \in SUBSET All /\ (\A g \in All \ S : Same(g))
       /\ \A g \in S : iholder[g] \in {p, NoOne} /\ FileRight(g)'
  BY <1>5
<1> HIDE DEF S
<1>11. phase' = phase
  BY DEF Balloc, mkfsVars
<1> QED BY <1>3, <1>4, <1>6, <1>7, <1>10, <1>11, StepKeeps

\* ilock(): the call begins with the file as it is.
LEMMA LockFileKeeps ==
    ASSUME FDInv, phase = "run", NEW p \in Writers, LockFile(p)
    PROVE  FDInv'
<1>0. PICK f \in All : f = job[p].f
  BY JobIs DEF FDInv
<1> DEFINE j2 == job'[p]
<1>1. /\ f \in All /\ iholder[f] = NoOne /\ job[p].fresh = 0 /\ p # NoOne
      /\ inode' = inode /\ dinode' = dinode /\ block' = block /\ bitmap' = bitmap
      /\ phase' = phase /\ freeblock' = freeblock
  <2>1. iholder[job[p].f] = NoOne /\ p # NoOne /\ job[p].f \in All
    BY JobIs DEF LockFile, FDInv
  <2>2. ~Working(p)
    BY <2>1 DEF Working
  <2> QED BY <1>0, <2>1, <2>2, NothingInHand DEF LockFile, mkfsVars
<1>2. /\ FDTypes /\ iholder \in [All -> Writers \cup {NoOne}] /\ job \in [Writers -> Jobs]
      /\ FileRight(f) /\ Kind(f) = "none"
  BY <1>1, OneLock DEF FDInv, FDTypes, Kind
<1>3. /\ inode[f] = dinode[f] /\ inode[f].size \in Nat /\ inode[f].size <= MAXFILE * BSIZE
      /\ MAXFILE * BSIZE \in Nat /\ MaxWrite \in Nat
      /\ job[p].off \in Nat /\ job[p].rest \in Nat /\ job[p].end \in Nat
  BY <1>1, <1>2, InodeIs, JobIs, Sizes DEF FileRight, CacheRight
\* What the step does to the call and the lock.
<1>4. \/ j2 = NoJob /\ job' = [job EXCEPT ![p] = NoJob] /\ iholder' = iholder
      \/ /\ iholder' = [iholder EXCEPT ![f] = p]
         /\ \E off, end, rest \in Nat :
                /\ job' = [job EXCEPT ![p].off = off, ![p].end = end, ![p].rest = rest]
                /\ \/ /\ job[p].kind = "write" /\ off <= inode[f].size /\ off <= end
                      /\ end <= MAXFILE * BSIZE
                   \/ job[p].kind = "read" /\ off <= end /\ end <= inode[f].size
                   \/ job[p].kind = "trunc" /\ off = 0
  <2> DEFINE size == inode[f].size
             n == IF job[p].rest > MaxWrite THEN MaxWrite ELSE job[p].rest
             bad == job[p].off > size \/ job[p].off + n > MAXFILE * BSIZE
             most == IF job[p].off + job[p].rest > size THEN size
                     ELSE job[p].off + job[p].rest
  <2>0. n \in Nat /\ job[p].rest - n \in Nat /\ most \in Nat
    BY <1>3
  <2>1. CASE /\ job[p].kind = "write" /\ bad
             /\ job' = [job EXCEPT ![p] = NoJob] /\ UNCHANGED iholder
    BY <2>1, <1>2
  <2>2. CASE /\ job[p].kind = "write" /\ ~bad
             /\ job' = [job EXCEPT ![p].end = job[p].off + n, ![p].rest = job[p].rest - n]
             /\ iholder' = [iholder EXCEPT ![f] = p]
    <3>1. job[p].off <= size /\ job[p].off + n <= MAXFILE * BSIZE /\ job[p].off + n \in Nat
          /\ job[p].off <= job[p].off + n
      BY <2>0, <2>2, <1>3
    <3>2. job' = [job EXCEPT ![p].off = job[p].off, ![p].end = job[p].off + n,
                             ![p].rest = job[p].rest - n]
      BY <2>2, <1>2 DEF Jobs
    <3> HIDE DEF n
    <3> QED BY <3>1, <3>2, <2>0, <2>2, <1>3
  <2>3. CASE /\ job[p].kind = "read" /\ job[p].off <= size
             /\ job' = [job EXCEPT ![p].end = most, ![p].rest = 0]
             /\ iholder' = [iholder EXCEPT ![f] = p]
    <3>1. job[p].off <= most /\ most <= size
      BY <2>3, <1>3
    <3>2. job' = [job EXCEPT ![p].off = job[p].off, ![p].end = most, ![p].rest = 0]
      BY <2>3, <1>2 DEF Jobs
    <3> HIDE DEF most
    <3> QED BY <3>1, <3>2, <2>0, <2>3, <1>3
  <2>4. CASE /\ job[p].kind = "trunc" /\ job' = [job EXCEPT ![p].off = 0]
             /\ iholder' = [iholder EXCEPT ![f] = p]
    <3>1. job' = [job EXCEPT ![p].off = 0, ![p].end = job[p].end, ![p].rest = job[p].rest]
      BY <2>4, <1>2 DEF Jobs
    <3> QED BY <3>1, <2>4, <1>3
  <2> HIDE DEF n, bad, most, size
  <2> QED BY <1>0, <2>1, <2>2, <2>3, <2>4 DEF LockFile, n, bad, most, size
<1> HIDE DEF j2
<1>5. p \in Writers /\ job[p].f = f /\ job[p] \in Jobs
  BY <1>0, <1>2
<1>6. /\ job' \in [Writers -> Jobs] /\ job'[p].fresh = 0
      /\ \A q \in Writers : q # p => job'[q] = job[q]
      /\ \A q \in Writers : job'[q].fresh = job[q].fresh
      /\ \A g \in All : g # f => iholder'[g] = iholder[g]
      /\ iholder' \in [All -> Writers \cup {NoOne}]
  <2>1. CASE j2 = NoJob /\ job' = [job EXCEPT ![p] = NoJob] /\ iholder' = iholder
    <3>1. NoJob \in Jobs /\ NoJob.fresh = 0
      BY Sizes DEF NoJob, Jobs, FileWords
    <3> QED BY <2>1, <3>1, <1>1, <1>2, <1>5
  <2>2. CASE /\ iholder' = [iholder EXCEPT ![f] = p]
             /\ \E off, end, rest \in Nat :
                job' = [job EXCEPT ![p].off = off, ![p].end = end, ![p].rest = rest]
    <3>1. PICK off, end, rest \in Nat :
            job' = [job EXCEPT ![p].off = off, ![p].end = end, ![p].rest = rest]
      BY <2>2
    <3>2. /\ job' \in [Writers -> Jobs] /\ job'[p].fresh = job[p].fresh
          /\ \A q \in Writers : q # p => job'[q] = job[q]
      BY ONLY <3>1, <1>2, <1>5 DEF Jobs
    <3> QED BY <2>2, <3>2, <1>1, <1>2
  <2> QED BY <2>1, <2>2, <1>4
<1>7. FDTypes'
  BY <1>1, <1>2, <1>6 DEF FDTypes
<1>8. FreshRight(p)'
  BY <1>6 DEF FreshRight
<1>9. \A g \in All \ {f} : Same(g)
  <2> TAKE g \in All \ {f}
  <2>1. iholder[g] # p /\ (iholder[g] # NoOne => iholder[g] \in Writers)
    BY OneLock, InodeIs, <1>2, <1>5
  <2>2. iholder[g] # NoOne => job'[iholder[g]] = job[iholder[g]]
    BY <2>1, <1>6
  <2> QED BY <2>2, <1>1, <1>6 DEF Same
<1>10. FileRight(f)' /\ \A i \in Slots : Ref(f, i)' = Ref(f, i)
  <2>1. CASE j2 = NoJob /\ job' = [job EXCEPT ![p] = NoJob] /\ iholder' = iholder
    <3>1. Same(f)
      BY <2>1, <1>1 DEF Same
    <3> QED BY <3>1, <1>1, <1>2, SameFile
  <2>2. CASE /\ iholder' = [iholder EXCEPT ![f] = p]
             /\ \E off, end, rest \in Nat :
                /\ job' = [job EXCEPT ![p].off = off, ![p].end = end, ![p].rest = rest]
                /\ \/ /\ job[p].kind = "write" /\ off <= inode[f].size /\ off <= end
                      /\ end <= MAXFILE * BSIZE
                   \/ job[p].kind = "read" /\ off <= end /\ end <= inode[f].size
                   \/ job[p].kind = "trunc" /\ off = 0
    <3>1. PICK off, end, rest \in Nat :
                /\ job' = [job EXCEPT ![p].off = off, ![p].end = end, ![p].rest = rest]
                /\ \/ /\ job[p].kind = "write" /\ off <= inode[f].size /\ off <= end
                      /\ end <= MAXFILE * BSIZE
                   \/ job[p].kind = "read" /\ off <= end /\ end <= inode[f].size
                   \/ job[p].kind = "trunc" /\ off = 0
      BY <2>2
    <3>2. /\ job'[p].off = off /\ job'[p].end = end /\ job'[p].kind = job[p].kind
          /\ job'[p].f = job[p].f
      BY ONLY <3>1, <1>2, <1>5 DEF Jobs
    <3>3. iholder'[f] = p /\ p # NoOne
      BY <2>2, <1>1, <1>2
    <3>4. Kind(f)' = job[p].kind /\ Off(f)' = off /\ End(f)' = end
      BY <3>2, <3>3 DEF Kind, Off, End
    <3>5. HolderRight(f)'
      BY <3>1, <3>2, <3>3, <1>5 DEF HolderRight
    <3>6. RangeRight(f)'
      BY <3>1, <3>4, <1>1, <1>3 DEF RangeRight
    <3>7. TruncRight(f)'
      BY <3>1, <3>4, <1>1, <1>3, Sizes DEF TruncRight
    <3>8. CacheRight(f)'
      BY <1>1, <1>3 DEF CacheRight
    <3>9. NoHoles(f)'
      <4> SUFFICES ASSUME job[p].kind # "trunc", NEW o \in Nat,
                          o < inode[f].size \/ (job[p].kind = "write" /\ o < off)
                   PROVE  Lookup(inode[f], o \div BSIZE)' # 0
        BY <3>4, <1>1 DEF NoHoles
      <4>1. o < inode[f].size
        BY <3>1, <1>3
      <4>2. Lookup(inode[f], o \div BSIZE) # 0
        BY <4>1, <1>2 DEF FileRight, NoHoles
      <4> QED BY <4>2, <1>1 DEF Lookup
    <3>10. TableRight(f)'
      BY <1>1, <1>2 DEF FileRight, TableRight
    <3>11. ASSUME NEW i \in Slots PROVE Ref(f, i)' = Ref(f, i)
      <4>1. i <= NDIRECT \/ ~(job[p].kind = "trunc" /\ i <= off)
        BY <3>1, Sizes DEF Slots
      <4> QED BY <4>1, <3>4, <1>1, <1>2 DEF Ref
    <3> QED BY <3>5, <3>6, <3>7, <3>8, <3>9, <3>10, <3>11 DEF FileRight
  <2> QED BY <2>1, <2>2, <1>4
<1>11. OwnersRight'
  <2>1. \A g \in All, i \in Slots : Ref(g, i)' = Ref(g, i)
    BY <1>9, <1>10, SameFile
  <2> QED BY <1>1, <1>6, <2>1, OwnersKeep
<1>12. iholder[f] \in {p, NoOne} /\ f \in All
  BY <1>1
<1> DEFINE S == {f}
<1>13. S \in SUBSET All /\ (\A g \in All \ S : Same(g))
       /\ \A g \in S : iholder[g] \in {p, NoOne} /\ FileRight(g)'
  BY <1>9, <1>10, <1>12
<1> HIDE DEF S
<1> QED BY <1>1, <1>6, <1>7, <1>8, <1>11, <1>13, StepKeeps

\* balloc() that finds no block panics and changes nothing.
LEMMA BallocFullKeeps ==
    ASSUME FDInv, NEW p \in Writers, BallocFull(p)
    PROVE  FDInv'
<1>1. /\ phase' = phase /\ freeblock' = freeblock /\ bitmap' = bitmap /\ block' = block
      /\ inode' = inode /\ dinode' = dinode /\ iholder' = iholder /\ job' = job
  BY DEF BallocFull, mkfsVars
<1>2. FDTypes'
  BY <1>1 DEF FDInv, FDTypes
<1>3. ImageRight'
  BY <1>1 DEF FDInv, ImageRight
<1>4. ASSUME NEW g \in All PROVE FileRight(g)' /\ \A i : Ref(g, i)' = Ref(g, i)
  <2>1. Same(g)
    BY <1>1 DEF Same
  <2> QED BY <2>1, SameFile DEF FDInv
<1>5. ASSUME NEW q \in Writers PROVE FreshRight(q)'
  BY <1>1 DEF FDInv, FreshRight, Working, Missing, Bn, Lookup
<1>6. OwnersRight'
  <2>1. OneOwner(Refs, InHand, Used) /\ Used' = Used
    BY <1>1 DEF FDInv, OwnersRight, Used
  <2>2. /\ \A g \in All, i \in Slots : Refs'[g][i] = Refs[g][i]
        /\ \A q \in Writers : InHand'[q] = InHand[q]
    BY <1>1, <1>4, RefsAre
  <2>3. OneOwner(Refs', InHand', Used)
    BY <2>1, <2>2, OwnerSame
  <2> QED BY <2>1, <2>3 DEF OwnersRight
<1> QED BY <1>2, <1>3, <1>4, <1>5, <1>6 DEF FDInv

\* A process at work is in a block of its file.
LEMMA WorkingIs ==
    ASSUME FDInv, NEW p \in Writers, Working(p), NEW f \in All, f = job[p].f
    PROVE  /\ Kind(f) = job[p].kind /\ Off(f) = job[p].off /\ End(f) = job[p].end
           /\ Kind(f) \in {"read", "write"} /\ Off(f) < End(f)
           /\ Off(f) \in Nat /\ End(f) \in Nat /\ End(f) <= MAXFILE * BSIZE
           /\ Bn(p) \in 0..(MAXFILE - 1) /\ Bn(p) = Off(f) \div BSIZE
           /\ iholder[f] = p /\ p # NoOne /\ iholder[f] # NoOne
<1>1. iholder[f] = p /\ p # NoOne /\ job[p].off \in Nat /\ job[p].end \in Nat
  BY JobIs DEF Working, FDInv
<1>2. /\ Kind(f) = job[p].kind /\ Off(f) = job[p].off /\ End(f) = job[p].end
      /\ Kind(f) \in {"read", "write"} /\ Off(f) < End(f)
  BY <1>1 DEF Kind, Off, End, Working
<1>3. End(f) <= MAXFILE * BSIZE
  BY <1>2, OneLock DEF RangeRight
<1>4. Bn(p) \in 0..(MAXFILE - 1) /\ Bn(p) = Off(f) \div BSIZE
  <2>1. Off(f) \in Nat /\ Off(f) < MAXFILE * BSIZE /\ BSIZE \in Nat \ {0} /\ MAXFILE \in Nat
        /\ MAXFILE * BSIZE \in Nat
    BY <1>1, <1>2, <1>3, Sizes
  <2>2. Off(f) \div BSIZE < MAXFILE /\ Off(f) \div BSIZE \in Nat
    BY <2>1, BlockBelow, DivIs
  <2> QED BY <1>2, <2>1, <2>2 DEF Bn
<1> QED BY <1>1, <1>2, <1>3, <1>4

\* The offsets of a file are in its blocks.
LEMMA InFile ==
    ASSUME FDTypes, NEW f \in All, RangeRight(f), NEW o \in Nat,
           o < inode[f].size \/ (Kind(f) = "write" /\ o < Off(f))
    PROVE  o \div BSIZE \in 0..(MAXFILE - 1)
<1>1. inode[f].size \in Nat /\ inode[f].size <= MAXFILE * BSIZE /\ MAXFILE * BSIZE \in Nat
      /\ BSIZE \in Nat \ {0} /\ MAXFILE \in Nat
  BY InodeIs, Sizes
<1>2. Kind(f) = "write" => Off(f) \in Nat /\ End(f) \in Nat /\ Off(f) <= MAXFILE * BSIZE
  <2> SUFFICES ASSUME Kind(f) = "write" PROVE Off(f) \in Nat /\ End(f) \in Nat
                                             /\ Off(f) <= MAXFILE * BSIZE
    OBVIOUS
  <2>1. iholder[f] # NoOne /\ iholder[f] \in Writers
    BY InodeIs DEF Kind
  <2>2. Off(f) \in Nat /\ End(f) \in Nat
    BY <2>1, JobIs DEF Off, End
  <2>3. Off(f) <= End(f) /\ End(f) <= MAXFILE * BSIZE
    BY DEF RangeRight
  <2> QED BY <2>2, <2>3, <1>1
<1>3. o < MAXFILE * BSIZE
  BY <1>1, <1>2
<1>4. o \div BSIZE < MAXFILE /\ o \div BSIZE \in Nat
  BY <1>1, <1>3, BlockBelow, DivIs
<1> QED BY <1>1, <1>4

\* bmap() with a block in hand: it is entered as a direct address, as the
\* indirect block, or in the indirect block.
LEMMA BzeroIs ==
    ASSUME FDInv, phase = "run", NEW p \in Writers, Bzero(p), NEW f \in All, f = job[p].f
    PROVE  LET b == job[p].fresh
               k == Bn(p)
               t == inode[f].addrs[NDIRECT]
           IN  /\ b \in Data /\ b # t /\ Missing(p) /\ Working(p)
               /\ Kind(f) = "write" /\ inode[f].size <= Off(f)
               /\ \A g \in All, i \in Slots : Ref(g, i) # b
               /\ \/ /\ k < NDIRECT /\ inode[f].addrs[k] = 0
                     /\ block' = [block EXCEPT ![b] = Zeroes]
                     /\ inode' = [inode EXCEPT ![f].addrs[k] = b]
                  \/ /\ ~(k < NDIRECT) /\ t = 0
                     /\ block' = [block EXCEPT ![b] = Zeroes]
                     /\ inode' = [inode EXCEPT ![f].addrs[NDIRECT] = b]
                  \/ /\ ~(k < NDIRECT) /\ t \in Data /\ block[t][k - NDIRECT] = 0
                     /\ block' = [block EXCEPT ![b] = Zeroes,
                                               ![t] = [block[t] EXCEPT ![k - NDIRECT] = b]]
                     /\ inode' = inode
<1> DEFINE b == job[p].fresh
           k == Bn(p)
           t == inode[f].addrs[NDIRECT]
<1>1. b \in Data /\ t \in Data \cup {0} /\ block \in [Data -> [0..(BSIZE - 1) -> FileWords]]
      /\ b # 0 /\ Working(p) /\ Missing(p)
  <2>1. b # 0
    BY DEF Bzero
  <2>2. Working(p) /\ Missing(p)
    BY <2>1 DEF FDInv, FreshRight
  <2> QED BY <2>1, <2>2, JobIs, InodeIs DEF FDInv, FDTypes
<1>2. \A g \in All, i \in Slots : Ref(g, i) # b
  <2>1. \A g \in All, i \in Slots : Refs[g][i] # InHand[p]
    BY <1>1, RefsAre DEF FDInv, OwnersRight, OneOwner
  <2> QED BY <2>1, RefsAre
<1>3. b # t
  BY <1>2, AddrIs, Sizes
<1>4. /\ Kind(f) \in {"read", "write"} /\ Off(f) < End(f) /\ Off(f) \in Nat
      /\ End(f) \in Nat /\ inode[f].size \in Nat /\ k = Off(f) \div BSIZE
      /\ k \in 0..(MAXFILE - 1) /\ NDIRECT \in Nat
  BY <1>1, WorkingIs, InodeIs, Sizes DEF FDInv
<1>5. Lookup(inode[f], k) = 0
  BY <1>1 DEF Missing
<1>6. inode[f].size <= Off(f)
  BY <1>4, <1>5, OneLock DEF NoHoles
<1>7. Kind(f) = "write"
  BY <1>4, <1>6, OneLock DEF RangeRight
<1>8. \/ /\ k < NDIRECT /\ inode[f].addrs[k] = 0
         /\ block' = [block EXCEPT ![b] = Zeroes]
         /\ inode' = [inode EXCEPT ![f].addrs[k] = b]
      \/ /\ ~(k < NDIRECT) /\ t = 0
         /\ block' = [block EXCEPT ![b] = Zeroes]
         /\ inode' = [inode EXCEPT ![f].addrs[NDIRECT] = b]
      \/ /\ ~(k < NDIRECT) /\ t \in Data /\ block[t][k - NDIRECT] = 0
         /\ block' = [block EXCEPT ![b] = Zeroes,
                                   ![t] = [block[t] EXCEPT ![k - NDIRECT] = b]]
         /\ inode' = inode
  <2>1. CASE k < NDIRECT
    BY <2>1, <1>5 DEF Bzero, Lookup, Zeroed
  <2>2. CASE ~(k < NDIRECT) /\ t = 0
    <3>1. NeedsIndirect(inode[f], k)
      BY <2>2, <1>4 DEF NeedsIndirect
    <3> QED BY <2>2, <3>1 DEF Bzero, Zeroed
  <2>3. CASE ~(k < NDIRECT) /\ t # 0
    <3>1. ~NeedsIndirect(inode[f], k)
      BY <2>3 DEF NeedsIndirect
    <3>2. block' = [Zeroed(b) EXCEPT ![t][k - NDIRECT] = b] /\ inode' = inode
      BY <2>3, <3>1 DEF Bzero
    <3>3. block' = [block EXCEPT ![b] = Zeroes, ![t] = [block[t] EXCEPT ![k - NDIRECT] = b]]
      BY <3>2, <1>1, <1>3 DEF Zeroed
    <3>4. block[t][k - NDIRECT] = 0
      BY <2>3, <1>5 DEF Lookup
    <3> QED BY <2>3, <3>2, <3>3, <3>4, <1>1
  <2> QED BY <2>1, <2>2, <2>3
<1> QED BY <1>1, <1>2, <1>3, <1>6, <1>7, <1>8

\* bzero() and bmap() change one place of the file, and no other file.
LEMMA BzeroEnters ==
    ASSUME FDInv, phase = "run", NEW p \in Writers, Bzero(p), NEW f \in All, f = job[p].f,
           NEW b, b = job[p].fresh
    PROVE  /\ block' \in [Data -> [0..(BSIZE - 1) -> FileWords]]
           /\ inode' \in [All -> DInodes] /\ inode'[f].size = inode[f].size
           /\ \A g \in All \ {f} :
                /\ inode'[g] = inode[g]
                /\ inode[g].addrs[NDIRECT] # 0 =>
                    block'[inode[g].addrs[NDIRECT]] = block[inode[g].addrs[NDIRECT]]
           /\ \E i \in Slots : /\ Ref(f, i) = 0
                               /\ \A j \in Slots : Ref(f, j)' = IF j = i THEN b ELSE Ref(f, j)
           /\ \A n \in 0..(MAXFILE - 1) :
                Lookup(inode[f], n) # 0 => Lookup(inode[f], n)' # 0
           /\ TableRight(f)'
<1> DEFINE k == Bn(p)
           t == inode[f].addrs[NDIRECT]
<1>1. /\ b \in Data /\ b # t /\ Working(p) /\ Kind(f) = "write"
      /\ \A g \in All, i \in Slots : Ref(g, i) # b
  BY BzeroIs
<1>2. /\ FDTypes /\ block \in [Data -> [0..(BSIZE - 1) -> FileWords]] /\ inode \in [All -> DInodes]
      /\ inode[f] \in DInodes /\ inode[f].addrs \in [0..NDIRECT -> Data \cup {0}]
      /\ Zeroes \in [0..(BSIZE - 1) -> FileWords] /\ b \in FileWords /\ b # 0
      /\ t \in Data \cup {0} /\ \A w \in 0..(BSIZE - 1) : Zeroes[w] = 0
      /\ NDIRECT \in 0..NDIRECT /\ NDIRECT \in Nat /\ NDIRECT \in Slots
  BY <1>1, Sizes, InodeIs DEF FDInv, FDTypes, FileWords, Zeroes, Slots
<1>3. /\ k \in 0..(MAXFILE - 1) /\ Kind(f)' = "write"
      /\ k < NDIRECT => k \in 0..NDIRECT /\ k # NDIRECT /\ k \in Slots
      /\ ~(k < NDIRECT) => k - NDIRECT \in 0..(BSIZE - 1) /\ k + 1 \in Slots
                           /\ ~(k + 1 <= NDIRECT) /\ (k + 1) - NDIRECT - 1 = k - NDIRECT
  <2>1. k \in 0..(MAXFILE - 1)
    BY <1>1, WorkingIs
  <2>2. job'[p].kind = job[p].kind /\ iholder' = iholder
    BY JobIs DEF Bzero, FDInv, FDTypes
  <2>3. Kind(f)' = "write"
    BY <2>2, <1>1, WorkingIs DEF Kind
  <2> QED BY <2>1, <2>3, Sizes DEF Slots
<1>4. \A g \in All : inode[g].addrs[NDIRECT] # b /\ (g # f /\ t # 0 => inode[g].addrs[NDIRECT] # t)
  BY <1>1, AddrIs, NoTable, <1>2 DEF FDInv
<1>5. \/ /\ k < NDIRECT /\ inode[f].addrs[k] = 0
         /\ block' = [block EXCEPT ![b] = Zeroes]
         /\ inode' = [inode EXCEPT ![f].addrs[k] = b]
      \/ /\ ~(k < NDIRECT) /\ t = 0
         /\ block' = [block EXCEPT ![b] = Zeroes]
         /\ inode' = [inode EXCEPT ![f].addrs[NDIRECT] = b]
      \/ /\ ~(k < NDIRECT) /\ t \in Data /\ block[t][k - NDIRECT] = 0
         /\ block' = [block EXCEPT ![b] = Zeroes,
                                   ![t] = [block[t] EXCEPT ![k - NDIRECT] = b]]
         /\ inode' = inode
  BY BzeroIs
<1>6. TableRight(f)
  BY OneLock
<1> HIDE DEF k, t
<1>7. PICK a \in 0..NDIRECT : (k < NDIRECT => a = k) /\ (~(k < NDIRECT) => a = NDIRECT)
  <2>1. CASE k < NDIRECT
    BY <2>1, <1>3
  <2>2. CASE ~(k < NDIRECT)
    BY <2>2, <1>2
  <2> QED BY <2>1, <2>2
\* An address of the inode.
<1>8. CASE /\ inode[f].addrs[a] = 0 /\ block' = [block EXCEPT ![b] = Zeroes]
           /\ inode' = [inode EXCEPT ![f].addrs[a] = b]
  <2>1. block' \in [Data -> [0..(BSIZE - 1) -> FileWords]]
        /\ block'[b] = Zeroes /\ \A x \in Data : x # b => block'[x] = block[x]
    BY <1>8, <1>1, <1>2
  <2>2. /\ inode' \in [All -> DInodes] /\ inode'[f].size = inode[f].size
        /\ inode'[f].addrs = [inode[f].addrs EXCEPT ![a] = b]
        /\ \A g \in All \ {f} : inode'[g] = inode[g]
    BY ONLY <1>8, <1>1, <1>2, a \in 0..NDIRECT, f \in All DEF DInodes
  <2>3. /\ inode'[f].addrs[a] = b
        /\ \A i \in 0..NDIRECT : i # a => inode'[f].addrs[i] = inode[f].addrs[i]
    BY <2>2, <1>2
  <2>4. ASSUME NEW g \in All \ {f}, inode[g].addrs[NDIRECT] # 0
        PROVE  block'[inode[g].addrs[NDIRECT]] = block[inode[g].addrs[NDIRECT]]
    BY <2>1, <2>4, <1>2, <1>4, InodeIs
  <2>5. a = NDIRECT => t = 0
    BY <1>8 DEF t
  <2>6. a # NDIRECT /\ t # 0 => block'[t] = block[t]
    BY <2>1, <1>1, <1>2
  <2>7. inode'[f].addrs[NDIRECT] = IF a = NDIRECT THEN b ELSE t
    BY <2>3, <1>2 DEF t
  <2>8. a \in Slots /\ Ref(f, a) = 0
    BY <1>8, AddrIs
  <2>9. ASSUME NEW j \in Slots PROVE Ref(f, j)' = IF j = a THEN b ELSE Ref(f, j)
    <3>1. CASE j <= NDIRECT
      <4>1. j \in 0..NDIRECT
        BY <3>1 DEF Slots
      <4> QED BY <3>1, <4>1, <2>3 DEF Ref
    <3>2. CASE ~(j <= NDIRECT) /\ a = NDIRECT
      <4>1. Ref(f, j) = 0 /\ j # a
        BY <3>2, <2>5 DEF Ref, t
      <4>2. j - NDIRECT - 1 \in 0..(BSIZE - 1)
        BY <3>2, Sizes DEF Slots
      <4>3. Ref(f, j)' = Zeroes[j - NDIRECT - 1]
        BY <3>2, <2>1, <2>7, <1>2, <1>3 DEF Ref
      <4> QED BY <4>1, <4>2, <4>3, <1>2
    <3>3. CASE ~(j <= NDIRECT) /\ a # NDIRECT
      <4>1. j # a
        BY <3>3, <1>2
      <4> QED BY <3>3, <4>1, <2>6, <2>7, <1>1, <1>3 DEF Ref, t
    <3> QED BY <3>1, <3>2, <3>3
  <2>10. ASSUME NEW n \in 0..(MAXFILE - 1), Lookup(inode[f], n) # 0
         PROVE  Lookup(inode[f], n)' # 0
    <3>1. CASE n < NDIRECT
      <4>1. n \in 0..NDIRECT
        BY <3>1, Sizes
      <4> QED BY <3>1, <4>1, <2>3, <2>10, <1>2 DEF Lookup
    <3>2. CASE ~(n < NDIRECT) /\ a = NDIRECT
      BY <3>2, <2>5, <2>10 DEF Lookup, t
    <3>3. CASE ~(n < NDIRECT) /\ a # NDIRECT
      BY <3>3, <2>6, <2>7, <2>10 DEF Lookup, t
    <3> QED BY <3>1, <3>2, <3>3
  <2>11. TableRight(f)'
    <3>1. CASE a = NDIRECT
      BY <3>1, <2>1, <2>7, <1>2 DEF TableRight
    <3>2. CASE a # NDIRECT
      BY <3>2, <2>6, <2>7, <1>6 DEF TableRight, t
    <3> QED BY <3>1, <3>2
  <2> QED BY <2>1, <2>2, <2>4, <2>8, <2>9, <2>10, <2>11
\* An entry of the indirect block.
<1>9. CASE /\ ~(k < NDIRECT) /\ t \in Data /\ block[t][k - NDIRECT] = 0
           /\ block' = [block EXCEPT ![b] = Zeroes,
                                     ![t] = [block[t] EXCEPT ![k - NDIRECT] = b]]
           /\ inode' = inode
  <2>1. /\ block' \in [Data -> [0..(BSIZE - 1) -> FileWords]]
        /\ \A x \in Data : x # b /\ x # t => block'[x] = block[x]
        /\ block'[t][k - NDIRECT] = b
        /\ \A w \in 0..(BSIZE - 1) : w # k - NDIRECT => block'[t][w] = block[t][w]
    BY <1>9, <1>1, <1>2, <1>3
  <2>2. t # 0 /\ inode'[f].addrs[NDIRECT] = t
    BY <1>9, Sizes DEF t
  <2>3. ASSUME NEW g \in All \ {f}, inode[g].addrs[NDIRECT] # 0
        PROVE  block'[inode[g].addrs[NDIRECT]] = block[inode[g].addrs[NDIRECT]]
    BY <2>1, <2>2, <2>3, <1>2, <1>4, InodeIs
  <2>4. Ref(f, k + 1) = 0
    BY <1>9, <1>1, <1>3, <2>2 DEF Ref, t
  <2>5. ASSUME NEW j \in Slots PROVE Ref(f, j)' = IF j = k + 1 THEN b ELSE Ref(f, j)
    <3>1. CASE j <= NDIRECT
      BY <3>1, <1>9, <1>2, <1>3 DEF Ref
    <3>2. CASE ~(j <= NDIRECT)
      <4>0. j \in Nat /\ k \in Nat /\ NDIRECT \in Nat
        BY <1>3, Sizes DEF Slots
      <4>1. j - NDIRECT - 1 \in 0..(BSIZE - 1) /\ (j - NDIRECT - 1 = k - NDIRECT <=> j = k + 1)
        BY <3>2, <4>0, Sizes DEF Slots
      <4>2. Ref(f, j)' = block'[t][j - NDIRECT - 1] /\ Ref(f, j) = block[t][j - NDIRECT - 1]
        BY <3>2, <2>2, <1>1, <1>3 DEF Ref, t
      <4> QED BY <4>1, <4>2, <2>1
    <3> QED BY <3>1, <3>2
  <2>6. ASSUME NEW n \in 0..(MAXFILE - 1), Lookup(inode[f], n) # 0
        PROVE  Lookup(inode[f], n)' # 0
    <3>1. CASE n < NDIRECT
      BY <3>1, <1>9, <2>6 DEF Lookup
    <3>2. CASE ~(n < NDIRECT)
      <4>1. n - NDIRECT \in 0..(BSIZE - 1)
        BY <3>2, Sizes
      <4>2. Lookup(inode[f], n)' = block'[t][n - NDIRECT]
            /\ Lookup(inode[f], n) = block[t][n - NDIRECT]
        BY <3>2, <2>2 DEF Lookup, t
      <4> QED BY <4>1, <4>2, <2>1, <2>6, <1>2
    <3> QED BY <3>1, <3>2
  <2>7. TableRight(f)'
    BY <2>1, <2>2, <1>1, <1>6 DEF TableRight, t
  <2>8. k + 1 \in Slots
    BY <1>3, <1>9
  <2>9. inode' \in [All -> DInodes] /\ inode'[f].size = inode[f].size
        /\ \A g \in All \ {f} : inode'[g] = inode[g]
    BY <1>9, <1>2
  <2> QED BY <2>1, <2>3, <2>4, <2>5, <2>6, <2>7, <2>8, <2>9
<1> QED BY <1>5, <1>7, <1>8, <1>9 DEF t

\* bzero() and the end of bmap().
LEMMA BzeroKeeps ==
    ASSUME FDInv, phase = "run", NEW p \in Writers, Bzero(p)
    PROVE  FDInv'
<1>1. PICK f \in All : f = job[p].f
  BY JobIs DEF FDInv
<1>2. PICK b : b = job[p].fresh
  OBVIOUS
<1>3. /\ b \in Data /\ b # 0 /\ Missing(p) /\ Working(p) /\ iholder[f] = p /\ p # NoOne
      /\ Kind(f) = "write" /\ inode[f].size <= Off(f) /\ Off(f) < End(f)
  <2>1. /\ b \in Data /\ Missing(p) /\ Working(p) /\ Kind(f) = "write" /\ inode[f].size <= Off(f)
    BY <1>1, <1>2, BzeroIs
  <2>2. iholder[f] = p /\ p # NoOne /\ Off(f) < End(f)
    BY <2>1, <1>1, WorkingIs
  <2> QED BY <2>1, <2>2, Sizes
<1>4. /\ phase' = phase /\ freeblock' = freeblock /\ bitmap' = bitmap
      /\ dinode' = dinode /\ iholder' = iholder
      /\ job' \in [Writers -> Jobs] /\ job'[p].fresh = 0
      /\ \A q \in Writers : q # p => job'[q] = job[q]
      /\ job'[p].f = job[p].f /\ job'[p].kind = job[p].kind
      /\ job'[p].off = job[p].off /\ job'[p].end = job[p].end
  <2>1. job' = [job EXCEPT ![p].fresh = 0] /\ job \in [Writers -> Jobs]
    BY DEF Bzero, FDInv, FDTypes
  <2>2. /\ job' \in [Writers -> Jobs] /\ job'[p].fresh = 0
        /\ \A q \in Writers : q # p => job'[q] = job[q]
        /\ job'[p].f = job[p].f /\ job'[p].kind = job[p].kind
        /\ job'[p].off = job[p].off /\ job'[p].end = job[p].end
    BY ONLY <2>1, p \in Writers DEF Jobs
  <2> QED BY <2>2 DEF Bzero, mkfsVars
<1>5. Kind(f)' = Kind(f) /\ Off(f)' = Off(f) /\ End(f)' = End(f)
  BY <1>3, <1>4 DEF Kind, Off, End
<1>6. /\ block' \in [Data -> [0..(BSIZE - 1) -> FileWords]]
      /\ inode' \in [All -> DInodes] /\ inode'[f].size = inode[f].size
      /\ \A g \in All \ {f} :
            /\ inode'[g] = inode[g]
            /\ inode[g].addrs[NDIRECT] # 0 =>
                block'[inode[g].addrs[NDIRECT]] = block[inode[g].addrs[NDIRECT]]
      /\ \E i \in Slots : /\ Ref(f, i) = 0
                          /\ \A j \in Slots : Ref(f, j)' = IF j = i THEN b ELSE Ref(f, j)
      /\ \A n \in 0..(MAXFILE - 1) : Lookup(inode[f], n) # 0 => Lookup(inode[f], n)' # 0
      /\ TableRight(f)'
  BY <1>1, <1>2, BzeroEnters
<1>7. FDTypes'
  BY <1>4, <1>6 DEF FDInv, FDTypes
<1>8. \A g \in All \ {f} : Same(g)
  <2> TAKE g \in All \ {f}
  <2>1. iholder[g] # p /\ (iholder[g] # NoOne => iholder[g] \in Writers)
    BY <1>1, OneLock, InodeIs DEF FDInv
  <2>2. iholder[g] # NoOne => job'[iholder[g]] = job[iholder[g]]
    BY <2>1, <1>4
  <2> QED BY <2>2, <1>4, <1>6 DEF Same
<1>9. FileRight(f)'
  <2>1. HolderRight(f) /\ RangeRight(f) /\ NoHoles(f) /\ FDTypes
    BY OneLock DEF FDInv
  <2>2. HolderRight(f)'
    BY <2>1, <1>3, <1>4 DEF HolderRight
  <2>3. RangeRight(f)'
    BY <2>1, <1>5, <1>6 DEF RangeRight
  <2>4. TruncRight(f)'
    BY <1>3, <1>5 DEF TruncRight
  <2>5. CacheRight(f)'
    <3>1. inode[f].size \in Nat /\ Off(f) \in Nat /\ End(f) \in Nat
      BY <1>1, <1>3, <2>1, InodeIs, WorkingIs
    <3>2. End(f) > inode[f].size
      BY <3>1, <1>3
    <3> QED BY <3>2, <1>3, <1>5, <1>6 DEF CacheRight
  <2>6. NoHoles(f)'
    <3> SUFFICES ASSUME NEW o \in Nat, o < inode[f].size \/ (Kind(f) = "write" /\ o < Off(f)),
                        NEW n, n = o \div BSIZE
                 PROVE  Lookup(inode[f], n)' # 0
      BY <1>5, <1>6 DEF NoHoles
    <3>1. Lookup(inode[f], n) # 0 /\ n \in 0..(MAXFILE - 1)
      BY <1>3, <2>1, InFile DEF NoHoles
    <3> QED BY <3>1, <1>6
  <2> QED BY <2>2, <2>3, <2>4, <2>5, <2>6, <1>6 DEF FileRight
<1>10. FreshRight(p)'
  BY <1>4 DEF FreshRight
<1>11. OwnersRight'
  <2>1. OneOwner(Refs, InHand, Used) /\ Used' = Used
    BY <1>4 DEF FDInv, OwnersRight, Used
  <2>2. PICK i \in Slots : /\ Ref(f, i) = 0
                           /\ \A j \in Slots : Ref(f, j)' = IF j = i THEN b ELSE Ref(f, j)
    BY <1>6
  <2>3. \A g \in All \ {f}, j \in Slots : Ref(g, j)' = Ref(g, j)
    BY <1>8, SameFile
  <2>4. /\ InHand[p] = b /\ Refs[f][i] = 0
        /\ \A q \in Writers : InHand'[q] = IF q = p THEN 0 ELSE InHand[q]
    BY <1>2, <1>4, <2>2, RefsAre
  <2>5. \A g \in All, j \in Slots : Refs'[g][j] = IF g = f /\ j = i THEN InHand[p] ELSE Refs[g][j]
    BY <2>2, <2>3, <2>4, RefsAre
  <2>6. OneOwner(Refs', InHand', Used)
    BY <1>3, <2>1, <2>4, <2>5, OwnerEntered
  <2> QED BY <2>1, <2>6 DEF OwnersRight
<1> DEFINE S == {f}
<1>12. S \in SUBSET All /\ (\A g \in All \ S : Same(g))
       /\ \A g \in S : iholder[g] \in {p, NoOne} /\ FileRight(g)'
  BY <1>3, <1>8, <1>9
<1> HIDE DEF S
<1> QED BY <1>4, <1>7, <1>10, <1>11, <1>12, StepKeeps

\* The words that are copied are words.
LEMMA CopiedIs ==
    ASSUME NEW w \in [0..(BSIZE - 1) -> FileWords], NEW off, NEW m, NEW word \in FileWords
    PROVE  Copied(w, off, m, word) \in [0..(BSIZE - 1) -> FileWords]
BY DEF Copied

\* A block of readi() or writei(): what is written to is no indirect block.
LEMMA CopyPartKeeps ==
    ASSUME FDInv, phase = "run", NEW p \in Writers, CopyPart(p)
    PROVE  FDInv'
<1>1. PICK f \in All : f = job[p].f
  BY JobIs DEF FDInv
<1>2. PICK k : k = Bn(p)
  OBVIOUS
<1>3. PICK b : b = Lookup(inode[f], k)
  OBVIOUS
<1>4. PICK m : m = PartLen(job[p].off, job[p].end)
  OBVIOUS
<1>5. /\ Working(p) /\ b # 0 /\ iholder[f] = p /\ p # NoOne
      /\ Kind(f) = job[p].kind /\ Off(f) = job[p].off /\ End(f) = job[p].end
      /\ Kind(f) \in {"read", "write"} /\ k \in 0..(MAXFILE - 1) /\ k = Off(f) \div BSIZE
      /\ Off(f) \in Nat /\ End(f) \in Nat /\ Off(f) < End(f)
  BY <1>1, <1>2, <1>3, WorkingIs DEF CopyPart, Missing
<1>6. /\ m \in Nat \ {0} /\ Off(f) + m <= End(f)
      /\ \A o \in Nat : Off(f) <= o /\ o < Off(f) + m => o \div BSIZE = k
  BY <1>4, <1>5, PartIs
<1>7. /\ FDTypes /\ phase' = phase /\ freeblock' = freeblock /\ bitmap' = bitmap
      /\ inode' = inode /\ dinode' = dinode /\ iholder' = iholder
      /\ job' = [job EXCEPT ![p].off = Off(f) + m] /\ job \in [Writers -> Jobs]
      /\ Off(f) + m \in Nat
      /\ block' = block \/ block' = [block EXCEPT ![b] =
                                        Copied(block[b], job[p].off, m, job[p].word)]
  BY <1>1, <1>2, <1>3, <1>4, <1>5, <1>6 DEF CopyPart, mkfsVars, FDInv, FDTypes
<1>8. /\ job' \in [Writers -> Jobs] /\ job'[p].fresh = job[p].fresh
      /\ \A q \in Writers : q # p => job'[q] = job[q]
      /\ job'[p].f = job[p].f /\ job'[p].kind = job[p].kind
      /\ job'[p].off = Off(f) + m /\ job'[p].end = job[p].end
  BY ONLY <1>7, p \in Writers DEF Jobs
<1>9. job[p].fresh = 0
  BY <1>1, <1>2, <1>3, <1>5 DEF FDInv, FreshRight, Missing
<1>10. /\ b \in Data /\ \A g \in All : inode[g].addrs[NDIRECT] # b
  <2>1. b = Ref(f, Place(k)) /\ Place(k) \in Slots /\ Place(k) # NDIRECT
    BY <1>3, <1>5, <1>7, LookupIs, PlaceIs
  <2>2. b \in Data
    BY <2>1, <1>5, RefsAre DEF FDInv, OwnersRight, OneOwner
  <2>3. \A g \in All : inode[g].addrs[NDIRECT] # b
    BY <2>1, <1>5, <1>7, NoTable DEF FDInv
  <2> QED BY <2>2, <2>3
<1>11. /\ block' \in [Data -> [0..(BSIZE - 1) -> FileWords]]
       /\ \A x \in Data : x # b => block'[x] = block[x]
  <2>1. CASE block' = block
    BY <2>1, <1>7 DEF FDTypes
  <2>2. CASE block' = [block EXCEPT ![b] = Copied(block[b], job[p].off, m, job[p].word)]
    <3>1. job[p].word \in FileWords /\ block \in [Data -> [0..(BSIZE - 1) -> FileWords]]
      BY <1>7 DEF FDTypes, Jobs
    <3>2. Copied(block[b], job[p].off, m, job[p].word) \in [0..(BSIZE - 1) -> FileWords]
      BY <3>1, <1>10, CopiedIs
    <3> QED BY <2>2, <3>1, <3>2, <1>10
  <2> QED BY <2>1, <2>2, <1>7
<1>12. \A g \in All : inode[g].addrs[NDIRECT] # 0 =>
            block'[inode[g].addrs[NDIRECT]] = block[inode[g].addrs[NDIRECT]]
  BY <1>7, <1>10, <1>11, InodeIs
<1>13. FDTypes'
  BY <1>7, <1>8, <1>11 DEF FDTypes
<1>14. \A g \in All \ {f} : Same(g)
  <2> TAKE g \in All \ {f}
  <2>1. iholder[g] # p /\ (iholder[g] # NoOne => iholder[g] \in Writers)
    BY <1>1, <1>7, OneLock, InodeIs
  <2>2. iholder[g] # NoOne => job'[iholder[g]] = job[iholder[g]]
    BY <2>1, <1>8
  <2> QED BY <2>2, <1>7, <1>12 DEF Same
<1>15. Kind(f)' = Kind(f) /\ Off(f)' = Off(f) + m /\ End(f)' = End(f)
  BY <1>5, <1>7, <1>8 DEF Kind, Off, End
<1>16. /\ \A i \in Slots : Ref(f, i)' = Ref(f, i)
       /\ \A n : Lookup(inode[f], n)' = Lookup(inode[f], n)
  <2>1. \A i \in Slots : Ref(f, i)' = Ref(f, i)
    BY <1>5, <1>7, <1>12, <1>15 DEF Ref
  <2>2. \A n : Lookup(inode[f], n)' = Lookup(inode[f], n)
    BY <1>7, <1>12 DEF Lookup
  <2> QED BY <2>1, <2>2
<1>17. FileRight(f)'
  <2>1. HolderRight(f) /\ RangeRight(f) /\ NoHoles(f) /\ CacheRight(f) /\ TableRight(f)
    BY OneLock
  <2>2. HolderRight(f)'
    BY <2>1, <1>5, <1>7, <1>8 DEF HolderRight
  <2>3. RangeRight(f)'
    BY <2>1, <1>6, <1>7, <1>15 DEF RangeRight
  <2>4. TruncRight(f)'
    BY <1>5, <1>15 DEF TruncRight
  <2>5. CacheRight(f)'
    BY <2>1, <1>7, <1>15 DEF CacheRight
  <2>6. NoHoles(f)'
    <3> SUFFICES ASSUME NEW o \in Nat,
                        o < inode[f].size \/ (Kind(f) = "write" /\ o < Off(f) + m),
                        NEW n, n = o \div BSIZE
                 PROVE  Lookup(inode[f], n)' # 0
      BY <1>7, <1>15 DEF NoHoles
    <3>1. CASE o < inode[f].size \/ (Kind(f) = "write" /\ o < Off(f))
      <4>1. Lookup(inode[f], n) # 0
        BY <3>1, <2>1, <1>5 DEF NoHoles
      <4> QED BY <4>1, <1>16
    <3>2. CASE ~(o < Off(f)) /\ o < Off(f) + m
      <4>1. n = k
        BY <3>2, <1>5, <1>6
      <4> QED BY <4>1, <1>3, <1>5, <1>16
    <3> QED BY <3>1, <3>2
  <2>7. TableRight(f)'
    BY <2>1, <1>7, <1>12 DEF TableRight
  <2> QED BY <2>2, <2>3, <2>4, <2>5, <2>6, <2>7 DEF FileRight
<1>18. FreshRight(p)'
  BY <1>8, <1>9 DEF FreshRight
<1>19. OwnersRight'
  <2>1. \A g \in All, i \in Slots : Ref(g, i)' = Ref(g, i)
    BY <1>14, <1>16, SameFile
  <2>2. \A q \in Writers : job'[q].fresh = job[q].fresh
    BY <1>8
  <2> QED BY <1>7, <2>1, <2>2, OwnersKeep
<1> DEFINE S == {f}
<1>20. S \in SUBSET All /\ (\A g \in All \ S : Same(g))
       /\ \A g \in S : iholder[g] \in {p, NoOne} /\ FileRight(g)'
  BY <1>5, <1>14, <1>17
<1> HIDE DEF S
<1> QED BY <1>7, <1>8, <1>13, <1>18, <1>19, <1>20, StepKeeps

\* The end of readi() or writei(): what was written beyond the size is the file's.
LEMMA UnlockFileKeeps ==
    ASSUME FDInv, phase = "run", NEW p \in Writers, UnlockFile(p)
    PROVE  FDInv'
<1>1. PICK f \in All : f = job[p].f
  BY JobIs DEF FDInv
<1>2. /\ iholder[f] = p /\ p # NoOne /\ FDTypes
      /\ Kind(f) = job[p].kind /\ Off(f) = job[p].off /\ End(f) = Off(f)
      /\ Kind(f) \in {"read", "write"} /\ Off(f) \in Nat /\ inode[f] \in DInodes
      /\ inode[f].size \in Nat /\ inode[f].size <= MAXFILE * BSIZE /\ MAXFILE * BSIZE \in Nat
  BY <1>1, JobIs, InodeIs, Sizes DEF UnlockFile, FDInv, Kind, Off, End
<1>3. /\ HolderRight(f) /\ RangeRight(f) /\ NoHoles(f) /\ CacheRight(f) /\ TableRight(f)
      /\ Off(f) <= MAXFILE * BSIZE
  BY <1>2, OneLock DEF RangeRight
<1>4. /\ phase' = phase /\ freeblock' = freeblock /\ bitmap' = bitmap /\ block' = block
      /\ iholder' = [iholder EXCEPT ![f] = NoOne]
      /\ job' = [job EXCEPT ![p] = IF job[p].rest = 0 THEN NoJob ELSE job[p]]
  BY <1>1 DEF UnlockFile, mkfsVars
<1>5. job[p].fresh = 0
  <2>1. ~Working(p)
    BY <1>1, <1>2, JobIs DEF UnlockFile, Working
  <2> QED BY <2>1, NothingInHand
<1>6. /\ job' \in [Writers -> Jobs] /\ job'[p].fresh = 0
      /\ \A q \in Writers : q # p => job'[q] = job[q]
      /\ iholder' \in [All -> Writers \cup {NoOne}] /\ iholder'[f] = NoOne
      /\ \A g \in All : g # f => iholder'[g] = iholder[g]
  <2>1. NoJob \in Jobs /\ NoJob.fresh = 0
    BY Sizes DEF NoJob, Jobs, FileWords
  <2> QED BY <2>1, <1>2, <1>4, <1>5 DEF FDTypes
\* The new size.
<1>7. PICK s \in 0..(MAXFILE * BSIZE) :
        /\ inode' = [inode EXCEPT ![f].size = s] /\ inode'[f] = dinode'[f]
        /\ dinode' \in [All -> DInodes] /\ \A g \in All \ {f} : dinode'[g] = dinode[g]
        /\ s = inode[f].size \/ (Kind(f) = "write" /\ s = Off(f))
  <2>1. inode = [inode EXCEPT ![f].size = inode[f].size] /\ inode \in [All -> DInodes]
        /\ dinode \in [All -> DInodes]
    BY <1>2 DEF FDTypes, DInodes
  <2>2. CASE Kind(f) = "write" /\ Off(f) > inode[f].size
    <3>1. /\ inode' = [inode EXCEPT ![f].size = Off(f)]
          /\ dinode' = [dinode EXCEPT ![f] = inode'[f]]
      BY <2>2, <1>1, <1>2 DEF UnlockFile, Grown
    <3>2. PICK s \in 0..(MAXFILE * BSIZE) : s = Off(f)
      BY <1>2, <1>3
    <3>3. inode' = [inode EXCEPT ![f].size = s] /\ inode \in [All -> DInodes]
      BY <2>1, <3>1, <3>2
    <3>4. inode'[f] \in DInodes
      BY ONLY <3>3, f \in All, s \in 0..(MAXFILE * BSIZE) DEF DInodes
    <3>5. /\ dinode' \in [All -> DInodes] /\ dinode'[f] = inode'[f]
          /\ \A g \in All \ {f} : dinode'[g] = dinode[g]
      BY <2>1, <3>1, <3>4
    <3> QED BY <2>2, <3>2, <3>3, <3>5
  <2>3. CASE ~(Kind(f) = "write" /\ Off(f) > inode[f].size)
    <3>1. inode' = [inode EXCEPT ![f].size = inode[f].size] /\ dinode' = dinode
      BY <2>1, <2>3, <1>1, <1>2 DEF UnlockFile, Grown
    <3>2. inode[f] = dinode[f]
      BY <2>3, <1>2, <1>3 DEF CacheRight
    <3>3. inode' = inode
      BY <2>1, <3>1
    <3> QED BY <2>1, <3>1, <3>2, <3>3, <1>2
  <2> QED BY <2>2, <2>3
<1>8. /\ inode' \in [All -> DInodes] /\ \A g \in All \ {f} : inode'[g] = inode[g]
      /\ inode'[f].size = s /\ inode'[f].addrs = inode[f].addrs
  <2>1. inode \in [All -> DInodes] /\ inode' = [inode EXCEPT ![f].size = s]
    BY <1>2, <1>7 DEF FDTypes
  <2> QED BY ONLY <2>1, f \in All, s \in 0..(MAXFILE * BSIZE) DEF DInodes
<1>9. FDTypes'
  BY <1>2, <1>4, <1>6, <1>7, <1>8 DEF FDTypes
<1>10. \A g \in All \ {f} : Same(g)
  <2> TAKE g \in All \ {f}
  <2>1. iholder[g] # p /\ (iholder[g] # NoOne => iholder[g] \in Writers)
    BY <1>1, <1>2, OneLock, InodeIs
  <2>2. iholder[g] # NoOne => job'[iholder[g]] = job[iholder[g]]
    BY <2>1, <1>6
  <2> QED BY <2>2, <1>4, <1>6, <1>7, <1>8 DEF Same
<1>11. Kind(f)' = "none"
  BY <1>6 DEF Kind
<1>12. /\ \A i \in Slots : Ref(f, i)' = Ref(f, i)
       /\ \A n : Lookup(inode[f], n)' = Lookup(inode[f], n)
  <2>1. \A i \in Slots : Ref(f, i)' = Ref(f, i)
    BY <1>2, <1>4, <1>8, <1>11 DEF Ref
  <2>2. \A n : Lookup(inode[f], n)' = Lookup(inode[f], n)
    BY <1>4, <1>8 DEF Lookup
  <2> QED BY <2>1, <2>2
<1>13. FileRight(f)'
  <2>1. HolderRight(f)'
    BY <1>6 DEF HolderRight
  <2>2. RangeRight(f)' /\ TruncRight(f)'
    BY <1>11 DEF RangeRight, TruncRight
  <2>3. CacheRight(f)'
    BY <1>7 DEF CacheRight
  <2>4. NoHoles(f)'
    <3> SUFFICES ASSUME NEW o \in Nat, o < s, NEW n, n = o \div BSIZE
                 PROVE  Lookup(inode[f], n)' # 0
      BY <1>8, <1>11 DEF NoHoles
    <3>1. Lookup(inode[f], n) # 0
      BY <1>2, <1>3, <1>7 DEF NoHoles
    <3> QED BY <3>1, <1>12
  <2>5. TableRight(f)'
    BY <1>3, <1>4, <1>8 DEF TableRight
  <2> QED BY <2>1, <2>2, <2>3, <2>4, <2>5 DEF FileRight
<1>14. FreshRight(p)'
  BY <1>6 DEF FreshRight
<1>15. OwnersRight'
  <2>1. \A g \in All, i \in Slots : Ref(g, i)' = Ref(g, i)
    BY <1>10, <1>12, SameFile
  <2>2. \A q \in Writers : job'[q].fresh = job[q].fresh
    BY <1>5, <1>6
  <2> QED BY <1>4, <2>1, <2>2, OwnersKeep
<1> DEFINE S == {f}
<1>16. S \in SUBSET All /\ (\A g \in All \ S : Same(g))
       /\ \A g \in S : iholder[g] \in {p, NoOne} /\ FileRight(g)'
  BY <1>2, <1>10, <1>13
<1> HIDE DEF S
<1> QED BY <1>4, <1>6, <1>9, <1>14, <1>15, <1>16, StepKeeps

\* bfree(): the place is emptied that refers to the block.
LEMMA BfreeKeeps ==
    ASSUME FDInv, phase = "run", NEW p \in Writers, Bfree(p)
    PROVE  FDInv'
<1>1. PICK f \in All : f = job[p].f
  BY JobIs DEF FDInv
<1>2. PICK n \in Nat : n = job[p].off
  BY JobIs DEF FDInv
<1>3. PICK t \in Data \cup {0} : t = inode[f].addrs[NDIRECT]
  BY InodeIs DEF FDInv
<1>4. PICK b : b = TruncBlock(inode[f], n)
  OBVIOUS
<1>5. /\ iholder[f] = p /\ p # NoOne /\ FDTypes /\ n <= MAXFILE
      /\ Kind(f) = "trunc" /\ job[p].kind = "trunc" /\ Off(f) = n
      /\ inode \in [All -> DInodes] /\ job \in [Writers -> Jobs]
      /\ NDIRECT \in Nat \ {0} /\ BSIZE \in Nat \ {0} /\ MAXFILE = NDIRECT + BSIZE
  BY <1>1, <1>2, JobIs, Sizes DEF Bfree, Truncating, FDInv, FDTypes, Kind, Off
<1>6. /\ phase' = phase /\ freeblock' = freeblock /\ bitmap' = bitmap \ {b} /\ block' = block
      /\ dinode' = dinode /\ iholder' = iholder
      /\ job' = [job EXCEPT ![p].off = n + 1]
      /\ inode' = IF n < NDIRECT \/ n = MAXFILE
                  THEN [inode EXCEPT ![f].addrs[IF n < NDIRECT THEN n ELSE NDIRECT] = 0]
                  ELSE inode
  BY <1>1, <1>2, <1>4 DEF Bfree, mkfsVars
<1>7. HolderRight(f) /\ TruncRight(f) /\ TableRight(f)
  BY OneLock
<1>8. /\ job' \in [Writers -> Jobs] /\ job'[p].fresh = job[p].fresh
      /\ \A q \in Writers : q # p => job'[q] = job[q]
      /\ job'[p].f = job[p].f /\ job'[p].kind = job[p].kind /\ job'[p].off = n + 1
  <2>1. n + 1 \in Nat
    OBVIOUS
  <2> QED BY ONLY <2>1, <1>5, <1>6, p \in Writers DEF Jobs
<1>9. job[p].fresh = 0
  BY <1>5, NothingInHand DEF Working
<1>10. Kind(f)' = "trunc" /\ Off(f)' = n + 1
  BY <1>5, <1>6, <1>8 DEF Kind, Off
<1>11. \A i \in 0..NDIRECT : inode[f].addrs[i] \in Data \cup {0}
  BY <1>5, InodeIs
\* The place that is emptied.
<1>12. \E i \in Slots :
         /\ b = Ref(f, i) /\ \A j \in Slots : Ref(f, j)' = IF j = i THEN 0 ELSE Ref(f, j)
         /\ inode' \in [All -> DInodes] /\ \A g \in All \ {f} : inode'[g] = inode[g]
         /\ TruncRight(f)' /\ TableRight(f)'
  <2>1. ASSUME NEW a \in 0..NDIRECT, n < NDIRECT \/ n = MAXFILE,
               n < NDIRECT => a = n, ~(n < NDIRECT) => a = NDIRECT
        PROVE  /\ b = Ref(f, a) /\ \A j \in Slots : Ref(f, j)' = IF j = a THEN 0 ELSE Ref(f, j)
               /\ inode' \in [All -> DInodes] /\ \A g \in All \ {f} : inode'[g] = inode[g]
               /\ TruncRight(f)' /\ TableRight(f)'
    <3>1. inode' = [inode EXCEPT ![f].addrs[a] = 0]
      BY <2>1, <1>6
    <3>2. /\ inode' \in [All -> DInodes] /\ \A g \in All \ {f} : inode'[g] = inode[g]
          /\ inode'[f].addrs[a] = 0
          /\ \A i \in 0..NDIRECT : i # a => inode'[f].addrs[i] = inode[f].addrs[i]
      BY ONLY <3>1, <1>5, f \in All, a \in 0..NDIRECT DEF DInodes
    <3>3. b = Ref(f, a)
      <4>1. Ref(f, a) = inode[f].addrs[a]
        BY AddrIs
      <4>2. CASE n < NDIRECT
        BY <4>1, <4>2, <2>1, <1>4, <1>5 DEF TruncBlock, Lookup
      <4>3. CASE n = MAXFILE
        BY <4>1, <4>3, <2>1, <1>4, <1>5 DEF TruncBlock
      <4> QED BY <4>2, <4>3, <2>1
    <3>4. ASSUME NEW j \in Slots PROVE Ref(f, j)' = IF j = a THEN 0 ELSE Ref(f, j)
      <4>1. CASE j <= NDIRECT
        <5>1. j \in 0..NDIRECT
          BY <4>1 DEF Slots
        <5> QED BY <4>1, <5>1, <3>2 DEF Ref
      <4>2. CASE ~(j <= NDIRECT) /\ n < NDIRECT
        <5>1. j # a /\ a # NDIRECT /\ ~(j <= n) /\ ~(j <= n + 1) /\ NDIRECT \in 0..NDIRECT
          BY <4>2, <2>1, <1>5 DEF Slots
        <5>2. inode'[f].addrs[NDIRECT] = inode[f].addrs[NDIRECT]
          BY <5>1, <3>2
        <5> QED BY <4>2, <5>1, <5>2, <1>5, <1>6, <1>10 DEF Ref
      <4>3. CASE ~(j <= NDIRECT) /\ n = MAXFILE
        <5>1. j # a /\ a = NDIRECT /\ j <= n
          BY <4>3, <2>1, <1>5 DEF Slots
        <5>2. inode'[f].addrs[NDIRECT] = 0
          BY <5>1, <3>2
        <5> QED BY <4>3, <5>1, <5>2, <1>5 DEF Ref
      <4> QED BY <4>1, <4>2, <4>3, <2>1
    <3>5. TruncRight(f)'
      <4>1. ASSUME NEW i \in 0..(NDIRECT - 1), i < n + 1 PROVE inode'[f].addrs[i] = 0
        <5>1. i \in 0..NDIRECT
          BY <1>5
        <5>2. CASE i = a
          BY <5>2, <3>2
        <5>3. CASE i # a
          <6>1. i < n
            BY <4>1, <5>3, <2>1, <1>5
          <6> QED BY <5>1, <5>3, <6>1, <3>2, <1>5, <1>7 DEF TruncRight
        <5> QED BY <5>2, <5>3
      <4>2. n + 1 > MAXFILE => inode'[f].addrs[NDIRECT] = 0
        BY <3>2, <2>1, <1>5
      <4>3. n + 1 <= MAXFILE + 1
        BY <1>5
      <4> QED BY <4>1, <4>2, <4>3, <1>10 DEF TruncRight
    <3>6. TableRight(f)'
      <4>1. CASE a = NDIRECT
        BY <4>1, <3>2 DEF TableRight
      <4>2. CASE a # NDIRECT
        <5>1. inode'[f].addrs[NDIRECT] = inode[f].addrs[NDIRECT]
          BY <4>2, <3>2, <1>5
        <5> QED BY <5>1, <1>6, <1>7 DEF TableRight
      <4> QED BY <4>1, <4>2
    <3> QED BY <3>2, <3>3, <3>4, <3>5, <3>6
  <2>2. CASE n < NDIRECT
    <3>1. n \in 0..NDIRECT /\ n \in Slots
      BY <2>2, AddrIs, <1>5
    <3> QED BY <3>1, <2>1, <2>2
  <2>3. CASE n = MAXFILE
    <3>1. NDIRECT \in 0..NDIRECT /\ NDIRECT \in Slots /\ ~(n < NDIRECT)
      BY <2>3, <1>5 DEF Slots
    <3> QED BY <3>1, <2>1, <2>3
  <2>4. CASE ~(n < NDIRECT) /\ n # MAXFILE
    <3>1. /\ inode' = inode /\ n < MAXFILE /\ n + 1 \in Slots /\ ~(n + 1 <= NDIRECT)
          /\ (n + 1) - NDIRECT - 1 = n - NDIRECT /\ ~(n + 1 <= n)
      BY <2>4, <1>5, <1>6 DEF Slots
    <3>2. b = Ref(f, n + 1)
      BY <3>1, <2>4, <1>4, <1>5 DEF TruncBlock, Lookup, Ref
    <3>3. ASSUME NEW j \in Slots PROVE Ref(f, j)' = IF j = n + 1 THEN 0 ELSE Ref(f, j)
      <4>1. CASE j <= NDIRECT
        BY <4>1, <3>1 DEF Ref
      <4>2. CASE ~(j <= NDIRECT)
        <5>1. j \in Nat /\ (j <= n + 1 <=> j <= n \/ j = n + 1)
          BY DEF Slots
        <5> QED BY <4>2, <5>1, <3>1, <1>5, <1>6, <1>10 DEF Ref
      <4> QED BY <4>1, <4>2
    <3>4. TruncRight(f)'
      <4>1. n + 1 <= MAXFILE + 1 /\ ~(n + 1 > MAXFILE)
        BY <3>1, <1>5
      <4>2. ASSUME NEW i \in 0..(NDIRECT - 1), i < n + 1 PROVE inode[f].addrs[i] = 0
        <5>1. i < n
          BY <2>4, <1>5
        <5> QED BY <5>1, <1>5, <1>7 DEF TruncRight
      <4> QED BY <4>1, <4>2, <3>1, <1>10 DEF TruncRight
    <3>5. TableRight(f)'
      BY <3>1, <1>6, <1>7 DEF TableRight
    <3> QED BY <3>1, <3>2, <3>3, <3>4, <3>5, <1>5
  <2> QED BY <2>2, <2>3, <2>4
<1>13. FDTypes'
  BY <1>5, <1>6, <1>8, <1>12 DEF FDTypes
<1>14. \A g \in All \ {f} : Same(g)
  <2> TAKE g \in All \ {f}
  <2>1. iholder[g] # p /\ (iholder[g] # NoOne => iholder[g] \in Writers)
    BY <1>1, <1>5, OneLock, InodeIs
  <2>2. iholder[g] # NoOne => job'[iholder[g]] = job[iholder[g]]
    BY <2>1, <1>8
  <2> QED BY <2>2, <1>6, <1>12 DEF Same
<1>15. FileRight(f)'
  <2>1. HolderRight(f)'
    BY <1>1, <1>5, <1>6, <1>8 DEF HolderRight
  <2>2. RangeRight(f)' /\ CacheRight(f)' /\ NoHoles(f)'
    BY <1>10 DEF RangeRight, CacheRight, NoHoles
  <2> QED BY <2>1, <2>2, <1>12 DEF FileRight
<1>16. FreshRight(p)'
  BY <1>8, <1>9 DEF FreshRight
<1>17. OwnersRight'
  <2>1. OneOwner(Refs, InHand, bitmap) /\ Used' = bitmap \ {b}
    BY <1>6 DEF FDInv, OwnersRight, Used
  <2>2. PICK i \in Slots : b = Ref(f, i) /\ \A j \in Slots : Ref(f, j)' = IF j = i THEN 0 ELSE Ref(f, j)
    BY <1>12
  <2>3. \A g \in All \ {f}, j \in Slots : Ref(g, j)' = Ref(g, j)
    BY <1>14, SameFile
  <2>4. Refs[f][i] = b /\ \A q \in Writers : InHand'[q] = InHand[q]
    BY <2>2, <1>8, RefsAre
  <2>5. \A g \in All, j \in Slots : Refs'[g][j] = IF g = f /\ j = i THEN 0 ELSE Refs[g][j]
    BY <2>2, <2>3, RefsAre
  <2>6. OneOwner(Refs', InHand, bitmap \ {b})
    <3>1. OneOwner(Refs', InHand, bitmap \ {Refs[f][i]})
      BY <2>1, <2>5, OwnerFreed
    <3> QED BY <3>1, <2>4
  <2>7. OneOwner(Refs', InHand', bitmap \ {b})
    BY <2>4, <2>6, OwnerSame
  <2> QED BY <2>1, <2>7 DEF OwnersRight
<1> DEFINE S == {f}
<1>18. S \in SUBSET All /\ (\A g \in All \ S : Same(g))
       /\ \A g \in S : iholder[g] \in {p, NoOne} /\ FileRight(g)'
  BY <1>5, <1>14, <1>15
<1> HIDE DEF S
<1> QED BY <1>6, <1>8, <1>13, <1>16, <1>17, <1>18, StepKeeps

\* The end of itrunc(): the file is empty.
LEMMA TruncEndKeeps ==
    ASSUME FDInv, phase = "run", NEW p \in Writers, TruncEnd(p)
    PROVE  FDInv'
<1>1. PICK f \in All : f = job[p].f
  BY JobIs DEF FDInv
<1>2. /\ iholder[f] = p /\ p # NoOne /\ FDTypes /\ job[p].off \in Nat /\ job[p].off > MAXFILE
      /\ Kind(f) = "trunc" /\ job[p].kind = "trunc" /\ Off(f) = job[p].off
      /\ inode \in [All -> DInodes] /\ dinode \in [All -> DInodes]
      /\ job \in [Writers -> Jobs] /\ iholder \in [All -> Writers \cup {NoOne}]
      /\ MAXFILE * BSIZE \in Nat
  BY <1>1, JobIs, Sizes DEF TruncEnd, Truncating, FDInv, FDTypes, Kind, Off
<1>3. /\ phase' = phase /\ freeblock' = freeblock /\ bitmap' = bitmap /\ block' = block
      /\ inode' = [inode EXCEPT ![f].size = 0] /\ dinode' = [dinode EXCEPT ![f] = inode'[f]]
      /\ iholder' = [iholder EXCEPT ![f] = NoOne] /\ job' = [job EXCEPT ![p] = NoJob]
  BY <1>1 DEF TruncEnd, mkfsVars
<1>4. inode[f].addrs[NDIRECT] = 0
  BY <1>2, OneLock DEF TruncRight
<1>5. job[p].fresh = 0
  BY <1>2, NothingInHand DEF Working
<1>6. /\ job' \in [Writers -> Jobs] /\ job'[p].fresh = 0
      /\ \A q \in Writers : q # p => job'[q] = job[q]
      /\ iholder' \in [All -> Writers \cup {NoOne}] /\ iholder'[f] = NoOne
      /\ \A g \in All : g # f => iholder'[g] = iholder[g]
  <2>1. NoJob \in Jobs /\ NoJob.fresh = 0
    BY Sizes DEF NoJob, Jobs, FileWords
  <2> QED BY <2>1, <1>2, <1>3
<1>7. /\ inode' \in [All -> DInodes] /\ \A g \in All \ {f} : inode'[g] = inode[g]
      /\ inode'[f].size = 0 /\ inode'[f].addrs = inode[f].addrs
  <2>1. inode' = [inode EXCEPT ![f].size = 0] /\ 0 \in 0..(MAXFILE * BSIZE)
    BY <1>2, <1>3
  <2> QED BY ONLY <1>2, <2>1, f \in All DEF DInodes
<1>8. /\ dinode' \in [All -> DInodes] /\ dinode'[f] = inode'[f]
      /\ \A g \in All \ {f} : dinode'[g] = dinode[g]
  BY <1>2, <1>3, <1>7
<1>9. FDTypes'
  BY <1>2, <1>3, <1>6, <1>7, <1>8 DEF FDTypes
<1>10. \A g \in All \ {f} : Same(g)
  <2> TAKE g \in All \ {f}
  <2>1. iholder[g] # p /\ (iholder[g] # NoOne => iholder[g] \in Writers)
    BY <1>1, <1>2, OneLock, InodeIs
  <2>2. iholder[g] # NoOne => job'[iholder[g]] = job[iholder[g]]
    BY <2>1, <1>6
  <2> QED BY <2>2, <1>3, <1>6, <1>7, <1>8 DEF Same
<1>11. Kind(f)' = "none"
  BY <1>6 DEF Kind
<1>12. \A i \in Slots : Ref(f, i)' = Ref(f, i)
  BY <1>4, <1>7 DEF Ref
<1>13. FileRight(f)'
  <2>1. HolderRight(f)' /\ CacheRight(f)'
    BY <1>6, <1>8 DEF HolderRight, CacheRight
  <2>2. RangeRight(f)' /\ TruncRight(f)'
    BY <1>11 DEF RangeRight, TruncRight
  <2>3. NoHoles(f)'
    BY <1>7, <1>11 DEF NoHoles
  <2>4. TableRight(f)'
    BY <1>4, <1>7 DEF TableRight
  <2> QED BY <2>1, <2>2, <2>3, <2>4 DEF FileRight
<1>14. FreshRight(p)'
  BY <1>6 DEF FreshRight
<1>15. OwnersRight'
  <2>1. \A g \in All, i \in Slots : Ref(g, i)' = Ref(g, i)
    BY <1>10, <1>12, SameFile
  <2>2. \A q \in Writers : job'[q].fresh = job[q].fresh
    BY <1>5, <1>6
  <2> QED BY <1>3, <2>1, <2>2, OwnersKeep
<1> DEFINE S == {f}
<1>16. S \in SUBSET All /\ (\A g \in All \ S : Same(g))
       /\ \A g \in S : iholder[g] \in {p, NoOne} /\ FileRight(g)'
  BY <1>2, <1>10, <1>13
<1> HIDE DEF S
<1> QED BY <1>3, <1>6, <1>9, <1>14, <1>15, <1>16, StepKeeps

\* An inode that nobody has locked is on the disk as it is in the cache.
LEMMA EvictKeeps ==
    ASSUME FDInv, NEW f \in All, Evict(f)
    PROVE  FDInv'
<1>1. inode[f] = dinode[f]
  BY OneLock DEF Evict, FDInv, FileRight, CacheRight, Kind
<1>2. inode' = inode
  BY <1>1 DEF Evict, FDInv, FDTypes
<1>3. /\ phase' = phase /\ freeblock' = freeblock /\ bitmap' = bitmap /\ block' = block
      /\ dinode' = dinode /\ iholder' = iholder /\ job' = job
  BY DEF Evict, mkfsVars
<1>4. FDTypes'
  BY <1>2, <1>3 DEF FDInv, FDTypes
<1>5. ImageRight'
  BY <1>2, <1>3 DEF FDInv, ImageRight
<1>6. ASSUME NEW g \in All PROVE FileRight(g)' /\ \A i : Ref(g, i)' = Ref(g, i)
  <2>1. Same(g)
    BY <1>2, <1>3 DEF Same
  <2> QED BY <2>1, SameFile DEF FDInv
<1>7. ASSUME NEW q \in Writers PROVE FreshRight(q)'
  BY <1>2, <1>3 DEF FDInv, FreshRight, Working, Missing, Bn, Lookup
<1>8. OwnersRight'
  <2>1. phase = "run"
    BY DEF Evict
  <2> QED BY <2>1, <1>3, <1>6, OwnersKeep
<1> QED BY <1>4, <1>5, <1>6, <1>7, <1>8 DEF FDInv

\* The image before mkfs has appended anything.
LEMMA InitKeeps == FDInit => FDInv
<1> SUFFICES ASSUME FDInit PROVE FDInv
  OBVIOUS
<1>1. FDTypes
  <2>1. Empty \in DInodes
    BY Sizes DEF Empty, DInodes
  <2>2. NoJob \in Jobs
    BY Sizes DEF NoJob, Jobs, FileWords
  <2>3. Zeroes \in [0..(BSIZE - 1) -> FileWords]
    BY DEF Zeroes, FileWords
  <2> QED BY <2>1, <2>2, <2>3 DEF FDInit, FDTypes
<1>2. ImageRight
  BY Sizes DEF FDInit, ImageRight
<1>3. ASSUME NEW f \in All PROVE FileRight(f) /\ \A i \in Slots : Ref(f, i) = 0
  <2>1. iholder[f] = NoOne /\ inode[f] = Empty /\ dinode[f] = Empty /\ Kind(f) = "none"
    BY DEF FDInit, Kind
  <2>2. Empty.size = 0 /\ \A i \in 0..NDIRECT : Empty.addrs[i] = 0
    BY DEF Empty
  <2>3. HolderRight(f) /\ RangeRight(f) /\ TruncRight(f) /\ CacheRight(f)
    BY <2>1 DEF HolderRight, RangeRight, TruncRight, CacheRight
  <2>4. NoHoles(f)
    BY <2>1, <2>2 DEF NoHoles
  <2>5. inode[f].addrs[NDIRECT] = 0
    BY <2>1, <2>2, Sizes
  <2>6. \A i \in Slots : Ref(f, i) = 0
    BY <2>1, <2>2, <2>5 DEF Ref, Slots
  <2> QED BY <2>3, <2>4, <2>5, <2>6 DEF FileRight, TableRight
<1>4. ASSUME NEW p \in Writers PROVE FreshRight(p) /\ job[p].fresh = 0
  BY DEF FDInit, NoJob, FreshRight
<1>5. OwnersRight
  <2>1. Used = {}
    BY DEF FDInit, Used
  <2>2. (\A f \in All, i \in Slots : Refs[f][i] = 0) /\ \A p \in Writers : InHand[p] = 0
    BY <1>3, <1>4, RefsAre
  <2> QED BY <2>1, <2>2 DEF OwnersRight, OneOwner
<1> QED BY <1>1, <1>2, <1>3, <1>4, <1>5 DEF FDInv

\* A file while mkfs runs: nobody has its lock, and it is on the disk.
LEMMA ImageFile ==
    ASSUME FDInv, phase = "mkfs", NEW f \in All
    PROVE  /\ iholder[f] = NoOne /\ inode[f] = dinode[f] /\ Kind(f) = "none"
           /\ inode = dinode
BY DEF FDInv, ImageRight, FDTypes, Kind

\* A file that mkfs has written is right when it has no holes and its indirect
\* block is a table.
LEMMA ImageFileRight ==
    ASSUME NEW f \in All, iholder'[f] = NoOne, inode'[f] = dinode'[f], TableRight(f)',
           \A o \in Nat : o < inode'[f].size => Lookup(inode[f], o \div BSIZE)' # 0
    PROVE  FileRight(f)' /\ Kind(f)' = "none"
<1>1. Kind(f)' = "none"
  BY DEF Kind
<1>2. HolderRight(f)' /\ RangeRight(f)' /\ TruncRight(f)' /\ CacheRight(f)'
  BY <1>1 DEF HolderRight, RangeRight, TruncRight, CacheRight
<1>3. NoHoles(f)'
  BY <1>1 DEF NoHoles
<1> QED BY <1>1, <1>2, <1>3 DEF FileRight

\* A step of mkfs that leaves the calls alone and changes file f.
LEMMA ImageKeeps ==
    ASSUME FDInv, phase = "mkfs", NEW f \in All, job' = job, iholder' = iholder,
           FDTypes', ImageRight', OwnersRight', FileRight(f)',
           \A g \in All \ {f} : Same(g)
    PROVE  FDInv'
<1>1. ASSUME NEW g \in All PROVE FileRight(g)'
  BY SameFile DEF FDInv
<1>2. ASSUME NEW q \in Writers PROVE FreshRight(q)'
  BY DEF FDInv, ImageRight, NoJob, FreshRight
<1> QED BY <1>1, <1>2 DEF FDInv

\* The rounded size of the root: its last block is there.
LEMMA RoundedIs ==
    ASSUME NEW s \in Nat, s % BSIZE # 0, s <= MAXFILE * BSIZE
    PROVE  LET r == (s \div BSIZE + 1) * BSIZE IN
           /\ r \in 0..(MAXFILE * BSIZE)
           /\ \A o \in Nat : o < r =>
                o < s \/ \E o2 \in Nat : o2 < s /\ o2 \div BSIZE = o \div BSIZE
<1>1. PICK B \in Nat \ {0} : B = BSIZE
  BY Sizes
<1>2. PICK q \in Nat : q = s \div B
  BY <1>1, DivIs
<1>3. PICK m \in 0..(B - 1) : m = s % B
  BY <1>1, DivIs
<1>4. s = B * q + m /\ m # 0
  BY <1>1, <1>2, <1>3, DivIs
<1>5. PICK c \in Nat : c = B * q
  OBVIOUS
<1>6. (q + 1) * B = s + (B - m)
  <2>1. (q + 1) * B = B * q + B
    OBVIOUS
  <2> QED BY <2>1, <1>4, <1>5
<1>7. PICK M \in Nat : M = MAXFILE * B
  BY <1>1, Sizes
<1>8. s + (B - m) <= M
  <2>1. s # M
    <3> SUFFICES ASSUME s = M PROVE FALSE
      OBVIOUS
    <3>1. PICK mf \in Nat : mf = MAXFILE
      BY Sizes
    <3>2. B * mf = mf * B
      OBVIOUS
    <3>3. B * q + m = B * mf + 0
      <4>1. M = mf * B
        BY <3>1, <1>7
      <4>2. PICK d \in Nat : d = B * mf
        OBVIOUS
      <4>3. c + m = d
        BY ONLY <3>2, <4>1, <4>2, <1>4, <1>5, s = M
      <4>4. d + 0 = d
        OBVIOUS
      <4> QED BY <4>2, <4>3, <4>4, <1>5
    <3>4. q = mf
      BY <3>3, DivOne
    <3>5. B * q + 0 = B * q + m
      BY <3>3, <3>4
    <3> HIDE DEF MAXFILE
    <3>6. c + 0 = c + m
      BY <3>5, <1>5
    <3> QED BY <3>6, <1>4
  <2>2. s < M
    BY <2>1, <1>1, <1>7
  <2>3. q < MAXFILE
    BY <2>2, <1>1, <1>2, <1>7, BlockBelow, Sizes
  <2> QED BY <2>3, <1>1, <1>2, <1>3, <1>7, BlockBelow, Sizes
<1>9. ASSUME NEW o \in Nat, o < s + (B - m), ~(o < s)
      PROVE  \E o2 \in Nat : o2 < s /\ o2 \div B = o \div B
  <2>1. o \div B = q
    <3>1. o < s + (B - (s % B)) /\ s <= o
      BY <1>3, <1>9
    <3>2. o \div B = s \div B
      BY <3>1, SameBlock
    <3> QED BY <3>2, <1>2
  <2>2. c < s
    BY <1>4, <1>5
  <2>3. c \div B = q
    <3>1. PICK q2 \in Nat : q2 = c \div B
      BY DivIs
    <3>2. PICK m2 \in 0..(B - 1) : m2 = c % B
      BY DivIs
    <3>3. c = B * (c \div B) + (c % B)
      BY DivIs
    <3>5. B * q2 + m2 = B * q + 0
      BY <3>1, <3>2, <3>3, <1>5
    <3>4. q2 = q
      BY <3>5, DivOne
    <3> QED BY <3>1, <3>4
  <2> QED BY <2>1, <2>2, <2>3
<1>10. PICK r \in Nat : r = s + (B - m)
  BY <1>3
<1>11. r \in 0..M /\ (s \div BSIZE + 1) * BSIZE = r /\ M = MAXFILE * BSIZE
  BY <1>1, <1>2, <1>6, <1>7, <1>8, <1>10
<1>12. ASSUME NEW o \in Nat, o < r
       PROVE  o < s \/ \E o2 \in Nat : o2 < s /\ o2 \div BSIZE = o \div BSIZE
  BY <1>1, <1>9, <1>10, <1>12
<1> QED BY <1>11, <1>12

\* The end of mkfs: what it gave out is marked.
LEMMA MkfsEndKeeps ==
    ASSUME FDInv, MkfsEnd
    PROVE  FDInv'
<1>1. /\ phase = "mkfs" /\ phase' = "run" /\ bitmap' = 1..(freeblock - 1)
      /\ freeblock' = freeblock /\ block' = block /\ iholder' = iholder /\ job' = job
      /\ inode' = dinode' /\ FDTypes /\ Root \in All
  BY Sizes DEF MkfsEnd, Marked, FDInv
<1>2. PICK s \in Nat : s = inode[Root].size
  BY <1>1, InodeIs
<1>3. /\ inode = dinode /\ s <= MAXFILE * BSIZE /\ s % BSIZE # 0 /\ inode \in [All -> DInodes]
  BY <1>1, <1>2, ImageFile, InodeIs DEF MkfsEnd, FDTypes
<1>4. PICK r \in 0..(MAXFILE * BSIZE) :
        /\ r = (s \div BSIZE + 1) * BSIZE
        /\ \A o \in Nat : o < r =>
             o < s \/ \E o2 \in Nat : o2 < s /\ o2 \div BSIZE = o \div BSIZE
  BY <1>3, RoundedIs
<1>5. /\ inode' \in [All -> DInodes] /\ inode'[Root].size = r
      /\ inode'[Root].addrs = inode[Root].addrs
      /\ \A g \in All \ {Root} : inode'[g] = inode[g]
  <2>1. inode' = [inode EXCEPT ![Root].size = r]
    BY <1>1, <1>2, <1>3, <1>4 DEF MkfsEnd, FDTypes
  <2> QED BY ONLY <2>1, <1>1, <1>3, r \in 0..(MAXFILE * BSIZE) DEF DInodes
<1>6. freeblock \in Nat \ {0} /\ freeblock <= NBlocks + 1 /\ bitmap' \subseteq Data
  <2>1. freeblock \in Nat \ {0} /\ freeblock <= ImageBlocks + 1
    BY <1>1 DEF FDInv, ImageRight, FDTypes
  <2> QED BY <2>1, <1>1, Sizes DEF Data
<1>7. FDTypes'
  BY <1>1, <1>5, <1>6 DEF FDTypes
<1>8. ImageRight'
  BY <1>1 DEF ImageRight
<1>9. \A g \in All \ {Root} : Same(g)
  BY <1>1, <1>3, <1>5 DEF Same
<1>10. /\ \A n : Lookup(inode[Root], n)' = Lookup(inode[Root], n)
       /\ Kind(Root) = "none" /\ iholder[Root] = NoOne
  BY <1>1, <1>5, ImageFile DEF Lookup
<1>11. FileRight(Root)' /\ Kind(Root)' = "none"
  <2>1. TableRight(Root)'
    BY <1>1, <1>5, OneLock DEF FDInv, FileRight, TableRight
  <2>2. ASSUME NEW o \in Nat, o < r, NEW n, n = o \div BSIZE
        PROVE  Lookup(inode[Root], n)' # 0
    <3>1. PICK o2 \in Nat : o2 < s /\ o2 \div BSIZE = o \div BSIZE
      BY <1>4, <2>2
    <3>2. NoHoles(Root)
      BY <1>1 DEF FDInv, FileRight
    <3>3. Lookup(inode[Root], o2 \div BSIZE) # 0
      BY <3>1, <3>2, <1>2, <1>10 DEF NoHoles
    <3> QED BY <3>1, <3>3, <2>2, <1>10
  <2> QED BY <2>1, <2>2, <1>1, <1>5, <1>10, ImageFileRight
<1>12. OwnersRight'
  <2>1. OneOwner(Refs, InHand, Used) /\ Used' = Used
    BY <1>1 DEF FDInv, OwnersRight, Used
  <2>2. \A j \in Slots : Ref(Root, j)' = Ref(Root, j)
    BY <1>1, <1>5, <1>10, <1>11 DEF Ref
  <2>3. \A g \in All, j \in Slots : Ref(g, j)' = Ref(g, j)
    BY <2>2, <1>9, SameFile
  <2>4. /\ \A g \in All, j \in Slots : Refs'[g][j] = Refs[g][j]
        /\ \A q \in Writers : InHand'[q] = InHand[q]
    BY <2>3, <1>1, RefsAre
  <2>5. OneOwner(Refs', InHand', Used)
    BY <2>1, <2>4, OwnerSame
  <2> QED BY <2>1, <2>5 DEF OwnersRight
<1> QED BY <1>1, <1>7, <1>8, <1>9, <1>11, <1>12, ImageKeeps

\* A part that lies in one block is not longer than what is left of it.
LEMMA PartFits ==
    ASSUME NEW off \in Nat, NEW n \in Nat \ {0}, n = PartLen(off, off + n),
           off \div BSIZE < MAXFILE
    PROVE  /\ off + n \in 0..(MAXFILE * BSIZE)
           /\ \A o \in Nat : o < off + n => o < off \/ o \div BSIZE = off \div BSIZE
<1>1. PICK B \in Nat \ {0} : B = BSIZE
  BY Sizes
<1>2. PICK m \in 0..(B - 1) : m = off % B
  BY <1>1, DivIs
<1>3. n <= B - m
  BY <1>1, <1>2 DEF PartLen
<1>4. PICK M \in Nat : M = MAXFILE * B
  BY <1>1, Sizes
<1>5. off + (B - m) <= M
  BY <1>1, <1>2, <1>4, BlockBelow, Sizes
<1>6. off + n \in 0..M
  BY <1>2, <1>3, <1>5
<1>7. ASSUME NEW o \in Nat, o < off + n, ~(o < off) PROVE o \div B = off \div B
  <2>1. off <= o /\ o < off + (B - (off % B))
    BY <1>2, <1>3, <1>7
  <2> QED BY <2>1, SameBlock
<1> QED BY <1>1, <1>4, <1>6, <1>7

\* n words are entered in block bn of file f: block x, and t2 the indirect block.
EntersOne(l, bn, x, t, t2, z) ==
    \/ x = l /\ t2 = t /\ freeblock' = z /\ (bn >= NDIRECT => t # 0)
    \/ l = 0 /\ x = z /\ t2 = t /\ freeblock' = z + 1 /\ (bn >= NDIRECT => t # 0)
    \/ l = 0 /\ x = z + 1 /\ t2 = z /\ t = 0 /\ freeblock' = z + 2 /\ bn >= NDIRECT

Appended(f, n, word, bn, x, t, t2, z) ==
    /\ bn = inode[f].size \div BSIZE /\ t = inode[f].addrs[NDIRECT] /\ z = freeblock
    /\ EntersOne(Lookup(inode[f], bn), bn, x, t, t2, z)
    /\ x <= ImageBlocks /\ inode[f].size + n \in 0..(MAXFILE * BSIZE)
    /\ \A o \in Nat : o < inode[f].size + n => o < inode[f].size \/ o \div BSIZE = bn
    /\ inode' = [inode EXCEPT ![f] =
            [addrs |-> IF bn < NDIRECT THEN [inode[f].addrs EXCEPT ![bn] = x]
                       ELSE [inode[f].addrs EXCEPT ![NDIRECT] = t2],
             size |-> inode[f].size + n]]
    /\ block' = [b \in Data |->
            CASE b = x -> Copied(block[x], inode[f].size, n, word)
              [] b = t2 /\ bn >= NDIRECT -> [block[b] EXCEPT ![bn - NDIRECT] = x]
              [] OTHER -> block[b]]

\* The block that iappend() writes to, a new one or one that the file has.
LEMMA IappendIs ==
    ASSUME FDInv, NEW f \in All, NEW n \in Nat \ {0}, NEW word \in FileWords,
           Iappend(f, n, word)
    PROVE  /\ phase = "mkfs" /\ phase' = phase /\ bitmap' = bitmap /\ iholder' = iholder
           /\ job' = job /\ inode' = dinode'
           /\ \E bn \in 0..(MAXFILE - 1), x \in Data, t \in Data \cup {0}, t2 \in Data \cup {0},
                 z \in Nat \ {0} : Appended(f, n, word, bn, x, t, t2, z)
<1>1. /\ phase = "mkfs" /\ inode = dinode /\ FDTypes
  BY ImageFile DEF FDInv, Iappend
<1>2. PICK off \in Nat : off = inode[f].size
  BY <1>1, InodeIs
<1>3. PICK t \in Data \cup {0} : t = inode[f].addrs[NDIRECT]
  BY <1>1, InodeIs
<1>4. PICK z \in Nat \ {0} : z = freeblock
  BY <1>1 DEF FDTypes
<1>5. PICK bn \in 0..(MAXFILE - 1) : bn = off \div BSIZE
  <2>1. off \div BSIZE < MAXFILE
    BY <1>1, <1>2 DEF Iappend
  <2>2. off \div BSIZE \in Nat
    BY DivIs, Sizes
  <2> QED BY <2>1, <2>2, Sizes
<1>6. PICK l \in Data \cup {0} : l = Lookup(inode[f], bn)
  <2>1. Lookup(inode[f], bn) = Ref(f, Place(bn)) /\ Place(bn) \in Slots
    BY <1>1, ImageFile, LookupIs, PlaceIs
  <2> QED BY <2>1, RefsAre DEF FDInv, OwnersRight, OneOwner
<1>7. PICK ind \in BOOLEAN : ind <=> NeedsIndirect(inode[f], bn)
  OBVIOUS
<1>8. (ind <=> bn >= NDIRECT /\ t = 0) /\ (ind => l = 0) /\ NDIRECT \in Nat
  BY <1>3, <1>6, <1>7, Sizes DEF NeedsIndirect, Lookup
<1>9. PICK x : x = IF l = 0 THEN z + (IF ind THEN 1 ELSE 0) ELSE l
  OBVIOUS
<1>10. PICK t2 : t2 = IF ind THEN z ELSE t
  OBVIOUS
<1>11. /\ phase' = phase /\ bitmap' = bitmap /\ iholder' = iholder /\ job' = job
       /\ inode' = dinode' /\ off \div BSIZE < MAXFILE /\ n = PartLen(off, off + n)
       /\ x <= ImageBlocks
       /\ freeblock' = z + (IF ind THEN 1 ELSE 0) + (IF l = 0 THEN 1 ELSE 0)
       /\ block' = [b \in Data |->
                        CASE b = x -> Copied(block[x], off, n, word)
                          [] b = t2 /\ bn >= NDIRECT -> [block[b] EXCEPT ![bn - NDIRECT] = x]
                          [] OTHER -> block[b]]
       /\ inode' = [inode EXCEPT ![f] =
                        [addrs |-> IF bn < NDIRECT THEN [inode[f].addrs EXCEPT ![bn] = x]
                                   ELSE [inode[f].addrs EXCEPT ![NDIRECT] = t2],
                         size |-> off + n]]
  <2>1. /\ dinode[f].size = off /\ dinode[f].size \div BSIZE = bn
        /\ dinode[f].addrs[NDIRECT] = t /\ dinode[f] = inode[f]
        /\ Lookup(dinode[f], dinode[f].size \div BSIZE) = l
        /\ NeedsIndirect(dinode[f], dinode[f].size \div BSIZE) <=> ind
    BY <1>1, <1>2, <1>3, <1>5, <1>6, <1>7
  <2>2. /\ phase' = phase /\ bitmap' = bitmap /\ iholder' = iholder /\ job' = job
        /\ inode' = dinode' /\ off \div BSIZE < MAXFILE /\ n = PartLen(off, off + n)
    BY <2>1, <1>5 DEF Iappend
  <2>3. x = IF Lookup(dinode[f], dinode[f].size \div BSIZE) = 0
            THEN freeblock + (IF NeedsIndirect(dinode[f], dinode[f].size \div BSIZE) THEN 1 ELSE 0)
            ELSE Lookup(dinode[f], dinode[f].size \div BSIZE)
    BY <2>1, <1>4, <1>9
  <2>4. t2 = IF NeedsIndirect(dinode[f], dinode[f].size \div BSIZE) THEN freeblock
             ELSE dinode[f].addrs[NDIRECT]
    BY <2>1, <1>4, <1>10
  <2>5. x <= ImageBlocks
    BY <2>3 DEF Iappend
  <2>6. freeblock' = z + (IF ind THEN 1 ELSE 0) + (IF l = 0 THEN 1 ELSE 0)
    <3>1. freeblock' = freeblock
            + (IF NeedsIndirect(dinode[f], dinode[f].size \div BSIZE) THEN 1 ELSE 0)
            + (IF Lookup(dinode[f], dinode[f].size \div BSIZE) = 0 THEN 1 ELSE 0)
      BY DEF Iappend
    <3> QED BY <3>1, <2>1, <1>4
  <2>7. block' = [b \in Data |->
                        CASE b = x -> Copied(block[x], off, n, word)
                          [] b = t2 /\ bn >= NDIRECT -> [block[b] EXCEPT ![bn - NDIRECT] = x]
                          [] OTHER -> block[b]]
    <3>1. block' = [b \in Data |->
                        CASE b = x -> Copied(block[x], dinode[f].size, n, word)
                          [] b = t2 /\ dinode[f].size \div BSIZE >= NDIRECT ->
                                [block[b] EXCEPT ![(dinode[f].size \div BSIZE) - NDIRECT] = x]
                          [] OTHER -> block[b]]
      BY <2>3, <2>4 DEF Iappend
    <3> QED BY <3>1, <2>1
  <2>8. inode' = [inode EXCEPT ![f] =
                        [addrs |-> IF bn < NDIRECT THEN [inode[f].addrs EXCEPT ![bn] = x]
                                   ELSE [inode[f].addrs EXCEPT ![NDIRECT] = t2],
                         size |-> off + n]]
    <3>1. dinode' = [dinode EXCEPT ![f] =
            [addrs |-> IF dinode[f].size \div BSIZE < NDIRECT
                       THEN [dinode[f].addrs EXCEPT ![dinode[f].size \div BSIZE] = x]
                       ELSE [dinode[f].addrs EXCEPT ![NDIRECT] = t2],
             size |-> dinode[f].size + n]]
      BY <2>3, <2>4 DEF Iappend
    <3> QED BY <3>1, <2>1, <2>2, <1>1
  <2> QED BY <2>2, <2>5, <2>6, <2>7, <2>8
<1>12. /\ off + n \in 0..(MAXFILE * BSIZE)
       /\ \A o \in Nat : o < off + n => o < off \/ o \div BSIZE = bn
  BY <1>5, <1>11, PartFits
<1>13. x \in Data /\ t2 \in Data \cup {0} /\ EntersOne(l, bn, x, t, t2, z)
  <2>0. /\ freeblock' = z + (IF ind THEN 1 ELSE 0) + (IF l = 0 THEN 1 ELSE 0)
        /\ x <= ImageBlocks
    BY <1>11
  <2>1. CASE l # 0
    BY ONLY <2>0, <2>1, <1>8, <1>9, <1>10, l \in Data \cup {0}, t \in Data \cup {0},
            z \in Nat \ {0} DEF EntersOne
  <2>2. CASE l = 0 /\ ~ind
    <3>1. x = z /\ freeblock' = z + 1 /\ t2 = t
      BY ONLY <2>0, <2>2, <1>9, <1>10, z \in Nat \ {0}
    <3>2. z \in Data
      BY ONLY <3>1, <2>0, Sizes, z \in Nat \ {0} DEF Data
    <3> QED BY <2>2, <3>1, <3>2, <1>8 DEF EntersOne
  <2>3. CASE l = 0 /\ ind
    <3>1. x = z + 1 /\ freeblock' = z + 2 /\ t2 = z
      BY ONLY <2>0, <2>3, <1>9, <1>10, z \in Nat \ {0}
    <3>2. z \in Data /\ z + 1 \in Data
      BY ONLY <3>1, <2>0, Sizes, z \in Nat \ {0} DEF Data
    <3> QED BY <2>3, <3>1, <3>2, <1>8 DEF EntersOne
  <2> QED BY <2>1, <2>2, <2>3
<1>14. Appended(f, n, word, bn, x, t, t2, z)
  BY <1>2, <1>3, <1>4, <1>5, <1>6, <1>11, <1>12, <1>13 DEF Appended
<1>15. /\ phase = "mkfs" /\ phase' = phase /\ bitmap' = bitmap /\ iholder' = iholder
       /\ job' = job /\ inode' = dinode'
  BY <1>1, <1>11
<1> QED BY <1>13, <1>14, <1>15, Zenon

\* What iappend() changes: one block of data, the indirect block when the place
\* is there, and the inode.
AppendChanges(f, n, bn, x, t, t2, z) ==
    /\ \A g \in All : inode[g].addrs[NDIRECT] # 0 =>
         /\ inode[g].addrs[NDIRECT] \in 1..(z - 1) /\ inode[g].addrs[NDIRECT] # x
         /\ g # f => inode[g].addrs[NDIRECT] # t2
    /\ x # t2 /\ (t # 0 => x # t)
    /\ block' \in [Data -> [0..(BSIZE - 1) -> FileWords]]
    /\ \A y \in Data : y # x /\ ~(y = t2 /\ bn >= NDIRECT) => block'[y] = block[y]
    /\ bn >= NDIRECT => t2 \in Data /\ block'[t2] = [block[t2] EXCEPT ![bn - NDIRECT] = x]
    /\ inode' \in [All -> DInodes] /\ inode'[f].size = inode[f].size + n
    /\ \A g \in All \ {f} : inode'[g] = inode[g]
    /\ \A i \in 0..NDIRECT : inode'[f].addrs[i] =
             IF i = bn THEN (IF bn < NDIRECT THEN x ELSE t2)
             ELSE IF i = NDIRECT THEN t2 ELSE inode[f].addrs[i]

\* iappend() changes that, and nothing else.
LEMMA AppendedIs ==
    ASSUME FDInv, NEW f \in All, NEW n \in Nat \ {0}, NEW word \in FileWords,
           Iappend(f, n, word),
           NEW bn \in 0..(MAXFILE - 1), NEW x \in Data, NEW t \in Data \cup {0},
           NEW t2 \in Data \cup {0}, NEW z \in Nat \ {0},
           Appended(f, n, word, bn, x, t, t2, z)
    PROVE  AppendChanges(f, n, bn, x, t, t2, z)
<1>1. Appended(f, n, word, bn, x, t, t2, z)
  OBVIOUS
<1>0. /\ bn = inode[f].size \div BSIZE /\ t = inode[f].addrs[NDIRECT] /\ z = freeblock
      /\ EntersOne(Lookup(inode[f], bn), bn, x, t, t2, z)
      /\ x <= ImageBlocks /\ inode[f].size + n \in 0..(MAXFILE * BSIZE)
      /\ \A o \in Nat : o < inode[f].size + n => o < inode[f].size \/ o \div BSIZE = bn
  BY <1>1 DEF Appended
<1>2. /\ phase = "mkfs" /\ phase' = phase /\ bitmap' = bitmap /\ iholder' = iholder
      /\ job' = job /\ inode' = dinode' /\ FDTypes
      /\ \A g \in All : iholder[g] = NoOne /\ inode[g] = dinode[g] /\ Kind(g) = "none"
  BY IappendIs, ImageFile DEF FDInv
<1>3. /\ freeblock <= ImageBlocks + 1 /\ ImageBlocks \in Nat
      /\ \A b \in Data : b >= z => block[b] = Zeroes
      /\ Used = 1..(z - 1) /\ OneOwner(Refs, InHand, Used)
      /\ block \in [Data -> [0..(BSIZE - 1) -> FileWords]] /\ inode \in [All -> DInodes]
      /\ inode[f].addrs \in [0..NDIRECT -> Data \cup {0}]
      /\ NDIRECT \in Nat \ {0} /\ BSIZE \in Nat \ {0} /\ MAXFILE = NDIRECT + BSIZE
      /\ 0 \notin Data /\ Data \subseteq Nat /\ Data \subseteq FileWords
      /\ \A w \in 0..(BSIZE - 1) : Zeroes[w] = 0
      /\ inode[f].size \in Nat
  BY <1>0, <1>2, Sizes, InodeIs DEF FDInv, ImageRight, OwnersRight, Used, FDTypes, FileWords, Zeroes
<1>4. PICK l : l = Lookup(inode[f], bn)
  OBVIOUS
<1>5. PICK pl \in Slots : pl = Place(bn)
  BY PlaceIs
<1>6. /\ l = Ref(f, pl) /\ pl # NDIRECT /\ NDIRECT \in Slots /\ Ref(f, NDIRECT) = t
      /\ bn < NDIRECT => pl = bn /\ bn \in 0..NDIRECT
      /\ ~(bn < NDIRECT) => /\ pl = bn + 1 /\ ~(pl <= NDIRECT)
                            /\ pl - NDIRECT - 1 = bn - NDIRECT
                            /\ bn - NDIRECT \in 0..(BSIZE - 1)
  <2>1. Ref(f, NDIRECT) = t
    <3>1. NDIRECT \in 0..NDIRECT
      BY <1>3
    <3> QED BY <3>1, <1>0, AddrIs
  <2>2. l = Ref(f, pl)
    BY <1>2, <1>4, <1>5, LookupIs
  <2>3. /\ pl # NDIRECT /\ NDIRECT \in Slots /\ pl \in Nat
        /\ bn < NDIRECT => pl = bn /\ bn \in 0..NDIRECT
        /\ ~(bn < NDIRECT) => /\ pl = bn + 1 /\ pl > NDIRECT
                              /\ pl - NDIRECT - 1 = bn - NDIRECT
                              /\ bn - NDIRECT \in 0..(BSIZE - 1)
    BY <1>5, PlaceIs DEF Slots
  <2>4. ~(bn < NDIRECT) => ~(pl <= NDIRECT)
    BY <2>3, <1>3
  <2> QED BY <2>1, <2>2, <2>3, <2>4
\* What is written to is no indirect block.
<1>7. \A g \in All : inode[g].addrs[NDIRECT] # 0 =>
            /\ inode[g].addrs[NDIRECT] \in 1..(z - 1) /\ inode[g].addrs[NDIRECT] # x
            /\ g # f => inode[g].addrs[NDIRECT] # t2
  <2> TAKE g \in All
  <2> SUFFICES ASSUME inode[g].addrs[NDIRECT] # 0, NEW y, y = inode[g].addrs[NDIRECT]
               PROVE  y \in 1..(z - 1) /\ y # x /\ (g # f => y # t2)
    OBVIOUS
  <2>1. /\ y \in 1..(z - 1) /\ y \in Nat
        /\ \A h \in All, i \in Slots : Ref(h, i) = y => h = g /\ i = NDIRECT
    BY <1>2, <1>3, NoTable DEF FDInv
  <2>2. y # x
    BY <2>1, <1>0, <1>4, <1>5, <1>6 DEF EntersOne
  <2>3. g # f => y # t2
    BY <2>1, <1>0, <1>6 DEF EntersOne
  <2> QED BY <2>1, <2>2, <2>3
<1>8. x # t2 /\ (t # 0 => x # t)
  <2>1. t # 0 => x # t
    BY <1>0, <1>7
  <2>2. x # t2
    <3>1. CASE t2 = t
      BY <2>1, <3>1, <1>3
    <3>2. CASE t2 = z /\ x = z + 1
      BY ONLY <3>2, z \in Nat \ {0}
    <3> QED BY <3>1, <3>2, <1>0 DEF EntersOne
  <2> QED BY <2>1, <2>2
\* The blocks.
<1>9. /\ block' \in [Data -> [0..(BSIZE - 1) -> FileWords]]
      /\ \A y \in Data : y # x /\ ~(y = t2 /\ bn >= NDIRECT) => block'[y] = block[y]
      /\ bn >= NDIRECT => t2 \in Data /\ block'[t2] = [block[t2] EXCEPT ![bn - NDIRECT] = x]
  <2>1. block'[x] \in [0..(BSIZE - 1) -> FileWords]
    <3>1. block'[x] = Copied(block[x], inode[f].size, n, word)
      BY <1>1, <1>8 DEF Appended
    <3>2. block[x] \in [0..(BSIZE - 1) -> FileWords]
      BY <1>3
    <3> QED BY <3>1, <3>2, CopiedIs
  <2>2. bn >= NDIRECT => t2 \in Data
    <3>1. bn >= NDIRECT => t2 # 0
      BY <1>0 DEF EntersOne
    <3> QED BY <3>1
  <2>3. bn >= NDIRECT => block'[t2] = [block[t2] EXCEPT ![bn - NDIRECT] = x]
    BY <2>2, <1>1, <1>8 DEF Appended
  <2>4. \A y \in Data : y # x /\ ~(y = t2 /\ bn >= NDIRECT) => block'[y] = block[y]
    BY <1>1 DEF Appended
  <2>5. ASSUME NEW y \in Data PROVE block'[y] \in [0..(BSIZE - 1) -> FileWords]
    <3>1. CASE y = x
      BY <3>1, <2>1
    <3>2. CASE y = t2 /\ bn >= NDIRECT /\ y # x
      <4>1. block[y] \in [0..(BSIZE - 1) -> FileWords] /\ x \in FileWords
        BY <1>3
      <4> QED BY <3>2, <2>3, <4>1
    <3>3. CASE y # x /\ ~(y = t2 /\ bn >= NDIRECT)
      BY <3>3, <2>4, <1>3
    <3> QED BY <3>1, <3>2, <3>3
  <2>6. block' = [y \in Data |-> block'[y]]
    BY <1>1 DEF Appended
  <2>7. block' \in [Data -> [0..(BSIZE - 1) -> FileWords]]
    BY <2>5, <2>6
  <2> QED BY <2>2, <2>3, <2>4, <2>7
\* The inode.
<1>10. /\ inode' \in [All -> DInodes] /\ inode'[f].size = inode[f].size + n
       /\ \A g \in All \ {f} : inode'[g] = inode[g]
       /\ \A i \in 0..NDIRECT : inode'[f].addrs[i] =
                IF i = bn THEN (IF bn < NDIRECT THEN x ELSE t2)
                ELSE IF i = NDIRECT THEN t2 ELSE inode[f].addrs[i]
  <2>1. PICK A : A = IF bn < NDIRECT THEN [inode[f].addrs EXCEPT ![bn] = x]
                     ELSE [inode[f].addrs EXCEPT ![NDIRECT] = t2]
    OBVIOUS
  <2>2. A \in [0..NDIRECT -> Data \cup {0}]
    BY <2>1, <1>3
  <2>3. inode' = [inode EXCEPT ![f] = [addrs |-> A, size |-> inode[f].size + n]]
    BY <2>1, <1>1 DEF Appended
  <2>4. PICK s \in 0..(MAXFILE * BSIZE) : s = inode[f].size + n
    BY <1>0
  <2>5. [addrs |-> A, size |-> s] \in DInodes
    BY <2>2, <2>4 DEF DInodes
  <2>6. /\ inode' \in [All -> DInodes] /\ inode'[f].size = s /\ inode'[f].addrs = A
        /\ \A g \in All \ {f} : inode'[g] = inode[g]
    BY <2>3, <2>4, <2>5, <1>3
  <2>7. bn < NDIRECT => t2 = t /\ bn \in 0..NDIRECT
    <3>1. bn \in Nat /\ NDIRECT \in Nat
      BY <1>3
    <3>2. bn < NDIRECT => ~(bn >= NDIRECT) /\ bn \in 0..NDIRECT
      BY ONLY <3>1
    <3> QED BY <3>2, <1>0 DEF EntersOne
  <2>8. ASSUME NEW i \in 0..NDIRECT
        PROVE  A[i] = IF i = bn THEN (IF bn < NDIRECT THEN x ELSE t2)
                      ELSE IF i = NDIRECT THEN t2 ELSE inode[f].addrs[i]
    <3>1. CASE bn < NDIRECT
      BY <3>1, <2>1, <2>7, <1>0, <1>3
    <3>2. CASE ~(bn < NDIRECT)
      <4>1. A = [inode[f].addrs EXCEPT ![NDIRECT] = t2]
        BY <3>2, <2>1
      <4>2. i = NDIRECT => A[i] = t2
        BY <4>1, <1>3
      <4>3. i # NDIRECT => A[i] = inode[f].addrs[i]
        BY <4>1, <1>3
      <4>4. i = bn => i = NDIRECT
        BY <3>2, <1>3
      <4> QED BY <3>2, <4>2, <4>3, <4>4
    <3> QED BY <3>1, <3>2
  <2> QED BY <2>4, <2>6, <2>8
<1> QED BY <1>7, <1>8, <1>9, <1>10 DEF AppendChanges

\* iappend(): the blocks it adds to a file are those that were never given out,
\* and are clear.
LEMMA IappendKeeps ==
    ASSUME FDInv, NEW f \in All, NEW n \in Nat \ {0}, NEW word \in FileWords,
           Iappend(f, n, word)
    PROVE  FDInv'
<1>1. PICK bn \in 0..(MAXFILE - 1), x \in Data, t \in Data \cup {0}, t2 \in Data \cup {0},
           z \in Nat \ {0} : Appended(f, n, word, bn, x, t, t2, z)
  BY IappendIs, Zenon
<1>0. /\ bn = inode[f].size \div BSIZE /\ t = inode[f].addrs[NDIRECT] /\ z = freeblock
      /\ EntersOne(Lookup(inode[f], bn), bn, x, t, t2, z)
      /\ x <= ImageBlocks /\ inode[f].size + n \in 0..(MAXFILE * BSIZE)
      /\ \A o \in Nat : o < inode[f].size + n => o < inode[f].size \/ o \div BSIZE = bn
  BY <1>1 DEF Appended
<1>2. /\ phase = "mkfs" /\ phase' = phase /\ bitmap' = bitmap /\ iholder' = iholder
      /\ job' = job /\ inode' = dinode' /\ FDTypes
      /\ \A g \in All : iholder[g] = NoOne /\ inode[g] = dinode[g] /\ Kind(g) = "none"
  BY IappendIs, ImageFile DEF FDInv
<1>3. /\ freeblock <= ImageBlocks + 1 /\ ImageBlocks \in Nat
      /\ \A b \in Data : b >= z => block[b] = Zeroes
      /\ Used = 1..(z - 1) /\ OneOwner(Refs, InHand, Used)
      /\ block \in [Data -> [0..(BSIZE - 1) -> FileWords]] /\ inode \in [All -> DInodes]
      /\ inode[f].addrs \in [0..NDIRECT -> Data \cup {0}]
      /\ NDIRECT \in Nat \ {0} /\ BSIZE \in Nat \ {0} /\ MAXFILE = NDIRECT + BSIZE
      /\ 0 \notin Data /\ Data \subseteq Nat /\ Data \subseteq FileWords
      /\ \A w \in 0..(BSIZE - 1) : Zeroes[w] = 0
      /\ inode[f].size \in Nat
  BY <1>0, <1>2, Sizes, InodeIs DEF FDInv, ImageRight, OwnersRight, Used, FDTypes, FileWords, Zeroes
<1>4. PICK l : l = Lookup(inode[f], bn)
  OBVIOUS
<1>5. PICK pl \in Slots : pl = Place(bn)
  BY PlaceIs
<1>6. /\ l = Ref(f, pl) /\ pl # NDIRECT /\ NDIRECT \in Slots /\ Ref(f, NDIRECT) = t
      /\ bn < NDIRECT => pl = bn /\ bn \in 0..NDIRECT
      /\ ~(bn < NDIRECT) => /\ pl = bn + 1 /\ ~(pl <= NDIRECT)
                            /\ pl - NDIRECT - 1 = bn - NDIRECT
                            /\ bn - NDIRECT \in 0..(BSIZE - 1)
  <2>1. Ref(f, NDIRECT) = t
    <3>1. NDIRECT \in 0..NDIRECT
      BY <1>3
    <3> QED BY <3>1, <1>0, AddrIs
  <2>2. l = Ref(f, pl)
    BY <1>2, <1>4, <1>5, LookupIs
  <2>3. /\ pl # NDIRECT /\ NDIRECT \in Slots /\ pl \in Nat
        /\ bn < NDIRECT => pl = bn /\ bn \in 0..NDIRECT
        /\ ~(bn < NDIRECT) => /\ pl = bn + 1 /\ pl > NDIRECT
                              /\ pl - NDIRECT - 1 = bn - NDIRECT
                              /\ bn - NDIRECT \in 0..(BSIZE - 1)
    BY <1>5, PlaceIs DEF Slots
  <2>4. ~(bn < NDIRECT) => ~(pl <= NDIRECT)
    BY <2>3, <1>3
  <2> QED BY <2>1, <2>2, <2>3, <2>4
<1>6b. AppendChanges(f, n, bn, x, t, t2, z)
  BY <1>1, AppendedIs, Zenon
<1>7. \A g \in All : inode[g].addrs[NDIRECT] # 0 =>
            /\ inode[g].addrs[NDIRECT] \in 1..(z - 1) /\ inode[g].addrs[NDIRECT] # x
            /\ g # f => inode[g].addrs[NDIRECT] # t2
  BY <1>6b DEF AppendChanges
<1>8. x # t2 /\ (t # 0 => x # t)
  BY <1>6b DEF AppendChanges
<1>9. /\ block' \in [Data -> [0..(BSIZE - 1) -> FileWords]]
      /\ \A y \in Data : y # x /\ ~(y = t2 /\ bn >= NDIRECT) => block'[y] = block[y]
      /\ bn >= NDIRECT => t2 \in Data /\ block'[t2] = [block[t2] EXCEPT ![bn - NDIRECT] = x]
  BY <1>6b DEF AppendChanges
<1>10. /\ inode' \in [All -> DInodes] /\ inode'[f].size = inode[f].size + n
       /\ \A g \in All \ {f} : inode'[g] = inode[g]
       /\ \A i \in 0..NDIRECT : inode'[f].addrs[i] =
                IF i = bn THEN (IF bn < NDIRECT THEN x ELSE t2)
                ELSE IF i = NDIRECT THEN t2 ELSE inode[f].addrs[i]
  BY <1>6b DEF AppendChanges
<1>11. PICK s \in Nat : s = inode[f].size
  BY <1>3
<1>12. PICK fb \in Nat : fb = freeblock' /\ fb \in {z, z + 1, z + 2}
  BY <1>0 DEF EntersOne
<1>13. /\ x < fb /\ fb <= ImageBlocks + 1 /\ fb >= z /\ fb # 0
       /\ bn >= NDIRECT => t2 < fb
  <2>1. ImageBlocks \in Nat /\ z <= ImageBlocks + 1 /\ x <= ImageBlocks /\ x \in Nat
    BY <1>0, <1>3
  <2>2. CASE x = l /\ t2 = t /\ fb = z /\ (bn >= NDIRECT => t # 0)
    <3>1. x \in Used
      <4>1. OneOwner(Refs, InHand, Used) /\ x # 0
        BY <1>3
      <4>2. Refs[f][pl] = x
        BY <2>2, <1>6, RefsAre
      <4>3. Refs[f][pl] \in Used \cup {0}
        BY <4>1 DEF OneOwner
      <4> QED BY <4>1, <4>2, <4>3
    <3>2. x < z
      BY <3>1, <2>1, <1>3
    <3>3. t # 0 => t < z
      BY <1>0, <1>7
    <3> QED BY <2>1, <2>2, <3>2, <3>3
  <2>3. CASE l = 0 /\ x = z /\ t2 = t /\ fb = z + 1 /\ (bn >= NDIRECT => t # 0)
    <3>1. t # 0 => t \in 1..(z - 1)
      BY <1>0, <1>7
    <3>2. t # 0 => t < z + 1
      BY ONLY <3>1, z \in Nat \ {0}
    <3> QED BY <2>1, <2>3, <3>2
  <2>4. CASE l = 0 /\ x = z + 1 /\ t2 = z /\ t = 0 /\ fb = z + 2 /\ bn >= NDIRECT
    BY ONLY <2>1, <2>4, z \in Nat \ {0}
  <2> QED BY <2>2, <2>3, <2>4, <1>0, <1>4, <1>12 DEF EntersOne
<1>14. FDTypes'
  BY <1>2, <1>9, <1>10, <1>12, <1>13 DEF FDTypes
<1>15. ImageRight'
  <2>1. ASSUME NEW b \in Data, b >= fb PROVE block'[b] = Zeroes
    <3>1. b # x /\ ~(b = t2 /\ bn >= NDIRECT) /\ b >= z
      <4>1. b \in Nat /\ x \in Nat
        BY <1>3
      <4> QED BY <4>1, <2>1, <1>13
    <3> QED BY <3>1, <1>3, <1>9
  <2>2. \A g \in All : iholder'[g] = NoOne /\ inode'[g] = dinode'[g]
    BY <1>2
  <2>3. \A q \in Writers : job'[q] = NoJob
    BY <1>2 DEF FDInv, ImageRight
  <2> QED BY <2>1, <2>2, <2>3, <1>12, <1>13 DEF ImageRight
<1>16. \A g \in All \ {f} : Same(g)
  <2> TAKE g \in All \ {f}
  <2>1. inode'[g] = inode[g] /\ dinode'[g] = dinode[g] /\ iholder'[g] = iholder[g]
    BY <1>2, <1>10
  <2>2. inode[g].addrs[NDIRECT] # 0 =>
            block'[inode[g].addrs[NDIRECT]] = block[inode[g].addrs[NDIRECT]]
    <3> SUFFICES ASSUME NEW y, y = inode[g].addrs[NDIRECT], y # 0 PROVE block'[y] = block[y]
      OBVIOUS
    <3>1. y \in Data /\ y # x /\ y # t2
      BY <1>2, <1>7, InodeIs
    <3> QED BY <3>1, <1>9
  <2> QED BY <2>1, <2>2, <1>2 DEF Same
\* The indirect block and what it has.
<1>17. inode'[f].addrs[NDIRECT] = t2 /\ Kind(f) = "none" /\ Kind(f)' = "none"
  <2>1. NDIRECT \in 0..NDIRECT
    BY <1>3
  <2> QED BY <2>1, <1>2, <1>10 DEF Kind
<1>18. ASSUME NEW w \in 0..(BSIZE - 1), t2 # 0
       PROVE  block'[t2][w] = IF bn >= NDIRECT /\ w = bn - NDIRECT THEN x
                              ELSE IF t = 0 THEN 0 ELSE block[t][w]
  <2>1. CASE ~(bn >= NDIRECT)
    <3>1. t2 = t /\ t \in Data
      BY <2>1, <1>0, <1>18 DEF EntersOne
    <3> QED BY <2>1, <3>1, <1>8, <1>9, <1>18
  <2>2. CASE bn >= NDIRECT
    <3>1. /\ block'[t2] = [block[t2] EXCEPT ![bn - NDIRECT] = x] /\ t2 \in Data
          /\ block[t2] \in [0..(BSIZE - 1) -> FileWords]
      BY <2>2, <1>3, <1>9
    <3>2. block'[t2][w] = IF w = bn - NDIRECT THEN x ELSE block[t2][w]
      BY <3>1
    <3>3. CASE t2 = t
      BY <2>2, <3>2, <3>3, <1>18
    <3>4. CASE t2 = z /\ t = 0
      <4>1. block[t2] = Zeroes
        BY <3>1, <3>4, <1>3
      <4> QED BY <2>2, <3>2, <3>4, <4>1, <1>3
    <3> QED BY <3>3, <3>4, <1>0 DEF EntersOne
  <2> QED BY <2>1, <2>2
<1>19. ASSUME NEW j \in Slots
       PROVE  Ref(f, j)' = IF j = pl THEN x ELSE IF j = NDIRECT THEN t2 ELSE Ref(f, j)
  <2>1. CASE j <= NDIRECT
    <3>1. j \in 0..NDIRECT
      BY <2>1 DEF Slots
    <3>2. Ref(f, j)' = inode'[f].addrs[j] /\ Ref(f, j) = inode[f].addrs[j]
      BY <2>1 DEF Ref
    <3>3. CASE bn < NDIRECT
      BY <3>1, <3>2, <3>3, <1>6, <1>10
    <3>4. CASE ~(bn < NDIRECT)
      <4>1. j # pl
        BY <2>1, <3>4, <1>6
      <4>2. j = bn => j = NDIRECT
        BY <2>1, <3>4, <1>3
      <4> QED BY <3>1, <3>2, <3>4, <4>1, <4>2, <1>10
    <3> QED BY <3>3, <3>4
  <2>2. CASE ~(j <= NDIRECT)
    <3>0. j \in 0..(NDIRECT + BSIZE) /\ NDIRECT \in Nat /\ BSIZE \in Nat
      BY <1>3 DEF Slots
    <3>1. PICK w \in 0..(BSIZE - 1) : w = j - NDIRECT - 1
      <4>1. j - NDIRECT - 1 \in 0..(BSIZE - 1)
        BY ONLY <2>2, <3>0
      <4> QED BY <4>1
    <3>2. j # NDIRECT /\ (j = pl <=> bn >= NDIRECT /\ w = bn - NDIRECT)
      <4>1. j \in Nat /\ bn \in Nat /\ NDIRECT \in Nat
        BY <1>3 DEF Slots
      <4>2. CASE bn < NDIRECT
        BY <2>2, <4>1, <4>2, <1>6
      <4>3. CASE ~(bn < NDIRECT)
        BY <2>2, <3>1, <4>1, <4>3, <1>6
      <4> QED BY <4>2, <4>3
    <3>3. Ref(f, j)' = IF t2 = 0 THEN 0 ELSE block'[t2][w]
      BY <2>2, <3>1, <1>17 DEF Ref
    <3>4. Ref(f, j) = IF t = 0 THEN 0 ELSE block[t][w]
      BY <2>2, <3>1, <1>0, <1>17 DEF Ref
    <3>5. CASE t2 # 0
      BY <3>2, <3>3, <3>4, <3>5, <1>18
    <3>6. CASE t2 = 0
      <4>1. t = 0 /\ ~(bn >= NDIRECT)
        BY <3>6, <1>0, <1>9, <1>3 DEF EntersOne
      <4> QED BY <3>2, <3>3, <3>4, <3>6, <4>1
    <3> QED BY <3>5, <3>6
  <2> QED BY <2>1, <2>2
<1>20. ASSUME NEW k \in 0..(MAXFILE - 1)
       PROVE  Lookup(inode[f], k)' = IF k = bn THEN x ELSE Lookup(inode[f], k)
  <2>1. CASE k < NDIRECT
    <3>1. k \in 0..NDIRECT /\ k # NDIRECT
      BY <2>1, Sizes
    <3>2. Lookup(inode[f], k)' = inode'[f].addrs[k] /\ Lookup(inode[f], k) = inode[f].addrs[k]
      BY <2>1 DEF Lookup
    <3> QED BY <2>1, <3>1, <3>2, <1>10
  <2>2. CASE ~(k < NDIRECT)
    <3>1. PICK w \in 0..(BSIZE - 1) : w = k - NDIRECT
      <4>1. k \in 0..(NDIRECT + BSIZE - 1) /\ NDIRECT \in Nat /\ BSIZE \in Nat
        BY <1>3
      <4>2. k - NDIRECT \in 0..(BSIZE - 1)
        BY ONLY <2>2, <4>1
      <4> QED BY <4>2
    <3>2. k = bn <=> bn >= NDIRECT /\ w = bn - NDIRECT
      BY <2>2, <3>1, <1>3
    <3>3. Lookup(inode[f], k)' = IF t2 = 0 THEN 0 ELSE block'[t2][w]
      BY <2>2, <3>1, <1>17 DEF Lookup
    <3>4. Lookup(inode[f], k) = IF t = 0 THEN 0 ELSE block[t][w]
      BY <2>2, <3>1, <1>0 DEF Lookup
    <3>5. CASE t2 # 0
      BY <3>2, <3>3, <3>4, <3>5, <1>18
    <3>6. CASE t2 = 0
      <4>1. t = 0 /\ ~(bn >= NDIRECT)
        BY <3>6, <1>0, <1>9, <1>3 DEF EntersOne
      <4> QED BY <3>2, <3>3, <3>4, <3>6, <4>1
    <3> QED BY <3>5, <3>6
  <2> QED BY <2>1, <2>2
<1>21. TableRight(f)'
  <2> SUFFICES ASSUME t2 # 0, NEW w \in 0..(BSIZE - 1) PROVE block'[t2][w] \in Data \cup {0}
    BY <1>17 DEF TableRight
  <2>1. t # 0 => block[t][w] \in Data \cup {0}
    BY <1>0 DEF FDInv, FileRight, TableRight
  <2> QED BY <2>1, <1>18
<1>22. FileRight(f)'
  <2>1. ASSUME NEW o \in Nat, o < inode'[f].size, NEW k, k = o \div BSIZE
        PROVE  Lookup(inode[f], k)' # 0
    <3>1. x # 0 /\ NoHoles(f) /\ RangeRight(f)
      BY <1>3 DEF FDInv, FileRight
    <3>2. CASE o < s
      <4>1. Lookup(inode[f], k) # 0 /\ k \in 0..(MAXFILE - 1)
        BY <2>1, <3>1, <3>2, <1>2, <1>11, <1>17, InFile DEF NoHoles
      <4> QED BY <3>1, <4>1, <1>20
    <3>3. CASE ~(o < s)
      <4>1. k = bn
        BY <2>1, <3>3, <1>0, <1>10, <1>11
      <4> QED BY <3>1, <4>1, <1>20
    <3> QED BY <3>2, <3>3
  <2> QED BY <2>1, <1>2, <1>21, ImageFileRight
\* Who refers to what.
<1>23. OwnersRight'
  <2> DEFINE R1 == [g \in All |-> [j \in Slots |->
                        IF g = f /\ j = NDIRECT THEN z ELSE Refs[g][j]]]
  <2>1. Used' = 1..(fb - 1) /\ \A q \in Writers : InHand'[q] = InHand[q]
    BY <1>2, <1>12 DEF Used, InHand
  <2>2. /\ Refs[f][pl] = l /\ Refs[f][NDIRECT] = t
        /\ \A g \in All, j \in Slots : Refs'[g][j] =
                IF g = f /\ j = pl THEN x ELSE IF g = f /\ j = NDIRECT THEN t2 ELSE Refs[g][j]
    BY <1>6, <1>16, <1>19, RefsAre, SameFile
  <2>3. NBlocks \in Nat /\ ImageBlocks <= NBlocks
    BY Sizes
  <2>7. OneOwner(Refs, InHand, Used) /\ Used = 1..(z - 1)
    BY <1>3
  <2>4. CASE x = l /\ t2 = t /\ fb = z
    <3>1. \A g \in All, j \in Slots : Refs'[g][j] = Refs[g][j]
      BY <2>2, <2>4
    <3>2. OneOwner(Refs', InHand', Used)
      BY <2>1, <2>7, <3>1, OwnerSame
    <3> QED BY <2>1, <2>4, <2>7, <3>2 DEF OwnersRight
  <2>5. CASE l = 0 /\ x = z /\ t2 = t /\ fb = z + 1
    <3>1. \A g \in All, j \in Slots : Refs'[g][j] = IF g = f /\ j = pl THEN z ELSE Refs[g][j]
      BY <2>2, <2>5
    <3>2. z \in Data \ Used
      BY <2>5, <1>3
    <3>3. OneOwner(Refs', InHand, Used \cup {z})
      <4>1. Refs[f][pl] = 0
        BY <2>2, <2>5
      <4>2. OneOwner(Refs, InHand, Used)
        BY <2>7
      <4> QED BY ONLY <4>1, <4>2, <3>1, <3>2, OwnerAdded, f \in All, pl \in Slots
    <3>4. OneOwner(Refs', InHand', Used \cup {z})
      BY <2>1, <3>3, OwnerSame
    <3>5. Used' = Used \cup {z}
      BY ONLY <2>1, <2>5, <2>7, z \in Nat \ {0}
    <3> QED BY <3>4, <3>5 DEF OwnersRight
  <2>6. CASE l = 0 /\ x = z + 1 /\ t2 = z /\ t = 0 /\ fb = z + 2
    <3>0. \A g \in All, j \in Slots : R1[g][j] = IF g = f /\ j = NDIRECT THEN z ELSE Refs[g][j]
      OBVIOUS
    <3> HIDE DEF R1
    <3>1. z \in Data \ Used /\ z + 1 \in Data \ (Used \cup {z})
      <4>1. z \in Data
        BY ONLY <2>3, <2>6, x \in Data, z \in Nat \ {0} DEF Data
      <4> QED BY <2>6, <4>1, <1>3
    <3>2. OneOwner(R1, InHand, Used \cup {z})
      <4>1. Refs[f][NDIRECT] = 0 /\ NDIRECT \in Slots
        BY <2>2, <2>6, <1>6
      <4>2. OneOwner(Refs, InHand, Used) /\ z \in Data \ Used
        BY <2>7, <3>1
      <4> QED BY ONLY <4>1, <4>2, <3>0, OwnerAdded, f \in All
    <3>3. R1[f][pl] = 0
      BY <2>2, <2>6, <3>0, <1>6
    <3>4. \A g \in All, j \in Slots : Refs'[g][j] = IF g = f /\ j = pl THEN x ELSE R1[g][j]
      BY <2>2, <2>6, <3>0
    <3>5. OneOwner(Refs', InHand, (Used \cup {z}) \cup {x})
      BY <2>6, <3>1, <3>2, <3>3, <3>4, OwnerAdded
    <3>6. OneOwner(Refs', InHand', (Used \cup {z}) \cup {x})
      BY <2>1, <3>5, OwnerSame
    <3>7. Used' = (Used \cup {z}) \cup {x}
      BY ONLY <2>1, <2>6, <2>7, z \in Nat \ {0}
    <3> QED BY <3>6, <3>7 DEF OwnersRight
  <2> QED BY <2>4, <2>5, <2>6, <1>0, <1>4, <1>12 DEF EntersOne
<1> QED BY <1>2, <1>14, <1>15, <1>16, <1>22, <1>23, ImageKeeps

\* Calls are made once mkfs is done.
LEMMA CallsRun ==
    ASSUME FDInv, NEW p \in Writers, job[p].kind # "none"
    PROVE  phase = "run"
<1>1. phase = "mkfs" => job[p] = NoJob
  BY DEF FDInv, ImageRight
<1> QED BY <1>1 DEF NoJob, FDInv, FDTypes

\* Every step of mkfs and of the calls keeps the invariant.
LEMMA NextKeeps == FDInv /\ [FDNext]_fdVars => FDInv'
<1> SUFFICES ASSUME FDInv, [FDNext]_fdVars PROVE FDInv'
  OBVIOUS
<1>0. \A p \in Writers : Working(p) \/ Truncating(p) => job[p].kind # "none"
  BY DEF Working, Truncating
<1>1. CASE Iappend(Root, 1, ImageWord) \/ \E f \in Inodes, n \in 1..BSIZE : Iappend(f, n, ImageWord)
  <2>1. PICK f \in All, n \in Nat \ {0} : Iappend(f, n, ImageWord)
    BY <1>1, Sizes DEF All
  <2>2. ImageWord \in FileWords
    BY DEF FileWords
  <2> QED BY <2>1, <2>2, IappendKeeps
<1>2. CASE MkfsEnd
  BY <1>2, MkfsEndKeeps
<1>3. CASE \E p \in Writers, f \in All :
                \/ \E off \in Offsets \cup {inode[f].size}, n \in Lengths,
                      word \in Words : StartCall(p, "write", f, off, n, word)
                \/ \E n \in Lengths : StartCall(p, "read", f, 0, n, 0)
                \/ StartCall(p, "trunc", f, 0, 0, 0)
  <2>1. PICK p \in Writers, f \in All :
                \/ \E off \in Offsets \cup {inode[f].size}, n \in Lengths,
                      word \in Words : StartCall(p, "write", f, off, n, word)
                \/ \E n \in Lengths : StartCall(p, "read", f, 0, n, 0)
                \/ StartCall(p, "trunc", f, 0, 0, 0)
    BY <1>3
  <2>2. Offsets \cup {inode[f].size} \subseteq Nat /\ Lengths \subseteq Nat
        /\ Words \subseteq FileWords /\ 0 \in FileWords
    <3>1. inode[f].size \in Nat
      BY InodeIs DEF FDInv
    <3>2. Words \subseteq FileWords /\ 0 \in FileWords
      BY DEF FileWords
    <3> QED BY <3>1, <3>2, FileDataAssumption
  <2>3. ASSUME NEW off \in Offsets \cup {inode[f].size}, NEW n \in Lengths, NEW word \in Words,
               StartCall(p, "write", f, off, n, word)
        PROVE  FDInv'
    <3>1. off \in Nat /\ n \in Nat /\ word \in FileWords
      BY <2>2
    <3> QED BY <2>3, <3>1, StartCallKeeps
  <2>4. ASSUME NEW n \in Lengths, StartCall(p, "read", f, 0, n, 0)
        PROVE  FDInv'
    <3>1. n \in Nat
      BY <2>2
    <3> QED BY <2>2, <2>4, <3>1, StartCallKeeps
  <2>5. CASE StartCall(p, "trunc", f, 0, 0, 0)
    BY <2>2, <2>5, StartCallKeeps
  <2> QED BY <2>1, <2>3, <2>4, <2>5
<1>4. ASSUME NEW p \in Writers,
             \/ LockFile(p) \/ Balloc(p) \/ BallocFull(p) \/ Bzero(p)
             \/ CopyPart(p) \/ UnlockFile(p) \/ Bfree(p) \/ TruncEnd(p)
      PROVE  FDInv'
  <2>1. job[p].kind # "none"
    BY <1>0, <1>4 DEF LockFile, Balloc, BallocFull, Bzero, CopyPart, UnlockFile, Bfree, TruncEnd
  <2>2. phase = "run"
    BY <2>1, CallsRun
  <2> QED BY <1>4, <2>2, LockFileKeeps, BallocKeeps, BallocFullKeeps, BzeroKeeps, CopyPartKeeps,
             UnlockFileKeeps, BfreeKeeps, TruncEndKeeps
<1>5. ASSUME NEW f \in All, Evict(f) PROVE FDInv'
  BY <1>5, EvictKeeps
<1>6. CASE UNCHANGED fdVars
  <2>1. /\ phase' = phase /\ freeblock' = freeblock /\ bitmap' = bitmap /\ block' = block
        /\ inode' = inode /\ dinode' = dinode /\ iholder' = iholder /\ job' = job
    BY <1>6 DEF fdVars
  <2>2. FDTypes' /\ ImageRight'
    BY <2>1 DEF FDInv, FDTypes, ImageRight
  <2>3. ASSUME NEW g \in All PROVE FileRight(g)' /\ \A i : Ref(g, i)' = Ref(g, i)
    <3>1. Same(g)
      BY <2>1 DEF Same
    <3> QED BY <3>1, SameFile DEF FDInv
  <2>4. ASSUME NEW q \in Writers PROVE FreshRight(q)'
    BY <2>1 DEF FDInv, FreshRight, Working, Missing, Bn, Lookup
  <2>5. OwnersRight'
    <3>1. OneOwner(Refs, InHand, Used) /\ Used' = Used
      BY <2>1 DEF FDInv, OwnersRight, Used
    <3>2. /\ \A g \in All, i \in Slots : Refs'[g][i] = Refs[g][i]
          /\ \A q \in Writers : InHand'[q] = InHand[q]
      BY <2>1, <2>3, RefsAre
    <3>3. OneOwner(Refs', InHand', Used)
      BY <3>1, <3>2, OwnerSame
    <3> QED BY <3>1, <3>3 DEF OwnersRight
  <2> QED BY <2>2, <2>3, <2>4, <2>5 DEF FDInv
<1> QED BY <1>1, <1>2, <1>3, <1>4, <1>5, <1>6 DEF FDNext

\* Whatever the steps of mkfs and of the calls on several files, in which order
\* they come: the bitmap, the addresses of the inodes, the words of the indirect
\* blocks and the blocks that balloc() has just given out fit together, a file
\* has no holes, and the disk has the inode of every file nobody has locked.
THEOREM FileDataInvariant == FDSpec => []FDInv
BY InitKeeps, NextKeeps, PTL DEF FDSpec

\* The entries that itrunc() has freed, and what the others refer to.
LEMMA ReleasedIs ==
    ASSUME FDInv, NEW f \in All, NEW w \in Nat
    PROVE  w \in Released(f) <=> Kind(f) = "trunc" /\ w + NDIRECT + 1 <= Off(f)
<1>1. NDIRECT \in Nat /\ HolderRight(f) /\ FDTypes
  BY Sizes DEF FDInv, FileRight
<1>2. ASSUME w \in Released(f) PROVE Kind(f) = "trunc" /\ w + NDIRECT + 1 <= Off(f)
  <2>1. PICK q \in Writers : Truncating(q) /\ job[q].f = f /\ w \in 0..(job[q].off - NDIRECT - 1)
    BY <1>2 DEF Released
  <2>2. iholder[f] = q /\ q # NoOne /\ job[q].kind = "trunc" /\ job[q].off \in Nat
    BY <1>1, <2>1, JobIs DEF Truncating
  <2>3. Kind(f) = "trunc" /\ Off(f) = job[q].off
    BY <2>2 DEF Kind, Off
  <2>4. w + NDIRECT + 1 <= job[q].off
    BY <1>1, <2>1, <2>2
  <2> QED BY <2>3, <2>4
<1>3. ASSUME Kind(f) = "trunc", w + NDIRECT + 1 <= Off(f) PROVE w \in Released(f)
  <2>1. PICK q \in Writers : q = iholder[f] /\ q # NoOne
    BY <1>1, <1>3, InodeIs DEF Kind
  <2>2. Truncating(q) /\ job[q].f = f /\ job[q].off = Off(f) /\ job[q].off \in Nat
    BY <1>1, <1>3, <2>1, JobIs DEF HolderRight, Truncating, Kind, Off
  <2>3. w \in 0..(job[q].off - NDIRECT - 1)
    BY <1>1, <1>3, <2>2
  <2> QED BY <2>2, <2>3 DEF Released
<1> QED BY <1>2, <1>3

\* The entries the property counts are the places that refer to the block.
LEMMA EntryIs ==
    ASSUME FDInv, NEW f \in All, NEW i \in 0..MAXFILE, NEW b \in Data
    PROVE  i \in Entries(f) /\ Entry(f, i) = b <=> Ref(f, i) = b
<1>1. /\ NDIRECT \in Nat /\ BSIZE \in Nat /\ MAXFILE = NDIRECT + BSIZE /\ NINDIRECT = BSIZE
      /\ b # 0 /\ b \in Nat /\ i \in Nat
  BY Sizes DEF NINDIRECT
<1>2. CASE i <= NDIRECT
  <2>1. i \in 0..NDIRECT
    BY <1>1, <1>2
  <2>2. Entry(f, i) = inode[f].addrs[i] /\ Ref(f, i) = inode[f].addrs[i]
    BY <1>2 DEF Entry, Ref
  <2>3. inode[f].addrs[i] # 0 => i \in Entries(f)
    BY <2>1 DEF Entries
  <2> QED BY <2>2, <2>3, <1>1
<1>3. CASE ~(i <= NDIRECT)
  <2>1. PICK w \in 0..(BSIZE - 1) : w = i - NDIRECT - 1 /\ i = NDIRECT + 1 + w
    <3>1. i - NDIRECT - 1 \in 0..(BSIZE - 1) /\ i = NDIRECT + 1 + (i - NDIRECT - 1)
      BY ONLY <1>1, <1>3, i \in 0..MAXFILE
    <3> QED BY <3>1
  <2>2. /\ Entry(f, i) = block[inode[f].addrs[NDIRECT]][w]
        /\ Ref(f, i) = IF inode[f].addrs[NDIRECT] = 0 \/ (Kind(f) = "trunc" /\ i <= Off(f)) THEN 0
                       ELSE block[inode[f].addrs[NDIRECT]][w]
    BY <1>3, <2>1 DEF Entry, Ref
  <2>3. w \in Released(f) <=> Kind(f) = "trunc" /\ i <= Off(f)
    <3>1. w \in Nat /\ w + NDIRECT + 1 = i
      BY <2>1, <1>1
    <3> QED BY <3>1, ReleasedIs
  <2>4. i \in Entries(f) <=>
            /\ inode[f].addrs[NDIRECT] # 0 /\ w \notin Released(f)
            /\ block[inode[f].addrs[NDIRECT]][w] # 0
    <3>1. i \notin {k \in 0..NDIRECT : inode[f].addrs[k] # 0}
      BY <1>1, <1>3
    <3>2. \A v \in 0..(BSIZE - 1) : i = NDIRECT + 1 + v <=> v = w
      BY <2>1, <1>1
    <3>3. ASSUME inode[f].addrs[NDIRECT] = 0 PROVE i \notin Entries(f)
      BY <3>1, <3>3 DEF Entries
    <3>4. ASSUME inode[f].addrs[NDIRECT] # 0
          PROVE  i \in Entries(f) <=>
                    w \notin Released(f) /\ block[inode[f].addrs[NDIRECT]][w] # 0
      <4> DEFINE W == {v \in 0..(NINDIRECT - 1) \ Released(f) :
                            block[inode[f].addrs[NDIRECT]][v] # 0}
      <4>1. i \in Entries(f) <=> \E v \in W : i = NDIRECT + 1 + v
        BY <3>1, <3>4 DEF Entries
      <4>2. (\E v \in W : i = NDIRECT + 1 + v) <=> w \in W
        BY <2>1, <3>2, <1>1
      <4> QED BY <4>1, <4>2, <1>1
    <3> QED BY <3>3, <3>4
  <2> QED BY <2>2, <2>3, <2>4, <1>1
<1> QED BY <1>2, <1>3

\* In the invariant, a block that is marked is in one place, any other in none.
LEMMA OwnedNow == FDInv => BlocksOwned
<1> SUFFICES ASSUME FDInv, phase = "run", NEW b \in Data
             PROVE  Cardinality(Owners(b)) = IF b \in bitmap THEN 1 ELSE 0
  BY DEF BlocksOwned
<1>1. OneOwner(Refs, InHand, bitmap) /\ b # 0
  BY Sizes DEF FDInv, OwnersRight, Used
<1>2. /\ \A f \in All, i \in Slots : Refs[f][i] = Ref(f, i)
      /\ \A p \in Writers : InHand[p] = job[p].fresh
  BY RefsAre
<1>3. Owners(b) = {e \in All \X Slots : Ref(e[1], e[2]) = b}
                  \cup {<<p, "fresh">> : p \in {q \in Writers : job[q].fresh = b}}
  <2>1. \A e \in All \X (0..MAXFILE) :
            e[2] \in Entries(e[1]) /\ Entry(e[1], e[2]) = b <=> Ref(e[1], e[2]) = b
    <3> TAKE e \in All \X (0..MAXFILE)
    <3>1. PICK f \in All, i \in 0..MAXFILE : e[1] = f /\ e[2] = i
      OBVIOUS
    <3> QED BY <3>1, EntryIs
  <2> QED BY <2>1 DEF Owners, Slots
<1>4. CASE b \notin bitmap
  <2>1. \A f \in All, i \in Slots : Ref(f, i) # b
    BY <1>1, <1>2, <1>4 DEF OneOwner
  <2>2. \A p \in Writers : job[p].fresh # b
    BY <1>1, <1>2, <1>4 DEF OneOwner
  <2>3. Owners(b) = {}
    BY <2>1, <2>2, <1>3
  <2> QED BY <2>3, <1>4, FS_EmptySet
<1>5. CASE b \in bitmap
  <2>1. CASE \E f \in All, i \in Slots : Ref(f, i) = b
    <3>1. PICK f \in All, i \in Slots : Ref(f, i) = b
      BY <2>1
    <3>2. \A g \in All, j \in Slots : Ref(g, j) = b => g = f /\ j = i
      BY <1>1, <1>2, <3>1 DEF OneOwner
    <3>3. \A p \in Writers : job[p].fresh # b
      BY <1>1, <1>2, <3>1 DEF OneOwner
    <3>4. \A e \in All \X Slots : Ref(e[1], e[2]) = b <=> e = <<f, i>>
      BY <3>1, <3>2
    <3>5. Owners(b) = {<<f, i>>}
      BY <3>3, <3>4, <1>3
    <3> QED BY <3>5, <1>5, FS_Singleton
  <2>2. CASE ~ \E f \in All, i \in Slots : Ref(f, i) = b
    <3>1. PICK p \in Writers : job[p].fresh = b
      BY <1>1, <1>2, <1>5, <2>2 DEF OneOwner
    <3>2. \A q \in Writers : job[q].fresh = b <=> q = p
      BY <1>1, <1>2, <3>1 DEF OneOwner
    <3>3. {q \in Writers : job[q].fresh = b} = {p}
      BY <3>2
    <3>4. {e \in All \X Slots : Ref(e[1], e[2]) = b} = {}
      BY <2>2
    <3>5. Owners(b) = {<<p, "fresh">>}
      BY <3>3, <3>4, <1>3
    <3> QED BY <3>5, <1>5, FS_Singleton
  <2> QED BY <2>1, <2>2
<1> QED BY <1>4, <1>5

\* balloc(), bmap() and itrunc() of any number of processes: a block is marked
\* exactly when one inode, one indirect block or one call refers to it, so none
\* is shared by two files, freed twice or lost.
THEOREM BlocksAreOwned == FDSpec => []BlocksOwned
BY FileDataInvariant, OwnedNow, PTL

-----------------------------------------------------------------------------
(* What a file reads as.                                                   *)

\* The word at offset o of file f.
Content(f, o) == block[Lookup(inode[f], o \div BSIZE)][o % BSIZE]

\* How far the file has been written: writei() changes the size at its end.
Written(f) == IF Kind(f) = "write" /\ Off(f) > inode[f].size THEN Off(f) ELSE inode[f].size

\* The blocks of the file have what was written to it.  What itrunc() is about
\* to throw away is no longer read.
TextRight(f) ==
    Kind(f) # "trunc" =>
        /\ Len(text[f]) = Written(f)
        /\ \A o \in Nat : o < Written(f) => Content(f, o) = text[f][o + 1]

\* While mkfs runs, the last block of a file is clear beyond the size: the root
\* is rounded up at the end.
ClearRight(f) ==
    phase = "mkfs" =>
        \A o \in Nat :
            /\ o \div BSIZE \in 0..(MAXFILE - 1) /\ o >= inode[f].size
            /\ Lookup(inode[f], o \div BSIZE) # 0
            => Content(f, o) = 0

TextInv == /\ text \in [All -> Seq(FileWords)]
           /\ \A f \in All : TextRight(f) /\ ClearRight(f)

\* The blocks of f other than block k stay in their place, and so does what
\* they hold.
StaysBut(f, k) ==
    \A n \in 0..(MAXFILE - 1) : n # k /\ Lookup(inode[f], n) # 0 =>
        /\ Lookup(inode[f], n)' = Lookup(inode[f], n)
        /\ block'[Lookup(inode[f], n)] = block[Lookup(inode[f], n)]

Stays(f) == StaysBut(f, MAXFILE)

\* How far a file has been written is a number, and the file has no holes so far.
LEMMA WrittenIs ==
    ASSUME FDInv, NEW f \in All, Kind(f) # "trunc"
    PROVE  /\ Written(f) \in Nat /\ inode[f].size <= Written(f)
           /\ Kind(f) = "write" => Off(f) \in Nat /\ Off(f) <= Written(f)
           /\ \A o \in Nat : o < Written(f) =>
                o \div BSIZE \in 0..(MAXFILE - 1) /\ Lookup(inode[f], o \div BSIZE) # 0
<1>1. FDTypes /\ FileRight(f) /\ inode[f].size \in Nat
  BY InodeIs DEF FDInv
<1>2. Kind(f) = "write" => Off(f) \in Nat
  BY <1>1, InodeIs, JobIs DEF Kind, Off
<1>3. Written(f) \in Nat /\ inode[f].size <= Written(f)
      /\ (Kind(f) = "write" => Off(f) <= Written(f))
  BY <1>1, <1>2 DEF Written
<1>4. ASSUME NEW o \in Nat, o < Written(f)
      PROVE  o \div BSIZE \in 0..(MAXFILE - 1) /\ Lookup(inode[f], o \div BSIZE) # 0
  <2>1. o < inode[f].size \/ (Kind(f) = "write" /\ o < Off(f))
    BY <1>4 DEF Written
  <2>2. RangeRight(f) /\ NoHoles(f)
    BY <1>1 DEF FileRight
  <2>3. Lookup(inode[f], o \div BSIZE) # 0
    BY <2>1, <2>2 DEF NoHoles
  <2> QED BY <2>1, <2>2, <2>3, <1>1, InFile
<1> QED BY <1>2, <1>3, <1>4

\* A step that moves no block of the file and writes to none keeps its text.
LEMMA TextKeeps ==
    ASSUME FDInv, NEW f \in All, TextRight(f), text'[f] = text[f],
           Kind(f)' # "trunc" => /\ Kind(f) # "trunc" /\ Stays(f)
                                 /\ Written(f)' = Written(f)
    PROVE  TextRight(f)'
<1>1. CASE Kind(f)' = "trunc"
  BY <1>1 DEF TextRight
<1>2. CASE Kind(f)' # "trunc"
  <2>1. ASSUME NEW o \in Nat, o < Written(f) PROVE Content(f, o)' = text[f][o + 1]
    <3>1. PICK n \in 0..(MAXFILE - 1) : n = o \div BSIZE /\ Lookup(inode[f], n) # 0
      BY <1>2, <2>1, WrittenIs
    <3>2. n # MAXFILE
      BY Sizes
    <3>3. /\ Lookup(inode[f], n)' = Lookup(inode[f], n)
          /\ block'[Lookup(inode[f], n)] = block[Lookup(inode[f], n)]
      BY <1>2, <3>1, <3>2 DEF Stays, StaysBut
    <3>4. Content(f, o) = text[f][o + 1]
      BY <1>2, <2>1 DEF TextRight
    <3> QED BY <3>1, <3>3, <3>4 DEF Content
  <2> QED BY <1>2, <2>1 DEF TextRight
<1> QED BY <1>1, <1>2

\* The blocks of a file are those of no other place, and no indirect block.
LEMMA BlockOfIs ==
    ASSUME FDInv, NEW f \in All, Kind(f) # "trunc", NEW n \in 0..(MAXFILE - 1),
           NEW b, b = Lookup(inode[f], n), b # 0
    PROVE  /\ b \in Data /\ b = Ref(f, Place(n)) /\ b \in Used
           /\ \A p \in Writers : job[p].fresh # b
           /\ \A g \in All : inode[g].addrs[NDIRECT] # b
           /\ \A g \in All, k \in 0..(MAXFILE - 1) :
                Kind(g) # "trunc" /\ Lookup(inode[g], k) = b => g = f /\ k = n
<1>1. FDTypes /\ OwnersRight /\ OneOwner(Refs, InHand, Used)
  BY DEF FDInv, OwnersRight
<1>2. b = Ref(f, Place(n)) /\ Place(n) \in Slots /\ Place(n) # NDIRECT /\ Refs[f][Place(n)] = b
  BY <1>1, LookupIs, PlaceIs, RefsAre
<1>3. b \in Used /\ Used \subseteq Data
  BY <1>1, <1>2 DEF OneOwner
<1>4. ASSUME NEW p \in Writers PROVE job[p].fresh # b
  BY <1>1, <1>2, RefsAre DEF OneOwner
<1>5. ASSUME NEW g \in All, inode[g].addrs[NDIRECT] = b PROVE FALSE
  BY <1>1, <1>2, <1>5, NoTable
<1>6. ASSUME NEW g \in All, NEW k \in 0..(MAXFILE - 1), Kind(g) # "trunc", Lookup(inode[g], k) = b
      PROVE  g = f /\ k = n
  <2>1. Ref(g, Place(k)) = b /\ Place(k) \in Slots /\ Refs[g][Place(k)] = b
    BY <1>1, <1>6, LookupIs, PlaceIs, RefsAre
  <2>2. g = f /\ Place(k) = Place(n)
    BY <1>1, <1>2, <2>1 DEF OneOwner
  <2>3. k = n
    BY <2>2, Sizes DEF Place
  <2> QED BY <2>2, <2>3
<1> QED BY <1>2, <1>3, <1>4, <1>5, <1>6

\* A step that writes to no block keeps the text of a file whose inode stays.
LEMMA TextSame ==
    ASSUME FDInv, NEW f \in All, TextRight(f), text'[f] = text[f],
           block' = block, inode'[f] = inode[f],
           Kind(f)' # "trunc" => Kind(f) # "trunc" /\ Written(f)' = Written(f)
    PROVE  TextRight(f)'
<1>1. Stays(f)
  BY DEF Stays, StaysBut, Lookup
<1> QED BY <1>1, TextKeeps

\* A step of process p that writes to the blocks S, none of which is another
\* file's, keeps the text of the other files.
LEMMA OthersKeep ==
    ASSUME FDInv, TextInv, phase' = "run", NEW p \in Writers, NEW f \in All, f = job[p].f,
           text' \in [All -> Seq(FileWords)], NEW S, \A x \in Data \ S : block'[x] = block[x],
           \A q \in Writers : q # p => job'[q] = job[q],
           \A g \in All \ {f} :
                /\ inode'[g] = inode[g] /\ iholder'[g] = iholder[g] /\ text'[g] = text[g]
                /\ inode[g].addrs[NDIRECT] \notin S
                /\ \A n \in 0..(MAXFILE - 1) :
                    Kind(g) # "trunc" /\ Lookup(inode[g], n) # 0 => Lookup(inode[g], n) \notin S,
           TextRight(f)'
    PROVE  TextInv'
<1>1. ASSUME NEW g \in All \ {f} PROVE TextRight(g)'
  <2>1. /\ FDTypes /\ iholder[g] # p /\ (iholder[g] # NoOne => iholder[g] \in Writers)
        /\ inode[g].addrs[NDIRECT] \in Data \cup {0}
    BY OneLock, InodeIs DEF FDInv
  <2>2. iholder[g] # NoOne => job'[iholder[g]] = job[iholder[g]]
    BY <2>1
  <2>3. Kind(g)' = Kind(g) /\ Off(g)' = Off(g) /\ Written(g)' = Written(g)
    <3>1. Kind(g)' = Kind(g) /\ Off(g)' = Off(g)
      BY <2>2 DEF Kind, Off
    <3> QED BY <3>1 DEF Written
  <2>4. ASSUME Kind(g) # "trunc" PROVE Stays(g)
    <3>1. ASSUME NEW n \in 0..(MAXFILE - 1), Lookup(inode[g], n) # 0
          PROVE  /\ Lookup(inode[g], n)' = Lookup(inode[g], n)
                 /\ block'[Lookup(inode[g], n)] = block[Lookup(inode[g], n)]
      <4>1. Lookup(inode[g], n) \in Data \ S
        BY <2>4, <3>1, BlockOfIs
      <4>2. inode[g].addrs[NDIRECT] # 0 =>
                block'[inode[g].addrs[NDIRECT]] = block[inode[g].addrs[NDIRECT]]
        BY <2>1
      <4>3. Lookup(inode[g], n)' = Lookup(inode[g], n)
        BY <4>2 DEF Lookup
      <4> QED BY <4>1, <4>3
    <3> QED BY <3>1 DEF Stays, StaysBut
  <2>5. TextRight(g) /\ text'[g] = text[g]
    BY DEF TextInv
  <2> QED BY <2>3, <2>4, <2>5, TextKeeps
<1>2. \A g \in All : TextRight(g)'
  BY <1>1
<1>3. \A g \in All : ClearRight(g)'
  BY DEF ClearRight
<1> QED BY <1>2, <1>3 DEF TextInv

\* The start of a call reads and writes nothing.
LEMMA StartCallReads ==
    ASSUME FDInv, TextInv, NEW p \in Writers, NEW kind, NEW f, NEW off, NEW n, NEW word,
           StartCall(p, kind, f, off, n, word)
    PROVE  TextInv'
<1>1. PICK g \in All : g = job[p].f
  BY JobIs DEF FDInv
<1>2. /\ phase' = "run" /\ inode' = inode /\ block' = block /\ iholder' = iholder /\ text' = text
      /\ text' \in [All -> Seq(FileWords)]
      /\ \A q \in Writers : q # p => job'[q] = job[q]
      /\ iholder[g] # p /\ (iholder[g] # NoOne => iholder[g] \in Writers)
  BY OneLock, InodeIs DEF StartCall, mkfsVars, FDInv, FDTypes, TextInv
<1>3. Kind(g)' = Kind(g) /\ Off(g)' = Off(g)
  BY <1>2 DEF Kind, Off
<1>4. TextRight(g)'
  <2>1. Written(g)' = Written(g)
    BY <1>2, <1>3 DEF Written
  <2> QED BY <2>1, <1>2, <1>3, TextSame DEF TextInv
<1> DEFINE S == {}
<1>5. /\ \A x \in Data \ S : block'[x] = block[x]
      /\ \A h \in All \ {g} :
            /\ inode'[h] = inode[h] /\ iholder'[h] = iholder[h] /\ text'[h] = text[h]
            /\ inode[h].addrs[NDIRECT] \notin S
            /\ \A k \in 0..(MAXFILE - 1) :
                    Kind(h) # "trunc" /\ Lookup(inode[h], k) # 0 => Lookup(inode[h], k) \notin S
  BY <1>2
<1> HIDE DEF S
<1> QED BY <1>1, <1>2, <1>4, <1>5, OthersKeep

\* balloc() marks a block that no file has.
LEMMA BallocReads ==
    ASSUME FDInv, TextInv, phase = "run", NEW p \in Writers, Balloc(p) \/ BallocFull(p)
    PROVE  TextInv'
<1>1. PICK g \in All : g = job[p].f
  BY JobIs DEF FDInv
<1>2. /\ phase' = "run" /\ inode' = inode /\ block' = block /\ iholder' = iholder /\ text' = text
      /\ text' \in [All -> Seq(FileWords)]
      /\ \A q \in Writers : q # p => job'[q] = job[q]
      /\ iholder[g] = p /\ p # NoOne
  BY <1>1, WorkingIs DEF Balloc, BallocFull, mkfsVars, FDInv, FDTypes, TextInv
<1>3. job'[p].kind = job[p].kind /\ job'[p].off = job[p].off
  <2>1. \E b : job' = [job EXCEPT ![p].fresh = b] \/ job' = job
    BY DEF Balloc, BallocFull
  <2>2. job \in [Writers -> Jobs]
    BY DEF FDInv, FDTypes
  <2> QED BY ONLY <2>1, <2>2, p \in Writers DEF Jobs
<1>4. TextRight(g)'
  <2>1. Kind(g)' = Kind(g) /\ Off(g)' = Off(g)
    BY <1>2, <1>3 DEF Kind, Off
  <2>2. Written(g)' = Written(g) /\ Kind(g) # "trunc"
    <3>1. Kind(g) # "trunc"
      BY <1>1, WorkingIs DEF Balloc, BallocFull
    <3> QED BY <2>1, <3>1, <1>2 DEF Written
  <2> QED BY <2>2, <1>2, TextSame DEF TextInv
<1> DEFINE S == {}
<1>5. /\ \A x \in Data \ S : block'[x] = block[x]
      /\ \A h \in All \ {g} :
            /\ inode'[h] = inode[h] /\ iholder'[h] = iholder[h] /\ text'[h] = text[h]
            /\ inode[h].addrs[NDIRECT] \notin S
            /\ \A k \in 0..(MAXFILE - 1) :
                    Kind(h) # "trunc" /\ Lookup(inode[h], k) # 0 => Lookup(inode[h], k) \notin S
  BY <1>2
<1> HIDE DEF S
<1> QED BY <1>1, <1>2, <1>4, <1>5, OthersKeep

\* ilock(): a call begins with the file as it is.
LEMMA LockFileReads ==
    ASSUME FDInv, TextInv, phase = "run", NEW p \in Writers, LockFile(p)
    PROVE  TextInv'
<1>1. PICK f \in All : f = job[p].f
  BY JobIs DEF FDInv
<1>2. /\ phase' = "run" /\ inode' = inode /\ block' = block /\ text' = text
      /\ text' \in [All -> Seq(FileWords)]
      /\ iholder[f] = NoOne /\ Kind(f) = "none" /\ p # NoOne
      /\ iholder \in [All -> Writers \cup {NoOne}] /\ job \in [Writers -> Jobs]
  BY <1>1, JobIs DEF LockFile, mkfsVars, FDInv, FDTypes, TextInv, Kind
<1>3. job[p].off \in Nat /\ inode[f].size \in Nat
  BY <1>1, JobIs, InodeIs DEF FDInv
<1>4. \/ job' = [job EXCEPT ![p] = NoJob] /\ iholder' = iholder
      \/ /\ iholder' = [iholder EXCEPT ![f] = p]
         /\ \E end, rest : job' = [job EXCEPT ![p].end = end, ![p].rest = rest]
         /\ job[p].kind # "trunc" /\ ~(job[p].off > inode[f].size)
      \/ /\ iholder' = [iholder EXCEPT ![f] = p]
         /\ job' = [job EXCEPT ![p].off = 0] /\ job[p].kind = "trunc"
  <2> DEFINE n == IF job[p].rest > MaxWrite THEN MaxWrite ELSE job[p].rest
             most == IF job[p].off + job[p].rest > inode[f].size THEN inode[f].size
                     ELSE job[p].off + job[p].rest
  <2>1. \/ job' = [job EXCEPT ![p] = NoJob] /\ iholder' = iholder
        \/ /\ job[p].kind = "write" /\ ~(job[p].off > inode[f].size)
           /\ job' = [job EXCEPT ![p].end = job[p].off + n, ![p].rest = job[p].rest - n]
           /\ iholder' = [iholder EXCEPT ![f] = p]
        \/ /\ job[p].kind = "read" /\ job[p].off <= inode[f].size
           /\ job' = [job EXCEPT ![p].end = most, ![p].rest = 0]
           /\ iholder' = [iholder EXCEPT ![f] = p]
        \/ /\ job[p].kind = "trunc" /\ job' = [job EXCEPT ![p].off = 0]
           /\ iholder' = [iholder EXCEPT ![f] = p]
    BY <1>1 DEF LockFile
  <2>2. job[p].off <= inode[f].size => ~(job[p].off > inode[f].size)
    BY <1>3
  <2> HIDE DEF n, most
  <2>3. CASE /\ job[p].kind = "write" /\ ~(job[p].off > inode[f].size)
             /\ job' = [job EXCEPT ![p].end = job[p].off + n, ![p].rest = job[p].rest - n]
             /\ iholder' = [iholder EXCEPT ![f] = p]
    BY <2>3
  <2>4. CASE /\ job[p].kind = "read" /\ job[p].off <= inode[f].size
             /\ job' = [job EXCEPT ![p].end = most, ![p].rest = 0]
             /\ iholder' = [iholder EXCEPT ![f] = p]
    BY <2>2, <2>4
  <2> QED BY ONLY <2>1, <2>3, <2>4
<1>5. /\ \A q \in Writers : q # p => job'[q] = job[q]
      /\ \A g \in All \ {f} : iholder'[g] = iholder[g]
  BY <1>2, <1>4
<1>6. Kind(f)' # "trunc" => Written(f)' = Written(f)
  <2>1. Written(f) = inode[f].size
    BY <1>2 DEF Written
  <2>2. CASE iholder' = iholder
    BY <2>1, <2>2, <1>2 DEF Written, Kind
  <2>3. CASE /\ iholder' = [iholder EXCEPT ![f] = p]
             /\ \E end, rest : job' = [job EXCEPT ![p].end = end, ![p].rest = rest]
             /\ job[p].kind # "trunc" /\ ~(job[p].off > inode[f].size)
    <3>1. job'[p].off = job[p].off
      BY ONLY <2>3, <1>2, p \in Writers DEF Jobs
    <3>2. Off(f)' = job[p].off
      BY <2>3, <3>1, <1>2 DEF Off
    <3> QED BY <2>1, <2>3, <3>2, <1>2 DEF Written
  <2>4. CASE /\ iholder' = [iholder EXCEPT ![f] = p]
             /\ job' = [job EXCEPT ![p].off = 0] /\ job[p].kind = "trunc"
    <3>1. job'[p].kind = "trunc" /\ iholder'[f] = p
      BY ONLY <2>4, <1>2, p \in Writers, f \in All DEF Jobs
    <3> QED BY <3>1, <1>2 DEF Kind
  <2> QED BY <2>2, <2>3, <2>4, <1>4
<1>7. TextRight(f)'
  <2>1. TextRight(f) /\ Kind(f) # "trunc"
    BY <1>2 DEF TextInv
  <2> QED BY <2>1, <1>2, <1>6, TextSame
<1> DEFINE S == {}
<1>8. /\ \A x \in Data \ S : block'[x] = block[x]
      /\ \A g \in All \ {f} :
            /\ inode'[g] = inode[g] /\ iholder'[g] = iholder[g] /\ text'[g] = text[g]
            /\ inode[g].addrs[NDIRECT] \notin S
            /\ \A k \in 0..(MAXFILE - 1) :
                    Kind(g) # "trunc" /\ Lookup(inode[g], k) # 0 => Lookup(inode[g], k) \notin S
  BY <1>2, <1>5
<1> HIDE DEF S
<1> QED BY <1>1, <1>2, <1>5, <1>7, <1>8, OthersKeep

\* The end of readi() or writei(): the size is what has been written.
LEMMA UnlockFileReads ==
    ASSUME FDInv, TextInv, phase = "run", NEW p \in Writers, UnlockFile(p)
    PROVE  TextInv'
<1>1. PICK f \in All : f = job[p].f
  BY JobIs DEF FDInv
<1>2. /\ phase' = "run" /\ block' = block /\ text' = text
      /\ text' \in [All -> Seq(FileWords)]
      /\ iholder[f] = p /\ p # NoOne /\ Kind(f) = job[p].kind /\ Kind(f) \in {"read", "write"}
      /\ Off(f) = job[p].off /\ iholder' = [iholder EXCEPT ![f] = NoOne]
      /\ \A q \in Writers : q # p => job'[q] = job[q]
      /\ iholder \in [All -> Writers \cup {NoOne}] /\ job \in [Writers -> Jobs]
      /\ inode \in [All -> DInodes]
  BY <1>1, JobIs DEF UnlockFile, mkfsVars, FDInv, FDTypes, TextInv, Kind, Off
<1>3. /\ \A g \in All \ {f} : inode'[g] = inode[g] /\ iholder'[g] = iholder[g]
      /\ inode'[f].addrs = inode[f].addrs /\ inode'[f].size = Written(f)
      /\ iholder'[f] = NoOne
  <2>1. inode' = [inode EXCEPT ![f].size = Written(f)]
    <3>1. CASE Kind(f) = "write"
      <4>1. inode' = [inode EXCEPT ![f].size =
                        IF Off(f) > inode[f].size THEN Off(f) ELSE inode[f].size]
        BY <3>1, <1>1, <1>2 DEF UnlockFile, Grown
      <4> QED BY <4>1, <3>1 DEF Written
    <3>2. CASE Kind(f) # "write"
      <4>1. inode' = inode /\ Written(f) = inode[f].size
        BY <3>2, <1>1, <1>2 DEF UnlockFile, Written
      <4>2. inode = [inode EXCEPT ![f].size = inode[f].size]
        BY ONLY <1>2, f \in All DEF DInodes
      <4> QED BY <4>1, <4>2
    <3> QED BY <3>1, <3>2
  <2>2. PICK s : s = Written(f) /\ inode' = [inode EXCEPT ![f].size = s]
    BY <2>1
  <2>3. /\ \A g \in All \ {f} : inode'[g] = inode[g]
        /\ inode'[f].addrs = inode[f].addrs /\ inode'[f].size = s
    BY ONLY <2>2, <1>2, f \in All DEF DInodes
  <2> QED BY <2>2, <2>3, <1>2
<1>4. Stays(f)
  BY <1>2, <1>3 DEF Stays, StaysBut, Lookup
<1>5. TextRight(f)'
  <2>1. Kind(f)' = "none" /\ Written(f)' = Written(f)
    BY <1>3 DEF Kind, Written
  <2> QED BY <2>1, <1>2, <1>4, TextKeeps DEF TextInv
<1> DEFINE S == {}
<1>6. /\ \A x \in Data \ S : block'[x] = block[x]
      /\ \A g \in All \ {f} :
            /\ inode'[g] = inode[g] /\ iholder'[g] = iholder[g] /\ text'[g] = text[g]
            /\ inode[g].addrs[NDIRECT] \notin S
            /\ \A k \in 0..(MAXFILE - 1) :
                    Kind(g) # "trunc" /\ Lookup(inode[g], k) # 0 => Lookup(inode[g], k) \notin S
  BY <1>2, <1>3
<1> HIDE DEF S
<1> QED BY <1>1, <1>2, <1>5, <1>6, OthersKeep

\* bfree(): a file that is truncated is not read until its lock is released.
LEMMA BfreeReads ==
    ASSUME FDInv, TextInv, phase = "run", NEW p \in Writers, Bfree(p)
    PROVE  TextInv'
<1>1. PICK f \in All : f = job[p].f
  BY JobIs DEF FDInv
<1>2. /\ phase' = "run" /\ block' = block /\ text' = text /\ iholder' = iholder
      /\ text' \in [All -> Seq(FileWords)]
      /\ iholder[f] = p /\ p # NoOne /\ job[p].kind = "trunc"
      /\ job' = [job EXCEPT ![p].off = job[p].off + 1] /\ job \in [Writers -> Jobs]
      /\ \E i : inode' = [inode EXCEPT ![f].addrs[i] = 0] \/ inode' = inode
      /\ inode \in [All -> DInodes]
  BY <1>1, JobIs DEF Bfree, Truncating, mkfsVars, FDInv, FDTypes, TextInv
<1>3. /\ \A q \in Writers : q # p => job'[q] = job[q]
      /\ job'[p].kind = "trunc" /\ \A g \in All \ {f} : inode'[g] = inode[g]
  BY ONLY <1>2, p \in Writers, f \in All DEF Jobs
<1>4. TextRight(f)'
  <2>1. Kind(f)' = "trunc"
    BY <1>2, <1>3 DEF Kind
  <2> QED BY <2>1, <1>2 DEF TextInv, TextRight
<1> DEFINE S == {}
<1>5. /\ \A x \in Data \ S : block'[x] = block[x]
      /\ \A g \in All \ {f} :
            /\ inode'[g] = inode[g] /\ iholder'[g] = iholder[g] /\ text'[g] = text[g]
            /\ inode[g].addrs[NDIRECT] \notin S
            /\ \A k \in 0..(MAXFILE - 1) :
                    Kind(g) # "trunc" /\ Lookup(inode[g], k) # 0 => Lookup(inode[g], k) \notin S
  BY <1>2, <1>3
<1> HIDE DEF S
<1> QED BY <1>1, <1>2, <1>3, <1>4, <1>5, OthersKeep

\* The end of itrunc(): the file is empty.
LEMMA TruncEndReads ==
    ASSUME FDInv, TextInv, phase = "run", NEW p \in Writers, TruncEnd(p)
    PROVE  TextInv'
<1>1. PICK f \in All : f = job[p].f
  BY JobIs DEF FDInv
<1>2. /\ phase' = "run" /\ block' = block /\ text' = [text EXCEPT ![f] = <<>>]
      /\ iholder' = [iholder EXCEPT ![f] = NoOne] /\ job' = [job EXCEPT ![p] = NoJob]
      /\ inode' = [inode EXCEPT ![f].size = 0] /\ inode \in [All -> DInodes]
      /\ iholder \in [All -> Writers \cup {NoOne}] /\ job \in [Writers -> Jobs]
  BY <1>1 DEF TruncEnd, mkfsVars, FDInv, FDTypes, TextInv
<1>3. /\ \A q \in Writers : q # p => job'[q] = job[q]
      /\ \A g \in All \ {f} : inode'[g] = inode[g] /\ iholder'[g] = iholder[g]
      /\ inode'[f].size = 0 /\ iholder'[f] = NoOne
  BY ONLY <1>2, p \in Writers, f \in All DEF DInodes
<1>4. /\ text' \in [All -> Seq(FileWords)] /\ text'[f] = <<>>
      /\ \A g \in All \ {f} : text'[g] = text[g]
  BY <1>2 DEF TextInv
<1>5. TextRight(f)'
  <2>1. Kind(f)' = "none" /\ Written(f)' = 0
    BY <1>3 DEF Kind, Written
  <2> QED BY <2>1, <1>4 DEF TextRight
<1> DEFINE S == {}
<1>6. /\ \A x \in Data \ S : block'[x] = block[x]
      /\ \A g \in All \ {f} :
            /\ inode'[g] = inode[g] /\ iholder'[g] = iholder[g] /\ text'[g] = text[g]
            /\ inode[g].addrs[NDIRECT] \notin S
            /\ \A k \in 0..(MAXFILE - 1) :
                    Kind(g) # "trunc" /\ Lookup(inode[g], k) # 0 => Lookup(inode[g], k) \notin S
  BY <1>2, <1>3, <1>4
<1> HIDE DEF S
<1> QED BY <1>1, <1>2, <1>3, <1>4, <1>5, <1>6, OthersKeep

\* The inode that is read again is the one that was dropped.
LEMMA EvictReads ==
    ASSUME FDInv, TextInv, NEW f \in All, Evict(f)
    PROVE  TextInv'
<1>1. /\ phase = "run" /\ phase' = phase /\ block' = block /\ text' = text
      /\ iholder' = iholder /\ job' = job /\ iholder[f] = NoOne
  BY DEF Evict, mkfsVars
<1>2. inode' = inode
  <2>1. inode[f] = dinode[f]
    <3>1. Kind(f) = "none" /\ CacheRight(f)
      BY <1>1 DEF Kind, FDInv, FileRight
    <3> QED BY <3>1 DEF CacheRight
  <2>2. inode \in [All -> DInodes] /\ inode' = [inode EXCEPT ![f] = dinode[f]]
    BY DEF Evict, FDInv, FDTypes
  <2> QED BY <2>1, <2>2
<1>3. ASSUME NEW g \in All PROVE TextRight(g)' /\ ClearRight(g)'
  <2>1. Kind(g)' = Kind(g) /\ Written(g)' = Written(g)
    BY <1>1, <1>2 DEF Kind, Off, Written
  <2>2. TextRight(g)'
    <3>1. CASE Kind(g) = "trunc"
      BY <2>1, <3>1 DEF TextRight
    <3>2. CASE Kind(g) # "trunc"
      BY <2>1, <3>2, <1>1, <1>2, TextSame DEF TextInv
    <3> QED BY <3>1, <3>2
  <2> QED BY <2>2, <1>1 DEF ClearRight
<1> QED BY <1>1, <1>3 DEF TextInv

\* bzero() and bmap(): the block that is cleared is no block of a file yet, and
\* nor is the indirect block it is entered in.
LEMMA BzeroReads ==
    ASSUME FDInv, TextInv, phase = "run", NEW p \in Writers, Bzero(p)
    PROVE  TextInv'
<1>1. PICK f \in All : f = job[p].f
  BY JobIs DEF FDInv
<1>2. PICK b : b = job[p].fresh
  OBVIOUS
<1>3. PICK k \in 0..(MAXFILE - 1) : k = Bn(p)
  <2>1. Working(p)
    BY <1>1, BzeroIs
  <2> QED BY <1>1, <2>1, WorkingIs
<1>4. PICK t \in Data \cup {0} : t = inode[f].addrs[NDIRECT]
  BY InodeIs DEF FDInv
<1>5. /\ b \in Data /\ b # t /\ Working(p) /\ Kind(f) = "write"
      /\ \A g \in All, i \in Slots : Ref(g, i) # b
      /\ \/ /\ k < NDIRECT /\ inode[f].addrs[k] = 0
            /\ block' = [block EXCEPT ![b] = Zeroes]
            /\ inode' = [inode EXCEPT ![f].addrs[k] = b]
         \/ /\ ~(k < NDIRECT) /\ t = 0
            /\ block' = [block EXCEPT ![b] = Zeroes]
            /\ inode' = [inode EXCEPT ![f].addrs[NDIRECT] = b]
         \/ /\ ~(k < NDIRECT) /\ t \in Data /\ block[t][k - NDIRECT] = 0
            /\ block' = [block EXCEPT ![b] = Zeroes,
                                      ![t] = [block[t] EXCEPT ![k - NDIRECT] = b]]
            /\ inode' = inode
  BY <1>1, <1>2, <1>3, <1>4, BzeroIs
<1>6. /\ iholder[f] = p /\ p # NoOne
  BY <1>1, <1>5, WorkingIs
<1>7. /\ FDTypes /\ OwnersRight /\ inode \in [All -> DInodes]
      /\ block \in [Data -> [0..(BSIZE - 1) -> FileWords]] /\ job \in [Writers -> Jobs]
  BY DEF FDInv, FDTypes
<1>8. /\ phase' = "run" /\ text' = text /\ text' \in [All -> Seq(FileWords)] /\ iholder' = iholder
      /\ job' = [job EXCEPT ![p].fresh = 0]
  BY DEF Bzero, mkfsVars, TextInv
<1>9. /\ \A q \in Writers : q # p => job'[q] = job[q]
      /\ job'[p].kind = job[p].kind /\ job'[p].off = job[p].off
  BY ONLY <1>7, <1>8, p \in Writers DEF Jobs
<1>10. /\ inode'[f].size = inode[f].size
       /\ \A g \in All \ {f} : inode'[g] = inode[g]
  BY <1>1, <1>2, BzeroEnters
<1> DEFINE S == {b, t} \ {0}
<1>11. \A x \in Data \ S : block'[x] = block[x]
  BY <1>5, <1>7, Sizes
<1>12. ASSUME NEW g \in All \ {f} PROVE inode[g].addrs[NDIRECT] \notin S
  <2>1. inode[g].addrs[NDIRECT] # b
    <3>1. Ref(g, NDIRECT) = inode[g].addrs[NDIRECT] /\ NDIRECT \in Slots
      BY AddrIs, Sizes
    <3> QED BY <3>1, <1>5
  <2>2. ASSUME inode[g].addrs[NDIRECT] # 0, inode[g].addrs[NDIRECT] = t PROVE FALSE
    <3>1. Ref(f, NDIRECT) = t /\ NDIRECT \in Slots
      BY <1>4, AddrIs, Sizes
    <3> QED BY <1>7, <2>2, <3>1, NoTable
  <2> QED BY <2>1, <2>2
<1>13. ASSUME NEW g \in All, NEW n \in 0..(MAXFILE - 1), Kind(g) # "trunc", Lookup(inode[g], n) # 0
       PROVE  Lookup(inode[g], n) \in Data \ S
  <2>1. PICK y : y = Lookup(inode[g], n)
    OBVIOUS
  <2>2. /\ y \in Data /\ y = Ref(g, Place(n)) /\ Place(n) \in Slots
        /\ inode[f].addrs[NDIRECT] # y
    BY <2>1, <1>13, BlockOfIs, PlaceIs
  <2> QED BY <2>1, <2>2, <1>4, <1>5
<1>14. Stays(f)
  <2> SUFFICES ASSUME NEW n \in 0..(MAXFILE - 1), Lookup(inode[f], n) # 0
               PROVE  /\ Lookup(inode[f], n)' = Lookup(inode[f], n)
                      /\ block'[Lookup(inode[f], n)] = block[Lookup(inode[f], n)]
    BY DEF Stays, StaysBut
  <2>1. Lookup(inode[f], n) \in Data \ S
    BY <1>5, <1>13
  <2>2. Lookup(inode[f], n)' = Lookup(inode[f], n)
    <3>1. CASE /\ k < NDIRECT /\ inode[f].addrs[k] = 0
               /\ block' = [block EXCEPT ![b] = Zeroes]
               /\ inode' = [inode EXCEPT ![f].addrs[k] = b]
      <4>1. /\ k \in 0..NDIRECT /\ k # NDIRECT
        BY <3>1, Sizes
      <4>2. \A j \in 0..NDIRECT : j # k => inode'[f].addrs[j] = inode[f].addrs[j]
        BY ONLY <3>1, <4>1, <1>7, f \in All DEF DInodes
      <4>3. inode'[f].addrs[NDIRECT] = t /\ (t # 0 => block'[t] = block[t])
        BY <4>1, <4>2, <3>1, <1>4, <1>5, <1>7, Sizes
      <4>4. CASE n < NDIRECT
        <5>1. n \in 0..NDIRECT
          BY <4>4, Sizes
        <5> QED BY <4>2, <4>4, <5>1, <2>1, <3>1, Sizes DEF Lookup
      <4>5. CASE ~(n < NDIRECT)
        BY <4>3, <4>5, <1>4 DEF Lookup
      <4> QED BY <4>4, <4>5
    <3>2. CASE /\ ~(k < NDIRECT) /\ t = 0
               /\ block' = [block EXCEPT ![b] = Zeroes]
               /\ inode' = [inode EXCEPT ![f].addrs[NDIRECT] = b]
      <4>1. n < NDIRECT
        BY <2>1, <3>2, <1>4, Sizes DEF Lookup
      <4>2. n \in 0..NDIRECT /\ n # NDIRECT
        BY <4>1, Sizes
      <4>3. inode'[f].addrs[n] = inode[f].addrs[n]
        BY ONLY <3>2, <4>2, <1>7, f \in All DEF DInodes
      <4> QED BY <4>1, <4>3 DEF Lookup
    <3>3. CASE /\ ~(k < NDIRECT) /\ t \in Data /\ block[t][k - NDIRECT] = 0
               /\ block' = [block EXCEPT ![b] = Zeroes,
                                         ![t] = [block[t] EXCEPT ![k - NDIRECT] = b]]
               /\ inode' = inode
      <4>1. CASE n < NDIRECT
        BY <3>3, <4>1 DEF Lookup
      <4>2. CASE ~(n < NDIRECT)
        <5>1. n - NDIRECT \in 0..(BSIZE - 1) /\ k - NDIRECT \in 0..(BSIZE - 1)
          BY <4>2, <3>3, Sizes
        <5>2. Lookup(inode[f], n) = block[t][n - NDIRECT]
              /\ Lookup(inode[f], n)' = block'[t][n - NDIRECT]
          BY <4>2, <3>3, <1>4, Sizes DEF Lookup
        <5>3. n - NDIRECT # k - NDIRECT
          BY <5>2, <2>1, <3>3, Sizes
        <5>4. block'[t][n - NDIRECT] = block[t][n - NDIRECT]
          BY <5>1, <5>3, <3>3, <1>5, <1>7
        <5> QED BY <5>2, <5>4
      <4> QED BY <4>1, <4>2
    <3> QED BY <3>1, <3>2, <3>3, <1>5
  <2> QED BY <2>1, <2>2, <1>11
<1>15. TextRight(f)'
  <2>1. Kind(f)' = Kind(f) /\ Off(f)' = Off(f)
    BY <1>6, <1>8, <1>9 DEF Kind, Off
  <2>2. Written(f)' = Written(f)
    BY <2>1, <1>10 DEF Written
  <2> QED BY <2>2, <1>5, <1>8, <1>14, TextKeeps DEF TextInv
<1>16. \A g \in All \ {f} :
            /\ inode'[g] = inode[g] /\ iholder'[g] = iholder[g] /\ text'[g] = text[g]
            /\ inode[g].addrs[NDIRECT] \notin S
            /\ \A n \in 0..(MAXFILE - 1) :
                    Kind(g) # "trunc" /\ Lookup(inode[g], n) # 0 => Lookup(inode[g], n) \notin S
  BY <1>8, <1>10, <1>12, <1>13
<1> HIDE DEF S
<1> QED BY <1>1, <1>8, <1>9, <1>11, <1>15, <1>16, OthersKeep

\* The text after m words have been written at off.
LEMMA TextWritten ==
    ASSUME NEW s \in Seq(FileWords), NEW off \in Nat, NEW m \in Nat \ {0}, off <= Len(s),
           NEW word \in FileWords
    PROVE  /\ Overwritten(s, off, m, word) \in Seq(FileWords)
           /\ Len(Overwritten(s, off, m, word)) =
                IF off + m > Len(s) THEN off + m ELSE Len(s)
           /\ \A o \in Nat : o < Len(s) \/ o < off + m =>
                Overwritten(s, off, m, word)[o + 1] =
                    IF off <= o /\ o < off + m THEN word ELSE s[o + 1]
<1> DEFINE n == IF off + m > Len(s) THEN off + m ELSE Len(s)
<1>1. n \in Nat /\ n >= Len(s) /\ n >= off + m /\ (n = Len(s) \/ n = off + m) /\ Len(s) \in Nat
  OBVIOUS
<1>2. Overwritten(s, off, m, word) =
        [i \in 1..n |-> IF i > off /\ i <= off + m THEN word ELSE s[i]]
  BY DEF Overwritten
<1> HIDE DEF n
<1>3. ASSUME NEW i \in 1..n, ~(i > off /\ i <= off + m) PROVE s[i] \in FileWords
  <2>1. i \in 1..Len(s)
    BY <1>1, <1>3
  <2> QED BY <2>1
<1>4. Overwritten(s, off, m, word) \in [1..n -> FileWords]
  BY <1>2, <1>3
<1>5. Overwritten(s, off, m, word) \in Seq(FileWords) /\ Len(Overwritten(s, off, m, word)) = n
  BY <1>1, <1>4, LenProperties, IsASeq
<1>6. ASSUME NEW o \in Nat, o < Len(s) \/ o < off + m
      PROVE  Overwritten(s, off, m, word)[o + 1] =
                    IF off <= o /\ o < off + m THEN word ELSE s[o + 1]
  <2>1. o + 1 \in 1..n
    BY <1>1, <1>6
  <2>2. (o + 1 > off /\ o + 1 <= off + m) <=> (off <= o /\ o < off + m)
    OBVIOUS
  <2> QED BY <1>2, <2>1, <2>2
<1> QED BY <1>5, <1>6 DEF n

\* The words of a block after a part of it has been written.
LEMMA WordCopied ==
    ASSUME NEW w \in [0..(BSIZE - 1) -> FileWords], NEW off \in Nat, NEW m \in Nat \ {0},
           NEW word, NEW o \in Nat, o \div BSIZE = off \div BSIZE
    PROVE  Copied(w, off, m, word)[o % BSIZE] =
                IF off <= o /\ o < off + m THEN word ELSE w[o % BSIZE]
<1>1. /\ o % BSIZE \in 0..(BSIZE - 1) /\ o = BSIZE * (o \div BSIZE) + (o % BSIZE)
      /\ off % BSIZE \in 0..(BSIZE - 1) /\ off = BSIZE * (off \div BSIZE) + (off % BSIZE)
      /\ BSIZE * (off \div BSIZE) \in Nat
  <2>1. BSIZE \in Nat \ {0}
    BY Sizes
  <2>2. /\ o \div BSIZE \in Nat /\ o % BSIZE \in 0..(BSIZE - 1)
        /\ o = BSIZE * (o \div BSIZE) + (o % BSIZE)
    BY ONLY <2>1, o \in Nat, DivIs
  <2>3. /\ off \div BSIZE \in Nat /\ off % BSIZE \in 0..(BSIZE - 1)
        /\ off = BSIZE * (off \div BSIZE) + (off % BSIZE)
    BY ONLY <2>1, off \in Nat, DivIs
  <2>4. ASSUME NEW x \in Nat, NEW y \in Nat PROVE x * y \in Nat
    OBVIOUS
  <2> QED BY <2>1, <2>2, <2>3, <2>4
<1>2. PICK a \in Nat, i \in 0..(BSIZE - 1), j \in 0..(BSIZE - 1) :
        i = o % BSIZE /\ j = off % BSIZE /\ o = a + i /\ off = a + j
  BY <1>1
<1>3. (i >= j /\ i < j + m) <=> (off <= o /\ o < off + m)
  BY ONLY <1>2, m \in Nat \ {0}, Sizes
<1>4. Copied(w, off, m, word)[i] = IF i >= j /\ i < j + m THEN word ELSE w[i]
  BY <1>2 DEF Copied
<1> QED BY <1>2, <1>3, <1>4

\* m words are written at off of file f, in block b of the file: every word of
\* the file is then what the text says.
LEMMA TextCopied ==
    ASSUME FDInv, NEW f \in All, Kind(f) # "trunc", TextRight(f), text[f] \in Seq(FileWords),
           NEW off \in Nat, off <= Written(f), NEW m \in Nat \ {0}, NEW word \in FileWords,
           NEW k \in 0..(MAXFILE - 1), k = off \div BSIZE,
           \A o \in Nat : off <= o /\ o < off + m => o \div BSIZE = k,
           NEW b \in Data, block'[b] = Copied(block[b], off, m, word),
           Lookup(inode[f], k)' = b, Lookup(inode[f], k) \in {0, b}, StaysBut(f, k),
           text'[f] = Overwritten(text[f], off, m, word),
           Written(f)' = IF off + m > Written(f) THEN off + m ELSE Written(f)
    PROVE  TextRight(f)'
<1>1. /\ Len(text[f]) = Written(f) /\ Written(f) \in Nat
      /\ \A o \in Nat : o < Written(f) => Content(f, o) = text[f][o + 1]
  BY WrittenIs DEF TextRight
<1>2. /\ Len(text'[f]) = IF off + m > Len(text[f]) THEN off + m ELSE Len(text[f])
      /\ \A o \in Nat : o < Len(text[f]) \/ o < off + m =>
            text'[f][o + 1] = IF off <= o /\ o < off + m THEN word ELSE text[f][o + 1]
  <2>1. PICK s \in Seq(FileWords) : s = text[f]
    OBVIOUS
  <2>2. off <= Len(s)
    BY <1>1, <2>1
  <2>3. /\ Len(Overwritten(s, off, m, word)) = IF off + m > Len(s) THEN off + m ELSE Len(s)
        /\ \A o \in Nat : o < Len(s) \/ o < off + m =>
            Overwritten(s, off, m, word)[o + 1] =
                IF off <= o /\ o < off + m THEN word ELSE s[o + 1]
    BY ONLY <2>2, s \in Seq(FileWords), off \in Nat, m \in Nat \ {0}, word \in FileWords,
            TextWritten
  <2> QED BY <2>1, <2>3
<1>3. ASSUME NEW o \in Nat, o < Written(f)'
      PROVE  Content(f, o)' = text'[f][o + 1]
  <2>1. o < Written(f) \/ (off <= o /\ o < off + m)
    BY <1>1, <1>3
  <2>2. text'[f][o + 1] = IF off <= o /\ o < off + m THEN word ELSE text[f][o + 1]
    <3>1. o < Len(text[f]) \/ o < off + m
      BY <1>1, <2>1
    <3> QED BY <1>2, <3>1
  <2>3. PICK n : n = o \div BSIZE
    OBVIOUS
  <2>4. CASE n = k
    <3>1. block[b] \in [0..(BSIZE - 1) -> FileWords]
      BY DEF FDInv, FDTypes
    <3>2. n = off \div BSIZE
      BY <2>4
    <3>3. Content(f, o)' = Copied(block[b], off, m, word)[o % BSIZE]
      BY <2>3, <2>4 DEF Content
    <3>4. Content(f, o)' = IF off <= o /\ o < off + m THEN word ELSE block[b][o % BSIZE]
      BY <3>1, <3>2, <3>3, <2>3, WordCopied
    <3>5. ASSUME ~(off <= o /\ o < off + m) PROVE block[b][o % BSIZE] = text[f][o + 1]
      <4>1. o < Written(f)
        BY <2>1, <3>5
      <4>2. Lookup(inode[f], n) # 0
        BY <2>3, <4>1, WrittenIs
      <4>3. Lookup(inode[f], n) = b
        BY <4>2, <2>4
      <4> QED BY <4>1, <4>3, <1>1, <2>3 DEF Content
    <3> QED BY <2>2, <3>4, <3>5
  <2>5. CASE n # k
    <3>1. ~(off <= o /\ o < off + m) /\ o < Written(f)
      BY <2>1, <2>3, <2>5
    <3>2. n \in 0..(MAXFILE - 1) /\ Lookup(inode[f], n) # 0
      BY <2>3, <3>1, WrittenIs
    <3>3. /\ Lookup(inode[f], n)' = Lookup(inode[f], n)
          /\ block'[Lookup(inode[f], n)] = block[Lookup(inode[f], n)]
      BY <3>2, <2>5 DEF StaysBut
    <3>4. Content(f, o)' = Content(f, o)
      BY <2>3, <3>3 DEF Content
    <3> QED BY <3>1, <3>4, <1>1, <2>2
  <2> QED BY <2>4, <2>5
<1> QED BY <1>1, <1>2, <1>3 DEF TextRight

\* readi() and writei() between two blocks: what has been copied is the text.
LEMMA CopyPartReads ==
    ASSUME FDInv, TextInv, phase = "run", NEW p \in Writers, CopyPart(p)
    PROVE  TextInv'
<1>1. PICK f \in All : f = job[p].f
  BY JobIs DEF FDInv
<1>2. PICK k : k = Bn(p)
  OBVIOUS
<1>3. PICK b : b = Lookup(inode[f], k)
  OBVIOUS
<1>4. PICK m : m = PartLen(job[p].off, job[p].end)
  OBVIOUS
<1>5. PICK off : off = job[p].off
  OBVIOUS
<1>6. /\ Working(p) /\ b # 0 /\ iholder[f] = p /\ p # NoOne
      /\ Kind(f) = job[p].kind /\ Off(f) = off /\ End(f) = job[p].end
      /\ Kind(f) \in {"read", "write"} /\ k \in 0..(MAXFILE - 1) /\ k = off \div BSIZE
      /\ off \in Nat /\ End(f) \in Nat /\ off < End(f)
  BY <1>1, <1>2, <1>3, <1>5, WorkingIs DEF CopyPart, Missing
<1>7. /\ m \in Nat \ {0}
      /\ \A o \in Nat : off <= o /\ o < off + m => o \div BSIZE = k
  BY <1>4, <1>5, <1>6, PartIs
<1>8. /\ FDTypes /\ phase' = "run" /\ inode' = inode /\ iholder' = iholder
      /\ job' = [job EXCEPT ![p].off = off + m] /\ job \in [Writers -> Jobs]
      /\ job[p].word \in FileWords
      /\ block \in [Data -> [0..(BSIZE - 1) -> FileWords]]
  <2>1. FDTypes /\ job[p] \in Jobs
    BY JobIs DEF FDInv
  <2> QED BY <2>1, <1>4, <1>5 DEF CopyPart, mkfsVars, FDTypes, Jobs
<1>9. /\ \A q \in Writers : q # p => job'[q] = job[q]
      /\ job'[p].kind = job[p].kind /\ job'[p].off = off + m
  BY ONLY <1>8, p \in Writers DEF Jobs
<1>10. Kind(f)' = Kind(f) /\ Off(f)' = off + m
  BY <1>6, <1>8, <1>9 DEF Kind, Off
<1>11. /\ b \in Data /\ \A g \in All : inode[g].addrs[NDIRECT] # b
       /\ \A g \in All, n \in 0..(MAXFILE - 1) :
            Kind(g) # "trunc" /\ Lookup(inode[g], n) = b => g = f /\ n = k
  BY <1>3, <1>6, BlockOfIs
<1>12. text \in [All -> Seq(FileWords)] /\ TextRight(f)
  BY DEF TextInv
<1>0. PICK S : S = {b}
  OBVIOUS
<1>13. phase' = "run" /\ \A q \in Writers : q # p => job'[q] = job[q]
  BY <1>8, <1>9
<1>14. CASE Kind(f) = "read"
  <2>1. block' = block /\ text' = text
    BY <1>14, <1>6 DEF CopyPart
  <2>2. Written(f)' = Written(f)
    BY <1>8, <1>10, <1>14 DEF Written
  <2>3. TextRight(f)'
    BY <2>1, <2>2, <1>8, <1>12, <1>14, TextSame
  <2>4. \A g \in All \ {f} :
            /\ inode'[g] = inode[g] /\ iholder'[g] = iholder[g] /\ text'[g] = text[g]
            /\ inode[g].addrs[NDIRECT] \notin S
            /\ \A n \in 0..(MAXFILE - 1) :
                    Kind(g) # "trunc" /\ Lookup(inode[g], n) # 0 => Lookup(inode[g], n) \notin S
    BY <2>1, <1>0, <1>8, <1>11
  <2>5. /\ \A x \in Data \ S : block'[x] = block[x]
        /\ text' \in [All -> Seq(FileWords)]
    BY <2>1, <1>12
  <2> QED BY <2>3, <2>4, <2>5, <1>1, <1>13, OthersKeep
<1>15. CASE Kind(f) = "write"
  <2>1. PICK word \in FileWords : word = job[p].word
    BY <1>8
  <2>2. /\ block' = [block EXCEPT ![b] = Copied(block[b], off, m, word)]
        /\ text' = [text EXCEPT ![f] = Overwritten(text[f], off, m, word)]
    BY <2>1, <1>1, <1>2, <1>3, <1>4, <1>5, <1>6, <1>15 DEF CopyPart
  <2>3. Written(f) \in Nat /\ off <= Written(f) /\ Len(text[f]) = Written(f)
        /\ inode[f].size \in Nat
    <3>1. Written(f) \in Nat /\ off <= Written(f)
      BY <1>6, <1>15, WrittenIs
    <3> QED BY <3>1, <1>8, <1>12, <1>15, InodeIs DEF TextRight
  <2>4. Overwritten(text[f], off, m, word) \in Seq(FileWords)
    <3>1. PICK s \in Seq(FileWords) : s = text[f]
      BY <1>12
    <3>2. off <= Len(s)
      BY <2>3, <3>1
    <3>3. Overwritten(s, off, m, word) \in Seq(FileWords)
      BY ONLY <3>2, s \in Seq(FileWords), word \in FileWords, <1>6, <1>7, TextWritten
    <3> QED BY <3>1, <3>3
  <2>5. /\ text' \in [All -> Seq(FileWords)]
        /\ text'[f] = Overwritten(text[f], off, m, word)
        /\ \A g \in All \ {f} : text'[g] = text[g]
    BY <2>2, <2>4, <1>12
  <2>6. /\ \A x \in Data \ S : block'[x] = block[x]
        /\ block'[b] = Copied(block[b], off, m, word)
    BY <2>2, <1>0, <1>8, <1>11
  <2>7. \A n : Lookup(inode[f], n)' = Lookup(inode[f], n)
    <3>1. inode[f].addrs[NDIRECT] # 0 =>
                block'[inode[f].addrs[NDIRECT]] = block[inode[f].addrs[NDIRECT]]
      <4>1. inode[f].addrs[NDIRECT] \in Data \cup {0} /\ inode[f].addrs[NDIRECT] # b
        BY <1>8, <1>11, InodeIs
      <4> QED BY <4>1, <2>6, <1>0
    <3> QED BY <3>1, <1>8 DEF Lookup
  <2>8. StaysBut(f, k)
    <3>1. ASSUME NEW n \in 0..(MAXFILE - 1), n # k, Lookup(inode[f], n) # 0
          PROVE  block'[Lookup(inode[f], n)] = block[Lookup(inode[f], n)]
      <4>1. Lookup(inode[f], n) \in Data
        BY <3>1, <1>15, BlockOfIs
      <4>2. Lookup(inode[f], n) # b
        BY <3>1, <1>11, <1>15
      <4> QED BY <4>1, <4>2, <2>6, <1>0
    <3> QED BY <3>1, <2>7 DEF StaysBut
  <2>9. Written(f)' = IF off + m > Written(f) THEN off + m ELSE Written(f)
    <3>1. inode'[f].size = inode[f].size
      BY <1>8
    <3>2. Written(f)' = IF off + m > inode[f].size THEN off + m ELSE inode[f].size
      BY <3>1, <1>10, <1>15 DEF Written
    <3>3. Written(f) = IF off > inode[f].size THEN off ELSE inode[f].size
      BY <1>6, <1>15 DEF Written
    <3> QED BY <3>2, <3>3, <2>3, <1>6, <1>7
  <2>10. /\ text[f] \in Seq(FileWords) /\ Lookup(inode[f], k)' = b
         /\ Lookup(inode[f], k) \in {0, b} /\ Kind(f) # "trunc"
    BY <2>7, <1>3, <1>12, <1>15
  <2>11. TextRight(f)'
    BY <2>3, <2>5, <2>6, <2>8, <2>9, <2>10, <1>6, <1>7, <1>11, <1>12, TextCopied
  <2>12. \A g \in All \ {f} :
            /\ inode'[g] = inode[g] /\ iholder'[g] = iholder[g] /\ text'[g] = text[g]
            /\ inode[g].addrs[NDIRECT] \notin S
            /\ \A n \in 0..(MAXFILE - 1) :
                    Kind(g) # "trunc" /\ Lookup(inode[g], n) # 0 => Lookup(inode[g], n) \notin S
    BY <2>5, <1>0, <1>8, <1>11
  <2> QED BY <2>5, <2>6, <2>11, <2>12, <1>1, <1>13, OthersKeep
<1> QED BY <1>6, <1>14, <1>15

\* Block bn of the file is then x, and every other block of a file is where it
\* was and holds what it held.
AppendMoved(f, n, word, bn, x) ==
    /\ Lookup(inode[f], bn)' = x /\ Lookup(inode[f], bn) \in {0, x}
    /\ Lookup(inode[f], bn) = 0 => block[x] = Zeroes
    /\ block'[x] = Copied(block[x], inode[f].size, n, word)
    /\ \A g \in All, m \in 0..(MAXFILE - 1) : ~(g = f /\ m = bn) =>
            /\ Lookup(inode[g], m)' = Lookup(inode[g], m)
            /\ Lookup(inode[g], m) # 0 =>
                block'[Lookup(inode[g], m)] = block[Lookup(inode[g], m)]

\* iappend() writes to one block of the file, and moves no other.
LEMMA AppendMoves ==
    ASSUME FDInv, NEW f \in All, NEW n \in Nat \ {0}, NEW word \in FileWords,
           Iappend(f, n, word),
           NEW bn \in 0..(MAXFILE - 1), NEW x \in Data, NEW t \in Data \cup {0},
           NEW t2 \in Data \cup {0}, NEW z \in Nat \ {0},
           Appended(f, n, word, bn, x, t, t2, z)
    PROVE  AppendMoved(f, n, word, bn, x)
<1>1. AppendChanges(f, n, bn, x, t, t2, z)
  BY AppendedIs, Zenon
<1>2. /\ bn = inode[f].size \div BSIZE /\ t = inode[f].addrs[NDIRECT] /\ z = freeblock
      /\ EntersOne(Lookup(inode[f], bn), bn, x, t, t2, z)
  BY DEF Appended
<1>3. /\ phase = "mkfs" /\ FDTypes /\ \A g \in All : Kind(g) = "none"
      /\ \A b \in Data : b >= z => block[b] = Zeroes
      /\ Used = 1..(z - 1) /\ NDIRECT \in Nat \ {0} /\ BSIZE \in Nat \ {0}
      /\ MAXFILE = NDIRECT + BSIZE /\ 0 \notin Data /\ Data \subseteq Nat
      /\ block \in [Data -> [0..(BSIZE - 1) -> FileWords]]
      /\ inode[f].addrs \in [0..NDIRECT -> Data \cup {0}]
  <2>1. phase = "mkfs" /\ FDTypes
    BY IappendIs DEF FDInv
  <2> QED BY <2>1, <1>2, Sizes, ImageFile, InodeIs DEF FDInv, ImageRight, Used, FDTypes
<1>4. /\ \A g \in All : inode[g].addrs[NDIRECT] # 0 =>
            /\ inode[g].addrs[NDIRECT] \in 1..(z - 1) /\ inode[g].addrs[NDIRECT] # x
            /\ g # f => inode[g].addrs[NDIRECT] # t2
      /\ x # t2 /\ (t # 0 => x # t)
      /\ \A y \in Data : y # x /\ ~(y = t2 /\ bn >= NDIRECT) => block'[y] = block[y]
      /\ bn >= NDIRECT => t2 \in Data /\ block'[t2] = [block[t2] EXCEPT ![bn - NDIRECT] = x]
      /\ \A g \in All \ {f} : inode'[g] = inode[g]
      /\ \A i \in 0..NDIRECT : inode'[f].addrs[i] =
                IF i = bn THEN (IF bn < NDIRECT THEN x ELSE t2)
                ELSE IF i = NDIRECT THEN t2 ELSE inode[f].addrs[i]
  BY <1>1 DEF AppendChanges
<1>5. PICK l : l = Lookup(inode[f], bn)
  OBVIOUS
<1>6. /\ l \in {0, x} /\ (l = 0 => block[x] = Zeroes) /\ (l # 0 => x = l)
      /\ t2 = t \/ (t = 0 /\ t2 = z)
      /\ l = 0 => x >= z
  <2>1. /\ x = l \/ (l = 0 /\ x = z) \/ (l = 0 /\ x = z + 1)
        /\ t2 = t \/ (t = 0 /\ t2 = z)
    BY <1>2, <1>5 DEF EntersOne
  <2>2. x # 0
    BY <1>3
  <2>3. l = 0 => x >= z
    BY <2>1, <2>2
  <2> QED BY <2>1, <2>2, <2>3, <1>3
<1>7. block'[x] = Copied(block[x], inode[f].size, n, word)
  BY <1>4 DEF Appended
<1>8. Lookup(inode[f], bn)' = x
  <2>1. CASE bn < NDIRECT
    <3>1. bn \in 0..NDIRECT
      BY <2>1, <1>3
    <3> QED BY <2>1, <3>1, <1>4 DEF Lookup
  <2>2. CASE ~(bn < NDIRECT)
    <3>1. bn >= NDIRECT /\ NDIRECT \in 0..NDIRECT /\ bn - NDIRECT \in 0..(BSIZE - 1)
      BY <2>2, <1>3
    <3>2. inode'[f].addrs[NDIRECT] = t2 /\ t2 # 0 /\ t2 \in Data
      BY <2>2, <3>1, <1>3, <1>4
    <3>3. block'[t2][bn - NDIRECT] = x
      BY <3>1, <3>2, <1>3, <1>4
    <3> QED BY <2>2, <3>2, <3>3 DEF Lookup
  <2> QED BY <2>1, <2>2
<1>9. ASSUME NEW g \in All, NEW m \in 0..(MAXFILE - 1), ~(g = f /\ m = bn),
             Lookup(inode[g], m) # 0
      PROVE  block'[Lookup(inode[g], m)] = block[Lookup(inode[g], m)]
  <2>1. PICK y : y = Lookup(inode[g], m)
    OBVIOUS
  <2>2. /\ y \in Data /\ y \in 1..(z - 1) /\ \A h \in All : inode[h].addrs[NDIRECT] # y
        /\ \A h \in All, k \in 0..(MAXFILE - 1) : Lookup(inode[h], k) = y => h = g /\ k = m
    <3>1. /\ y \in Data /\ y \in Used /\ \A h \in All : inode[h].addrs[NDIRECT] # y
          /\ \A h \in All, k \in 0..(MAXFILE - 1) :
                Kind(h) # "trunc" /\ Lookup(inode[h], k) = y => h = g /\ k = m
      <4>1. Kind(g) # "trunc" /\ y # 0
        BY <2>1, <1>3, <1>9
      <4> QED BY <2>1, <4>1, BlockOfIs
    <3>2. \A h \in All : Kind(h) # "trunc"
      BY <1>3
    <3> QED BY <3>1, <3>2, <1>3
  <2>3. y # x
    <3>1. l = 0 => y # x
      BY <2>2, <1>3, <1>6
    <3>2. l # 0 => y # x
      BY <2>2, <1>5, <1>6, <1>9
    <3> QED BY <3>1, <3>2
  <2>4. y # t2
    BY <2>2, <1>2, <1>6
  <2> QED BY <2>1, <2>2, <2>3, <2>4, <1>4
<1>10. ASSUME NEW g \in All \ {f}, NEW m \in 0..(MAXFILE - 1)
       PROVE  Lookup(inode[g], m)' = Lookup(inode[g], m)
  <2>1. inode[g].addrs[NDIRECT] # 0 =>
            block'[inode[g].addrs[NDIRECT]] = block[inode[g].addrs[NDIRECT]]
    <3>1. inode[g].addrs[NDIRECT] \in Data \cup {0}
      BY <1>3, InodeIs
    <3> QED BY <3>1, <1>4
  <2> QED BY <2>1, <1>4 DEF Lookup
<1>11. ASSUME NEW m \in 0..(MAXFILE - 1), m # bn
       PROVE  Lookup(inode[f], m)' = Lookup(inode[f], m)
  <2>1. CASE m < NDIRECT
    <3>1. m \in 0..NDIRECT /\ m # NDIRECT
      BY <2>1, <1>3
    <3> QED BY <2>1, <3>1, <1>4, <1>11 DEF Lookup
  <2>2. CASE ~(m < NDIRECT)
    <3>1. m - NDIRECT \in 0..(BSIZE - 1) /\ NDIRECT \in 0..NDIRECT
      BY <2>2, <1>3
    <3>2. inode'[f].addrs[NDIRECT] = t2
      <4>1. NDIRECT = bn => ~(bn < NDIRECT)
        BY <1>3
      <4> QED BY <3>1, <4>1, <1>4
    <3>3. ASSUME bn >= NDIRECT PROVE block'[t2][m - NDIRECT] = block[t2][m - NDIRECT] /\ t2 # 0
      <4>1. m - NDIRECT # bn - NDIRECT /\ t2 \in Data
        BY <3>3, <1>3, <1>4, <1>11
      <4> QED BY <3>1, <3>3, <4>1, <1>3, <1>4
    <3>4. CASE t # 0
      <4>1. t2 = t /\ t \in Data /\ x # t
        BY <3>4, <1>4, <1>6
      <4>2. block'[t][m - NDIRECT] = block[t][m - NDIRECT]
        BY <3>3, <4>1, <1>4
      <4> QED BY <2>2, <3>2, <3>4, <4>1, <4>2, <1>2 DEF Lookup
    <3>5. CASE t = 0 /\ bn >= NDIRECT
      <4>1. t2 = z /\ t2 \in Data
        BY <3>3, <3>5, <1>4, <1>6
      <4>2. block[t2][m - NDIRECT] = 0
        <5>1. block[t2] = Zeroes
          BY <4>1, <1>3
        <5> QED BY <5>1, <3>1 DEF Zeroes
      <4> QED BY <2>2, <3>2, <3>3, <3>5, <4>2, <1>2 DEF Lookup
    <3>6. CASE t = 0 /\ ~(bn >= NDIRECT)
      <4>1. t2 = 0
        BY <3>6, <1>2, <1>3 DEF EntersOne
      <4> QED BY <2>2, <3>2, <3>6, <4>1, <1>2 DEF Lookup
    <3> QED BY <3>4, <3>5, <3>6
  <2> QED BY <2>1, <2>2
<1> QED BY <1>5, <1>6, <1>7, <1>8, <1>9, <1>10, <1>11 DEF AppendMoved

\* iappend(): the words are at the end of the file, and what is left of the last
\* block stays clear.
LEMMA IappendReads ==
    ASSUME FDInv, TextInv, NEW f \in All, NEW n \in Nat \ {0}, NEW word \in FileWords,
           Iappend(f, n, word)
    PROVE  TextInv'
<1>1. PICK bn \in 0..(MAXFILE - 1), x \in Data, t \in Data \cup {0}, t2 \in Data \cup {0},
           z \in Nat \ {0} : Appended(f, n, word, bn, x, t, t2, z)
  BY IappendIs, Zenon
<1>2. /\ phase = "mkfs" /\ FDTypes /\ \A g \in All : Kind(g) = "none" /\ Kind(g)' = "none"
      /\ \A g \in All : TextRight(g) /\ ClearRight(g)
      /\ text \in [All -> Seq(FileWords)]
      /\ block \in [Data -> [0..(BSIZE - 1) -> FileWords]]
  <2>1. phase = "mkfs" /\ iholder' = iholder
    BY IappendIs
  <2>2. \A g \in All : Kind(g) = "none" /\ iholder[g] = NoOne
    BY <2>1, ImageFile
  <2>3. \A g \in All : Kind(g)' = "none"
    BY <2>1, <2>2 DEF Kind
  <2> QED BY <2>1, <2>2, <2>3 DEF TextInv, FDInv, FDTypes
<1>3. /\ Lookup(inode[f], bn)' = x /\ Lookup(inode[f], bn) \in {0, x}
      /\ Lookup(inode[f], bn) = 0 => block[x] = Zeroes
      /\ block'[x] = Copied(block[x], inode[f].size, n, word)
      /\ \A g \in All, m \in 0..(MAXFILE - 1) : ~(g = f /\ m = bn) =>
            /\ Lookup(inode[g], m)' = Lookup(inode[g], m)
            /\ Lookup(inode[g], m) # 0 =>
                block'[Lookup(inode[g], m)] = block[Lookup(inode[g], m)]
  <2>1. AppendMoved(f, n, word, bn, x)
    BY <1>1, AppendMoves, Zenon
  <2> QED BY <2>1 DEF AppendMoved
<1>4. PICK s \in Nat : s = inode[f].size
  BY <1>2, InodeIs
<1>5. /\ inode'[f].size = s + n /\ \A g \in All \ {f} : inode'[g] = inode[g]
  <2>1. AppendChanges(f, n, bn, x, t, t2, z)
    BY <1>1, AppendedIs, Zenon
  <2> QED BY <2>1, <1>4 DEF AppendChanges
<1>6. /\ bn = s \div BSIZE /\ s + n \in Nat
      /\ \A o \in Nat : s <= o /\ o < s + n => o \div BSIZE = bn
  BY <1>1, <1>4 DEF Appended
<1>7. \A g \in All : Written(g) = inode[g].size /\ Written(g)' = inode'[g].size
  BY <1>2 DEF Written
<1>8. text' = [text EXCEPT ![f] = Overwritten(text[f], s, n, word)] /\ Len(text[f]) = s
  <2>1. inode = dinode
    BY <1>2, ImageFile
  <2>2. text' = [text EXCEPT ![f] = Overwritten(text[f], s, n, word)]
    BY <2>1, <1>4 DEF Iappend
  <2>3. Len(text[f]) = s
    BY <1>2, <1>4, <1>7 DEF TextRight
  <2> QED BY <2>2, <2>3
<1>9. /\ text' \in [All -> Seq(FileWords)] /\ text'[f] = Overwritten(text[f], s, n, word)
      /\ \A g \in All \ {f} : text'[g] = text[g]
  <2>1. PICK q \in Seq(FileWords) : q = text[f]
    BY <1>2
  <2>2. s <= Len(q)
    BY <2>1, <1>8
  <2>3. Overwritten(q, s, n, word) \in Seq(FileWords)
    BY ONLY <2>2, q \in Seq(FileWords), s \in Nat, n \in Nat \ {0}, word \in FileWords, TextWritten
  <2> QED BY <2>1, <2>3, <1>2, <1>8
<1>10. TextRight(f)'
  <2>1. StaysBut(f, bn)
    BY <1>3 DEF StaysBut
  <2>2. /\ Written(f) = s /\ Written(f)' = IF s + n > Written(f) THEN s + n ELSE Written(f)
        /\ s <= Written(f)
    BY <1>4, <1>5, <1>6, <1>7
  <2>3. /\ block'[x] = Copied(block[x], s, n, word) /\ text[f] \in Seq(FileWords)
        /\ Kind(f) # "trunc" /\ TextRight(f)
        /\ Lookup(inode[f], bn)' = x /\ Lookup(inode[f], bn) \in {0, x}
        /\ text'[f] = Overwritten(text[f], s, n, word)
    BY <1>2, <1>3, <1>4, <1>9
  <2> QED BY <2>1, <2>2, <2>3, <1>6, TextCopied
<1>11. ClearRight(f)'
  <2> SUFFICES ASSUME NEW o \in Nat, NEW m \in 0..(MAXFILE - 1), m = o \div BSIZE,
                      o >= s + n, Lookup(inode[f], m)' # 0
               PROVE  Content(f, o)' = 0
    BY <1>5 DEF ClearRight
  <2>1. o >= s
    <3>1. s \in Nat /\ n \in Nat /\ o \in Nat /\ o >= s + n
      OBVIOUS
    <3> QED BY ONLY <3>1
  <2>2. Lookup(inode[f], m) # 0 => Content(f, o) = 0
    BY <2>1, <1>2, <1>4 DEF ClearRight
  <2>3. CASE m = bn
    <3>1. Content(f, o)' = Copied(block[x], s, n, word)[o % BSIZE]
      BY <2>3, <1>3, <1>4 DEF Content
    <3>2. /\ block[x] \in [0..(BSIZE - 1) -> FileWords] /\ o \div BSIZE = s \div BSIZE
          /\ ~(s <= o /\ o < s + n)
      <4>1. s \in Nat /\ n \in Nat /\ o \in Nat /\ o >= s + n
        OBVIOUS
      <4>2. ~(s <= o /\ o < s + n)
        BY ONLY <4>1
      <4> QED BY <4>2, <2>3, <1>2, <1>6
    <3>3. Content(f, o)' = block[x][o % BSIZE]
      BY <3>1, <3>2, WordCopied
    <3>4. CASE Lookup(inode[f], bn) = 0
      <4>1. o % BSIZE \in 0..(BSIZE - 1)
        BY DivIs, Sizes
      <4> QED BY <3>3, <3>4, <4>1, <1>3 DEF Zeroes
    <3>5. CASE Lookup(inode[f], bn) # 0
      <4>1. Lookup(inode[f], m) = x
        BY <2>3, <3>5, <1>3
      <4>2. Content(f, o) = block[x][o % BSIZE]
        BY <4>1 DEF Content
      <4> QED BY <2>2, <2>3, <3>3, <3>5, <4>2
    <3> QED BY <3>4, <3>5
  <2>4. CASE m # bn
    <3>1. /\ Lookup(inode[f], m)' = Lookup(inode[f], m) /\ Lookup(inode[f], m) # 0
          /\ block'[Lookup(inode[f], m)] = block[Lookup(inode[f], m)]
      BY <2>4, <1>3
    <3>2. Content(f, o)' = Content(f, o)
      BY <3>1 DEF Content
    <3> QED BY <2>2, <3>1, <3>2
  <2> QED BY <2>3, <2>4
<1>12. ASSUME NEW g \in All \ {f} PROVE TextRight(g)' /\ ClearRight(g)'
  <2>1. Stays(g)
    BY <1>3 DEF Stays, StaysBut
  <2>2. TextRight(g)'
    BY <2>1, <1>2, <1>5, <1>7, <1>9, TextKeeps
  <2>3. ClearRight(g)'
    <3> SUFFICES ASSUME NEW o \in Nat, NEW m \in 0..(MAXFILE - 1), m = o \div BSIZE,
                        o >= inode[g].size, Lookup(inode[g], m)' # 0
                 PROVE  Content(g, o)' = 0
      BY <1>5 DEF ClearRight
    <3>1. /\ Lookup(inode[g], m)' = Lookup(inode[g], m) /\ Lookup(inode[g], m) # 0
          /\ block'[Lookup(inode[g], m)] = block[Lookup(inode[g], m)]
      BY <1>3
    <3>2. Content(g, o)' = Content(g, o)
      BY <3>1 DEF Content
    <3>3. Content(g, o) = 0
      BY <3>1, <1>2 DEF ClearRight
    <3> QED BY <3>2, <3>3
  <2> QED BY <2>2, <2>3
<1> QED BY <1>9, <1>10, <1>11, <1>12 DEF TextInv

\* The end of mkfs: what the root gains by the rounding of its size is clear.
LEMMA MkfsEndReads ==
    ASSUME FDInv, TextInv, MkfsEnd
    PROVE  TextInv'
<1>1. /\ phase = "mkfs" /\ phase' = "run" /\ block' = block /\ iholder' = iholder /\ job' = job
      /\ inode' = dinode' /\ FDTypes /\ Root \in All
      /\ \A g \in All : TextRight(g) /\ ClearRight(g)
      /\ text \in [All -> Seq(FileWords)]
  BY Sizes DEF MkfsEnd, FDInv, TextInv
<1>2. PICK s \in Nat : s = inode[Root].size
  BY <1>1, InodeIs
<1>3. /\ inode = dinode /\ s <= MAXFILE * BSIZE /\ s % BSIZE # 0 /\ inode \in [All -> DInodes]
  BY <1>1, <1>2, ImageFile, InodeIs DEF MkfsEnd, FDTypes
<1>4. PICK r \in 0..(MAXFILE * BSIZE) :
        /\ r = (s \div BSIZE + 1) * BSIZE
        /\ \A o \in Nat : o < r =>
             o < s \/ \E o2 \in Nat : o2 < s /\ o2 \div BSIZE = o \div BSIZE
  BY <1>3, RoundedIs
<1>5. /\ inode'[Root].size = r /\ inode'[Root].addrs = inode[Root].addrs
      /\ \A g \in All \ {Root} : inode'[g] = inode[g]
  <2>1. inode' = [inode EXCEPT ![Root].size = r]
    BY <1>1, <1>2, <1>3, <1>4 DEF MkfsEnd, FDTypes
  <2> QED BY ONLY <2>1, <1>1, <1>3, r \in 0..(MAXFILE * BSIZE) DEF DInodes
<1>6. \A g \in All : Kind(g) = "none" /\ Kind(g)' = "none"
  <2>1. \A g \in All : Kind(g) = "none" /\ iholder[g] = NoOne
    BY <1>1, ImageFile
  <2> QED BY <2>1, <1>1 DEF Kind
<1>7. \A g \in All : Written(g) = inode[g].size /\ Written(g)' = inode'[g].size
  BY <1>6 DEF Written
<1>8. \A g \in All : \A n : Lookup(inode[g], n)' = Lookup(inode[g], n)
  BY <1>1, <1>5 DEF Lookup
<1>9. /\ text' \in [All -> Seq(FileWords)] /\ \A g \in All \ {Root} : text'[g] = text[g]
      /\ Len(text'[Root]) = r /\ Len(text[Root]) = s
      /\ \A o \in Nat : o < r => text'[Root][o + 1] = IF o < s THEN text[Root][o + 1] ELSE 0
  <2>1. Len(text[Root]) = s
    BY <1>1, <1>2, <1>6, <1>7 DEF TextRight
  <2>2. PICK q \in Seq(FileWords) : q = text[Root] /\ Len(q) = s
    BY <2>1, <1>1
  <2>3. text' = [text EXCEPT ![Root] = [i \in 1..r |-> IF i <= Len(q) THEN q[i] ELSE 0]]
    BY <2>2, <1>1, <1>5 DEF MkfsEnd
  <2>4. PICK q2 : q2 = [i \in 1..r |-> IF i <= Len(q) THEN q[i] ELSE 0]
    OBVIOUS
  <2>5. r \in Nat /\ 0 \in FileWords
    BY Sizes DEF FileWords
  <2>6. q2 \in [1..r -> FileWords]
    BY <2>4, <2>5
  <2>7. q2 \in Seq(FileWords) /\ Len(q2) = r
    BY <2>5, <2>6, LenProperties, IsASeq
  <2>8. \A o \in Nat : o < r => q2[o + 1] = IF o < s THEN q[o + 1] ELSE 0
    BY <2>2, <2>4, <2>5
  <2> QED BY <2>1, <2>2, <2>3, <2>4, <2>7, <2>8, <1>1
<1>10. TextRight(Root)'
  <2>1. ASSUME NEW o \in Nat, o < r PROVE Content(Root, o)' = text'[Root][o + 1]
    <3>1. Content(Root, o)' = Content(Root, o)
      BY <1>1, <1>8 DEF Content
    <3>2. CASE o < s
      <4>1. Content(Root, o) = text[Root][o + 1]
        BY <3>2, <1>1, <1>2, <1>6, <1>7 DEF TextRight
      <4> QED BY <2>1, <3>1, <3>2, <4>1, <1>9
    <3>3. CASE ~(o < s)
      <4>1. PICK o2 \in Nat : o2 < s /\ o2 \div BSIZE = o \div BSIZE
        BY <2>1, <3>3, <1>4
      <4>2. o2 \div BSIZE \in 0..(MAXFILE - 1) /\ Lookup(inode[Root], o2 \div BSIZE) # 0
        <5>1. o2 < Written(Root) /\ Kind(Root) # "trunc"
          BY <4>1, <1>1, <1>2, <1>6, <1>7
        <5> QED BY <5>1, <1>1, WrittenIs
      <4>3. o >= s
        BY ONLY <3>3, o \in Nat, s \in Nat
      <4>4. o \div BSIZE \in 0..(MAXFILE - 1) /\ Lookup(inode[Root], o \div BSIZE) # 0
        BY <4>1, <4>2
      <4>5. Content(Root, o) = 0
        BY <4>3, <4>4, <1>1, <1>2 DEF ClearRight
      <4> QED BY <2>1, <3>1, <3>3, <4>5, <1>9
    <3> QED BY <3>2, <3>3
  <2> QED BY <2>1, <1>1, <1>5, <1>7, <1>9 DEF TextRight
<1>11. ASSUME NEW g \in All \ {Root} PROVE TextRight(g)'
  <2>1. Kind(g) # "trunc" /\ Written(g)' = Written(g) /\ TextRight(g)
    BY <1>1, <1>5, <1>6, <1>7
  <2> QED BY <2>1, <1>1, <1>5, <1>9, TextSame
<1>12. \A g \in All : ClearRight(g)'
  BY <1>1 DEF ClearRight
<1> QED BY <1>9, <1>10, <1>11, <1>12 DEF TextInv

\* The image before mkfs has appended anything: every file is empty.
LEMMA InitReads == FDInit => TextInv
<1> SUFFICES ASSUME FDInit PROVE TextInv
  OBVIOUS
<1>1. /\ text \in [All -> Seq(FileWords)]
      /\ \A f \in All : text[f] = <<>> /\ inode[f] = Empty /\ iholder[f] = NoOne
  BY DEF FDInit
<1>2. NDIRECT \in Nat \ {0} /\ NDIRECT \in 0..NDIRECT
  BY Sizes
<1>3. ASSUME NEW f \in All PROVE TextRight(f) /\ ClearRight(f)
  <2>1. Kind(f) = "none" /\ Written(f) = 0 /\ Len(text[f]) = 0
    BY <1>1 DEF Kind, Written, Empty
  <2>2. ASSUME NEW m \in 0..(MAXFILE - 1) PROVE Lookup(inode[f], m) = 0
    <3>1. \A i \in 0..NDIRECT : inode[f].addrs[i] = 0
      <4>1. Empty.addrs = [i \in 0..NDIRECT |-> 0]
        BY DEF Empty
      <4>2. inode[f].addrs = [i \in 0..NDIRECT |-> 0]
        BY <4>1, <1>1
      <4> QED BY <4>2
    <3>2. m < NDIRECT => m \in 0..NDIRECT
      BY <1>2
    <3> QED BY <3>1, <3>2, <1>2 DEF Lookup
  <2>3. TextRight(f)
    BY <2>1 DEF TextRight
  <2>4. ClearRight(f)
    BY <2>2 DEF ClearRight
  <2> QED BY <2>3, <2>4
<1> QED BY <1>1, <1>3 DEF TextInv

\* Every step of mkfs and of the calls keeps what the files read as.
LEMMA NextReads == FDInv /\ TextInv /\ [FDNext]_fdVars => TextInv'
<1> SUFFICES ASSUME FDInv, TextInv, [FDNext]_fdVars PROVE TextInv'
  OBVIOUS
<1>1. CASE Iappend(Root, 1, ImageWord) \/ \E f \in Inodes, n \in 1..BSIZE : Iappend(f, n, ImageWord)
  <2>1. PICK f \in All, n \in Nat \ {0} : Iappend(f, n, ImageWord)
    BY <1>1, Sizes DEF All
  <2>2. ImageWord \in FileWords
    BY DEF FileWords
  <2> QED BY <2>1, <2>2, IappendReads
<1>2. CASE MkfsEnd
  BY <1>2, MkfsEndReads
<1>3. ASSUME NEW p \in Writers, NEW f \in All,
             \/ \E off \in Offsets \cup {inode[f].size}, n \in Lengths,
                   word \in Words : StartCall(p, "write", f, off, n, word)
             \/ \E n \in Lengths : StartCall(p, "read", f, 0, n, 0)
             \/ StartCall(p, "trunc", f, 0, 0, 0)
      PROVE  TextInv'
  <2>1. PICK kind, off, n, word : StartCall(p, kind, f, off, n, word)
    BY <1>3
  <2> QED BY <2>1, StartCallReads
<1>4. ASSUME NEW p \in Writers,
             \/ LockFile(p) \/ Balloc(p) \/ BallocFull(p) \/ Bzero(p)
             \/ CopyPart(p) \/ UnlockFile(p) \/ Bfree(p) \/ TruncEnd(p)
      PROVE  TextInv'
  <2>1. job[p].kind # "none"
    BY <1>4 DEF LockFile, Balloc, BallocFull, Bzero, CopyPart, UnlockFile, Bfree, TruncEnd,
                Working, Truncating
  <2>2. phase = "run"
    BY <2>1, CallsRun
  <2> QED BY <1>4, <2>2, LockFileReads, BallocReads, BzeroReads, CopyPartReads,
             UnlockFileReads, BfreeReads, TruncEndReads
<1>5. ASSUME NEW f \in All, Evict(f) PROVE TextInv'
  BY <1>5, EvictReads
<1>6. CASE UNCHANGED fdVars
  <2>1. /\ phase' = phase /\ block' = block /\ inode' = inode /\ iholder' = iholder
        /\ job' = job /\ text' = text
    BY <1>6 DEF fdVars
  <2>2. ASSUME NEW f \in All PROVE TextRight(f)' /\ ClearRight(f)'
    <3>1. TextRight(f) /\ ClearRight(f)
      BY DEF TextInv
    <3>2. /\ Kind(f)' = Kind(f) /\ Written(f)' = Written(f)
          /\ \A n : Lookup(inode[f], n)' = Lookup(inode[f], n)
          /\ \A o : Content(f, o)' = Content(f, o)
      BY <2>1 DEF Kind, Off, Written, Lookup, Content
    <3> QED BY <3>1, <3>2, <2>1 DEF TextRight, ClearRight
  <2> QED BY <2>1, <2>2 DEF TextInv
<1> QED BY <1>1, <1>2, <1>3, <1>4, <1>5, <1>6 DEF FDNext

\* A file whose lock is free has no call on it, so it reads as its text.
LEMMA ReadsNow == FDInv /\ TextInv => ReadsBack
<1> SUFFICES ASSUME FDInv, TextInv, NEW f \in All, iholder[f] = NoOne
             PROVE  /\ inode[f].size = Len(text[f])
                    /\ \A off \in 0..(inode[f].size - 1) :
                        LET b == Lookup(inode[f], off \div BSIZE) IN
                        /\ b \in Data \cup {0}
                        /\ (IF b = 0 THEN 0 ELSE block[b][off % BSIZE]) = text[f][off + 1]
  BY DEF ReadsBack
<1>1. /\ FDTypes /\ TextRight(f) /\ inode[f].size \in Nat
      /\ Kind(f) = "none" /\ Written(f) = inode[f].size
  BY InodeIs DEF FDInv, TextInv, Kind, Written
<1>2. inode[f].size = Len(text[f])
  BY <1>1 DEF TextRight
<1>3. ASSUME NEW off \in 0..(inode[f].size - 1)
      PROVE  LET b == Lookup(inode[f], off \div BSIZE) IN
             /\ b \in Data \cup {0}
             /\ (IF b = 0 THEN 0 ELSE block[b][off % BSIZE]) = text[f][off + 1]
  <2>1. off \in Nat /\ off < Written(f)
    BY <1>1
  <2>2. PICK m \in 0..(MAXFILE - 1) : m = off \div BSIZE /\ Lookup(inode[f], m) # 0
    BY <1>1, <2>1, WrittenIs
  <2>3. Lookup(inode[f], m) \in Data
    BY <1>1, <2>2, BlockOfIs
  <2>4. block[Lookup(inode[f], m)][off % BSIZE] = text[f][off + 1]
    BY <1>1, <2>1, <2>2 DEF TextRight, Content
  <2> QED BY <2>2, <2>3, <2>4
<1> QED BY <1>2, <1>3

\* readi() and writei() under the lock of the inode, with balloc(), bfree() and
\* the calls on other files between their steps: a file that nobody has locked
\* reads as what was written to it, for every number of processes and files and
\* every size of the disk, of a block and of an inode.
THEOREM FilesReadBack == FDSpec => []ReadsBack
<1>1. FDInit => FDInv /\ TextInv
  BY InitKeeps, InitReads
<1>2. FDInv /\ TextInv /\ [FDNext]_fdVars => (FDInv /\ TextInv)'
  BY NextKeeps, NextReads
<1>3. FDInv /\ TextInv => ReadsBack
  BY ReadsNow
<1> QED BY <1>1, <1>2, <1>3, PTL DEF FDSpec
=============================================================================

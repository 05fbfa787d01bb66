----------------------------- MODULE FilesProofs -----------------------------
(***************************************************************************)
(* The inodes, directories and open files of xv6 (module Files), for any   *)
(* number of processes, inodes, names, files and descriptors: the counts   *)
(* of references and links are right whatever calls are under way, an      *)
(* inode is freed only when nothing can reach it, the cache agrees with    *)
(* the disk, and no process panics for an inode freed under it.            *)
(***************************************************************************)
EXTENDS Files, FiniteSetTheorems, FunctionTheorems, SequenceTheorems, TLAPS

-----------------------------------------------------------------------------
(* The inductive invariant.                                                *)

Fields == {"ip", "dp", "old", "put"}

ThreadStates ==
    [pc : Places, call : Calls, path : Seq(Names), new : Seq(Names),
     ip : Refs, dp : Refs, old : Refs, put : Refs, after : Places]

FTypes ==
    /\ disk \in [Inums -> Dinodes]
    /\ dir \in [Inums -> [Names -> Refs]]
    /\ core \in [Inums -> Dinodes \cup {NotValid}]
    /\ ref \in [Inums -> Nat]
    /\ holder \in [Inums -> Procs \cup {Nobody}]
    /\ fref \in [Files -> Nat]
    /\ fip \in [Files -> Refs]
    /\ ofile \in [Procs -> [FDs -> {0} \cup Files]]
    /\ t \in [Procs -> ThreadStates]

\* Where a thread is in its call, the iput() it may be inside left aside.
InIput(th) == th.pc \in {"iput", "ifree", "ifreed", "iref"}
At(th) == IF InIput(th) THEN th.after ELSE th.pc

\* Where iput() may return to.
Afters == {"idle", "walk", "open1", "link1", "unlinkbad", "unlink3", "create2",
           "created", "linkput", "linkend", "linkbad"}

\* The pointers a thread has at each place, and what is left of its arguments.
ShapeOf(th) ==
    /\ InIput(th) => th.after \in Afters
    /\ th.put # 0 <=> InIput(th)
    /\ th.ip # 0 <=> At(th) \in {"walk", "unlink2", "unlink3", "create2", "create3",
                                 "created", "open1", "opened", "link1"}
    /\ th.dp # 0 <=> At(th) \in {"parent", "unlink2", "unlinkbad", "create3",
                                 "linkput"}
    /\ th.old # 0 => At(th) \in {"walk", "parent", "linkend", "linkput", "linkbad"}
    /\ At(th) \in {"linkend", "linkput", "linkbad"} => th.old # 0
    /\ th.old # 0 /\ At(th) \in {"walk", "parent"} => th.call = "link"
    /\ At(th) \in {"walk", "parent", "unlink2", "create3"} => th.path # <<>>
    /\ At(th) = "walk" => th.call # "none"
    /\ At(th) = "walk" /\ th.call = "link" /\ th.old = 0 => th.new # <<>>
    /\ At(th) = "link1" => th.new # <<>> /\ th.call = "link"
    /\ At(th) = "parent" =>
            th.call \in {"create", "mkdir", "unlink"} \/ th.old # 0
    /\ At(th) \in {"create2", "create3", "created"} =>
            th.call \in {"create", "mkdir"}
    /\ th.pc \in {"ifree", "ifreed"} => th.put \notin {th.ip, th.dp, th.old}

ShapeRight == \A p \in Procs : ShapeOf(t[p])

\* The sleep locks a thread has.
Holds(th, i) ==
    \/ At(th) \in {"unlink2", "unlinkbad", "create3", "linkput"} /\ th.dp = i
    \/ At(th) \in {"unlink3", "created", "opened"} /\ th.ip = i
    \/ th.pc \in {"ifree", "ifreed"} /\ th.put = i

LocksRight ==
    \A p \in Procs, i \in Inums : holder[i] = p <=> Holds(t[p], i)

FilesRight == \A f \in Files : fref[f] = 0 <=> fip[f] = 0

\* The number of x in S with g[x] = v.
Count(S, g, v) == Cardinality({x \in S : g[x] = v})

\* The entries that name inode i, by the directories dd.
Entries(dd) == [x \in Inums \X Names |-> dd[x[1]][x[2]]]
Named(dd, i) == Count(Inums \X Names, Entries(dd), i)

\* The directories in directory i, each with a ".." that names it.
KindIn(dd, dk, i) ==
    [n \in Names |-> IF dd[i][n] = 0 THEN "none" ELSE dk[dd[i][n]].type]
Kids(dd, dk, i) == Count(Names, KindIn(dd, dk, i), "DIR")

\* The inode whose nlink counts a link that a call has yet to make or to take
\* back, or has removed and not yet discounted.
PendingOf(th) ==
    IF th.old # 0 /\ At(th) # "linkend" THEN th.old
    ELSE IF At(th) = "unlink3" THEN th.ip ELSE 0
Pending(tt, i) == Count(Procs, [p \in Procs |-> PendingOf(tt[p])], i)

LinksRight ==
    \A i \in Inums :
        /\ disk[i].nlink >= Named(dir, i) + Kids(dir, disk, i) + Pending(t, i)
        /\ disk[i].type = "free" => disk[i].nlink = 0

\* Valid fields are those on the disk, but for an inode being freed.
CoreRight ==
    \A i \in Inums : core[i] # NotValid =>
        \/ core[i] = disk[i] /\ disk[i].type # "free"
        \/ \E p \in Procs : t[p].pc = "ifreed" /\ t[p].put = i

\* What a pointer points to is allocated, and what link() links is a file.
AliveOf(th) ==
    /\ th.ip # 0 => disk[th.ip].type # "free"
    /\ th.dp # 0 => disk[th.dp].type # "free"
    /\ th.old # 0 => disk[th.old].type = "FILE"
    /\ th.pc \in {"iput", "ifree"} => disk[th.put].type # "free"

AliveRight ==
    /\ \A p \in Procs : AliveOf(t[p])
    /\ \A f \in Files : fip[f] # 0 => disk[fip[f]].type # "free"
    /\ disk[ROOTINO].type # "free"

\* iput() has found the last reference to an inode without links.
FreeingRight ==
    \A p \in Procs : t[p].pc = "ifree" =>
        /\ core[t[p].put] # NotValid /\ core[t[p].put] = disk[t[p].put]
        /\ disk[t[p].put].nlink = 0
        /\ ref[t[p].put] = 1

\* What sys_unlink() and create() found in the directory they have locked.
UnlinkRight ==
    \A p \in Procs : t[p].pc = "unlink2" =>
        dir[t[p].dp][Head(t[p].path)] = t[p].ip

\* The inode i is known to thread th at most as one it has freed.
Unknown(th, i) ==
    /\ th.ip # i /\ th.dp # i /\ th.old # i
    /\ th.put = i => th.pc \in {"ifreed", "iref"}

CreateRight ==
    \A p \in Procs : t[p].pc = "create3" =>
        LET i == t[p].ip
        IN  /\ dir[t[p].dp][Head(t[p].path)] = 0
            /\ i # ROOTINO /\ i # t[p].dp
            /\ disk[i].nlink = 0
            /\ disk[i].type = IF t[p].call = "mkdir" THEN "DIR" ELSE "FILE"
            /\ \A q \in Procs \ {p} : Unknown(t[q], i)
            /\ \A f \in Files : fip[f] # i

FInv ==
    /\ FTypes /\ ShapeRight /\ LocksRight /\ RefsCounted /\ FilesRight
    /\ LinksRight /\ CoreRight /\ AliveRight /\ FreeingRight
    /\ UnlinkRight /\ CreateRight

-----------------------------------------------------------------------------
(* Counting.                                                               *)

\* g and h agree on S but for p.
Agree(S, g, h, p) == \A x \in S \ {p} : h[x] = g[x]

One(b) == IF b THEN 1 ELSE 0

\* The count of a value when the function changes at one place.
LEMMA CountChange ==
    ASSUME NEW S, IsFiniteSet(S), NEW g, NEW h, NEW p \in S, Agree(S, g, h, p),
           NEW v
    PROVE  /\ Count(S, g, v) \in Nat /\ Count(S, h, v) \in Nat
           /\ Count(S, h, v) = Count(S, g, v) - One(g[p] = v) + One(h[p] = v)
<1> DEFINE R == {x \in S \ {p} : g[x] = v}
           G == {x \in S : g[x] = v}
           H == {x \in S : h[x] = v}
<1>1. IsFiniteSet(R) /\ IsFiniteSet(G) /\ IsFiniteSet(H)
  <2>1. R \subseteq S /\ G \subseteq S /\ H \subseteq S
    OBVIOUS
  <2> QED BY <2>1, FS_Subset
<1>2. p \notin R
  OBVIOUS
<1>3. Cardinality(R) \in Nat
  BY <1>1, FS_CardinalityType
<1>4. Cardinality(R \cup {p}) = Cardinality(R) + 1
  <2> HIDE DEF R
  <2> QED BY <1>1, <1>2, FS_AddElement
<1>5. Cardinality(G) = Cardinality(R) + One(g[p] = v)
  <2>1. CASE g[p] = v
    <3>1. G = R \cup {p}
      BY <2>1
    <3> HIDE DEF G, R
    <3> QED BY <3>1, <1>4, <2>1 DEF One
  <2>2. CASE g[p] # v
    <3>1. G = R
      BY <2>2
    <3> HIDE DEF G, R
    <3> QED BY <3>1, <1>3, <2>2 DEF One
  <2> QED BY <2>1, <2>2
<1>6. Cardinality(H) = Cardinality(R) + One(h[p] = v)
  <2>1. CASE h[p] = v
    <3>1. H = R \cup {p}
      BY <2>1 DEF Agree
    <3> HIDE DEF H, R
    <3> QED BY <3>1, <1>4, <2>1 DEF One
  <2>2. CASE h[p] # v
    <3>1. H = R
      BY <2>2 DEF Agree
    <3> HIDE DEF H, R
    <3> QED BY <3>1, <1>3, <2>2 DEF One
  <2> QED BY <2>1, <2>2
<1>7. Count(S, g, v) = Cardinality(G) /\ Count(S, h, v) = Cardinality(H)
  BY DEF Count
<1> HIDE DEF G, H, R
<1> QED BY <1>3, <1>5, <1>6, <1>7 DEF One

\* h takes the value v only where g does.
Fewer(S, g, h, v) == \A x \in S : h[x] = v => g[x] = v

LEMMA CountFewer ==
    ASSUME NEW S, IsFiniteSet(S), NEW g, NEW h, NEW v, Fewer(S, g, h, v)
    PROVE  /\ Count(S, g, v) \in Nat /\ Count(S, h, v) \in Nat
           /\ Count(S, h, v) <= Count(S, g, v)
<1> DEFINE G == {x \in S : g[x] = v}
           H == {x \in S : h[x] = v}
<1>1. H \subseteq G /\ G \subseteq S
  BY DEF Fewer
<1>2. Count(S, g, v) = Cardinality(G) /\ Count(S, h, v) = Cardinality(H)
  BY DEF Count
<1> HIDE DEF G, H
<1>3. IsFiniteSet(G) /\ IsFiniteSet(H) /\ Cardinality(H) <= Cardinality(G)
  BY <1>1, FS_Subset
<1> QED BY <1>2, <1>3, FS_CardinalityType

\* A count is zero exactly when the value is not taken.
LEMMA CountZero ==
    ASSUME NEW S, IsFiniteSet(S), NEW g, NEW v
    PROVE  /\ Count(S, g, v) \in Nat
           /\ (Count(S, g, v) = 0) <=> (\A x \in S : g[x] # v)
<1> DEFINE G == {x \in S : g[x] = v}
<1>1. G \subseteq S
  OBVIOUS
<1>2. Count(S, g, v) = Cardinality(G)
  BY DEF Count
<1>3. (\A x \in S : g[x] # v) <=> G = {}
  OBVIOUS
<1> HIDE DEF G
<1>4. IsFiniteSet(G)
  BY <1>1, FS_Subset
<1> QED BY <1>2, <1>3, <1>4, FS_CardinalityType, FS_EmptySet

\* What a single pointer adds to the count of an inode.
LEMMA CountOne ==
    ASSUME NEW S, IsFiniteSet(S), NEW g, NEW v, NEW p \in S, g[p] = v
    PROVE  Count(S, g, v) \in Nat /\ Count(S, g, v) >= 1
BY CountZero

-----------------------------------------------------------------------------
(* The references of the threads, field by field.                          *)

Ips(tt) == [p \in Procs |-> tt[p].ip]
Dps(tt) == [p \in Procs |-> tt[p].dp]
Olds(tt) == [p \in Procs |-> tt[p].old]
PutsOf(tt) == [p \in Procs |-> tt[p].put]

PointersOf(tt, i) == {x \in Fields \X Procs : tt[x[2]][x[1]] = i}

\* The number of pointers to i in the locals of a thread.
Own(th, i) ==
    One(th.ip = i) + One(th.dp = i) + One(th.old = i) + One(th.put = i)

FieldPairs(tt, f, i) == {x \in {f} \X Procs : tt[x[2]][x[1]] = i}

IsField(tt, f, g) == \A p \in Procs : g[p] = tt[p][f]

LEMMA FieldCount ==
    ASSUME NEW tt, NEW f, NEW i, NEW g, IsField(tt, f, g)
    PROVE  /\ IsFiniteSet(FieldPairs(tt, f, i))
           /\ Cardinality(FieldPairs(tt, f, i)) = Count(Procs, g, i)
           /\ Count(Procs, g, i) \in Nat
<1> DEFINE A == {p \in Procs : g[p] = i}
           B == FieldPairs(tt, f, i)
           h == [p \in A |-> <<f, p>>]
<1>1. IsFiniteSet(A)
  BY FS_Subset, FilesAssumption
<1>2. h \in Bijection(A, B)
  <2>1. h \in [A -> B]
    BY DEF FieldPairs, IsField
  <2>2. \A a, b \in A : h[a] = h[b] => a = b
    OBVIOUS
  <2>3. \A b \in B : \E a \in A : h[a] = b
    BY DEF FieldPairs, IsField
  <2> QED BY <2>1, <2>2, <2>3, Fun_IsBij
<1>3. IsFiniteSet(B) /\ Cardinality(B) = Cardinality(A)
  <2> HIDE DEF A, B, h
  <2>1. ExistsBijection(A, B)
    BY <1>2 DEF ExistsBijection
  <2> QED BY <2>1, <1>1, FS_Bijection
<1>4. Cardinality(A) \in Nat
  BY <1>1, FS_CardinalityType
<1> QED BY <1>3, <1>4 DEF Count

LEMMA DisjointUnion ==
    ASSUME NEW S, NEW T, IsFiniteSet(S), IsFiniteSet(T), S \cap T = {}
    PROVE  /\ IsFiniteSet(S \cup T)
           /\ Cardinality(S \cup T) = Cardinality(S) + Cardinality(T)
<1>1. Cardinality(S \cap T) = 0
  BY FS_EmptySet, Zenon
<1> QED BY <1>1, FS_Union, FS_CardinalityType

\* The pointers of all threads to inode i, field by field.
Total(tt, i) == Count(Procs, Ips(tt), i) + Count(Procs, Dps(tt), i)
                    + Count(Procs, Olds(tt), i) + Count(Procs, PutsOf(tt), i)

LEMMA PointersCount ==
    ASSUME NEW tt, NEW i
    PROVE  /\ Total(tt, i) \in Nat
           /\ Cardinality(PointersOf(tt, i)) = Total(tt, i)
<1> DEFINE A == FieldPairs(tt, "ip", i)
           B == FieldPairs(tt, "dp", i)
           C == FieldPairs(tt, "old", i)
           D == FieldPairs(tt, "put", i)
           a == Count(Procs, Ips(tt), i)
           b == Count(Procs, Dps(tt), i)
           c == Count(Procs, Olds(tt), i)
           d == Count(Procs, PutsOf(tt), i)
<1>1. IsFiniteSet(A) /\ Cardinality(A) = a /\ a \in Nat
  <2>1. IsField(tt, "ip", Ips(tt))
    BY DEF Ips, IsField
  <2> QED BY <2>1, FieldCount
<1>2. IsFiniteSet(B) /\ Cardinality(B) = b /\ b \in Nat
  <2>1. IsField(tt, "dp", Dps(tt))
    BY DEF Dps, IsField
  <2> QED BY <2>1, FieldCount
<1>3. IsFiniteSet(C) /\ Cardinality(C) = c /\ c \in Nat
  <2>1. IsField(tt, "old", Olds(tt))
    BY DEF Olds, IsField
  <2> QED BY <2>1, FieldCount
<1>4. IsFiniteSet(D) /\ Cardinality(D) = d /\ d \in Nat
  <2>1. IsField(tt, "put", PutsOf(tt))
    BY DEF PutsOf, IsField
  <2> QED BY <2>1, FieldCount
<1>5. A \cap B = {} /\ (A \cup B) \cap C = {} /\ ((A \cup B) \cup C) \cap D = {}
  BY DEF FieldPairs
<1>6. PointersOf(tt, i) = ((A \cup B) \cup C) \cup D
  BY DEF FieldPairs, PointersOf, Fields
<1>7. Total(tt, i) = a + b + c + d
  BY DEF Total
<1> HIDE DEF A, B, C, D, a, b, c, d
<1>8. IsFiniteSet(A \cup B) /\ Cardinality(A \cup B) = a + b
  BY <1>1, <1>2, <1>5, DisjointUnion
<1>9. IsFiniteSet((A \cup B) \cup C) /\ Cardinality((A \cup B) \cup C) = a + b + c
  <2> DEFINE E == A \cup B
  <2>1. IsFiniteSet(E) /\ Cardinality(E) = a + b /\ E \cap C = {}
    BY <1>8, <1>5
  <2> HIDE DEF E
  <2>2. IsFiniteSet(E \cup C) /\ Cardinality(E \cup C) = a + b + c
    BY <2>1, <1>1, <1>2, <1>3, DisjointUnion
  <2> QED BY <2>2 DEF E
<1>10. Cardinality(((A \cup B) \cup C) \cup D) = a + b + c + d
  <2> DEFINE E == (A \cup B) \cup C
  <2>1. IsFiniteSet(E) /\ Cardinality(E) = a + b + c /\ E \cap D = {}
    BY <1>9, <1>5
  <2> HIDE DEF E
  <2>2. Cardinality(E \cup D) = a + b + c + d
    BY <2>1, <1>1, <1>2, <1>3, <1>4, DisjointUnion
  <2> QED BY <2>2 DEF E
<1>11. Cardinality(PointersOf(tt, i)) = Cardinality(((A \cup B) \cup C) \cup D)
  BY <1>6, Zenon
<1> QED BY <1>1, <1>2, <1>3, <1>4, <1>7, <1>10, <1>11

\* How they change when one thread does.
LEMMA TotalChange ==
    ASSUME NEW tt, NEW uu, NEW p \in Procs, Agree(Procs, tt, uu, p), NEW i
    PROVE  Total(uu, i) = Total(tt, i) - Own(tt[p], i) + Own(uu[p], i)
<1>1. /\ Agree(Procs, Ips(tt), Ips(uu), p) /\ Agree(Procs, Dps(tt), Dps(uu), p)
      /\ Agree(Procs, Olds(tt), Olds(uu), p)
      /\ Agree(Procs, PutsOf(tt), PutsOf(uu), p)
  BY DEF Agree, Ips, Dps, Olds, PutsOf
<1>2. /\ Ips(tt)[p] = tt[p].ip /\ Ips(uu)[p] = uu[p].ip
      /\ Dps(tt)[p] = tt[p].dp /\ Dps(uu)[p] = uu[p].dp
      /\ Olds(tt)[p] = tt[p].old /\ Olds(uu)[p] = uu[p].old
      /\ PutsOf(tt)[p] = tt[p].put /\ PutsOf(uu)[p] = uu[p].put
  BY DEF Ips, Dps, Olds, PutsOf
<1>f. IsFiniteSet(Procs)
  BY FilesAssumption
<1> DEFINE a == Count(Procs, Ips(tt), i)   a2 == Count(Procs, Ips(uu), i)
           b == Count(Procs, Dps(tt), i)   b2 == Count(Procs, Dps(uu), i)
           c == Count(Procs, Olds(tt), i)  c2 == Count(Procs, Olds(uu), i)
           d == Count(Procs, PutsOf(tt), i)  d2 == Count(Procs, PutsOf(uu), i)
<1>3. /\ a \in Nat /\ a2 \in Nat
      /\ a2 = a - One(tt[p].ip = i) + One(uu[p].ip = i)
  BY <1>1, <1>2, <1>f, CountChange
<1>4. /\ b \in Nat /\ b2 \in Nat
      /\ b2 = b - One(tt[p].dp = i) + One(uu[p].dp = i)
  BY <1>1, <1>2, <1>f, CountChange
<1>5. /\ c \in Nat /\ c2 \in Nat
      /\ c2 = c - One(tt[p].old = i) + One(uu[p].old = i)
  BY <1>1, <1>2, <1>f, CountChange
<1>6. /\ d \in Nat /\ d2 \in Nat
      /\ d2 = d - One(tt[p].put = i) + One(uu[p].put = i)
  BY <1>1, <1>2, <1>f, CountChange
<1>7. Total(tt, i) = a + b + c + d /\ Total(uu, i) = a2 + b2 + c2 + d2
  BY DEF Total
<1> HIDE DEF a, a2, b, b2, c, c2, d, d2
<1> QED BY <1>3, <1>4, <1>5, <1>6, <1>7 DEF Own, One

\* The open files that point to i.
OpenOn(ff, i) == Count(Files, ff, i)

Rows == Procs \X FDs
\* The descriptors by the ofile oo of the processes.
Slots(oo) == [x \in Rows |-> oo[x[1]][x[2]]]

\* RefsCounted in these terms.
LEMMA RefsAre ==
    /\ RefsCounted <=>
        /\ \A i \in Inums :
            ref[i] = Total(t, i) + OpenOn(fip, i) + One(i = ROOTINO)
        /\ \A f \in Files : fref[f] = Count(Rows, Slots(ofile), f)
    /\ \A i : Total(t, i) \in Nat /\ OpenOn(fip, i) \in Nat
<1>1. \A i : Cardinality(Pointers(i)) = Total(t, i) /\ Total(t, i) \in Nat
  <2> TAKE i
  <2>1. Pointers(i) = PointersOf(t, i)
    BY DEF Pointers, PointersOf, Fields
  <2> QED BY <2>1, PointersCount
<1>2. IsFiniteSet(Files)
  BY FS_Interval, FilesAssumption DEF Files
<1>3. \A i : /\ Cardinality({f \in Files : fip[f] = i}) = OpenOn(fip, i)
             /\ OpenOn(fip, i) \in Nat
  BY <1>2, CountZero DEF OpenOn, Count
<1>4. \A f : Cardinality({x \in Procs \X FDs : ofile[x[1]][x[2]] = f})
                = Count(Rows, Slots(ofile), f)
  <2> TAKE f
  <2>1. {x \in Procs \X FDs : ofile[x[1]][x[2]] = f}
            = {x \in Rows : Slots(ofile)[x] = f}
    BY DEF Rows, Slots
  <2>2. Cardinality({x \in Procs \X FDs : ofile[x[1]][x[2]] = f})
            = Cardinality({x \in Rows : Slots(ofile)[x] = f})
    BY <2>1, Zenon
  <2> QED BY <2>2, Zenon DEF Count
<1> HIDE DEF Total, OpenOn, Count, Slots, Rows
<1>5. RefsCounted <=>
        /\ \A i \in Inums :
            ref[i] = Cardinality(Pointers(i))
                        + Cardinality({f \in Files : fip[f] = i})
                        + (IF i = ROOTINO THEN 1 ELSE 0)
        /\ \A f \in Files :
            fref[f] = Cardinality({x \in Procs \X FDs : ofile[x[1]][x[2]] = f})
  BY Zenon DEF RefsCounted
<1>6. \A i \in Inums :
        Cardinality(Pointers(i)) + Cardinality({f \in Files : fip[f] = i})
                        + (IF i = ROOTINO THEN 1 ELSE 0)
            = Total(t, i) + OpenOn(fip, i) + One(i = ROOTINO)
  BY <1>1, <1>3, Zenon DEF One
<1> QED BY <1>1, <1>3, <1>4, <1>5, <1>6, Zenon

-----------------------------------------------------------------------------
(* What the invariant says of one inode.                                   *)

LEMMA OwnTypes == \A th, i : Own(th, i) \in Nat
BY DEF Own, One

\* The pointers of one or two threads are among the pointers of all.
LEMMA OwnCounted ==
    ASSUME NEW tt, NEW p \in Procs, NEW i \in Inums
    PROVE  /\ Total(tt, i) >= Own(tt[p], i)
           /\ \A q \in Procs \ {p} : Total(tt, i) >= Own(tt[p], i) + Own(tt[q], i)
<1>1. i # 0
  BY FilesAssumption
<1>2. Own(Thread, i) = 0
  BY <1>1 DEF Own, One, Thread
<1> DEFINE uu == [r \in Procs |-> IF r = p THEN Thread ELSE tt[r]]
<1>3. Agree(Procs, tt, uu, p) /\ uu[p] = Thread
  BY DEF Agree
<1>4. Total(uu, i) = Total(tt, i) - Own(tt[p], i) + Own(Thread, i)
  <2>1. Total(uu, i) = Total(tt, i) - Own(tt[p], i) + Own(uu[p], i)
    BY <1>3, TotalChange
  <2> QED BY <2>1, <1>3, Zenon
<1>5. Total(uu, i) \in Nat /\ Total(tt, i) \in Nat
  BY PointersCount
<1>6. Total(tt, i) >= Own(tt[p], i)
  <2> HIDE DEF uu
  <2> QED BY <1>2, <1>4, <1>5, OwnTypes
<1>7. ASSUME NEW q \in Procs \ {p}
      PROVE  Total(tt, i) >= Own(tt[p], i) + Own(tt[q], i)
  <2> DEFINE vv == [r \in Procs |-> IF r = q THEN Thread ELSE uu[r]]
  <2>1. Agree(Procs, uu, vv, q) /\ vv[q] = Thread
    BY DEF Agree
  <2>2. uu[q] = tt[q]
    OBVIOUS
  <2> HIDE DEF uu
  <2>3. Total(vv, i) = Total(uu, i) - Own(tt[q], i) + Own(Thread, i)
    <3>1. Total(vv, i) = Total(uu, i) - Own(uu[q], i) + Own(vv[q], i)
      BY <2>1, TotalChange
    <3> HIDE DEF vv
    <3> QED BY <2>1, <2>2, <3>1, Zenon
  <2>4. Total(vv, i) \in Nat
    BY PointersCount
  <2> HIDE DEF vv
  <2> QED BY <2>3, <2>4, <1>2, <1>4, <1>5, OwnTypes
<1> QED BY <1>6, <1>7

\* No thread but p, in the field put, has a pointer to i, nor has a file.
Alone(p, i) ==
    /\ i # ROOTINO
    /\ t[p].ip # i /\ t[p].dp # i /\ t[p].old # i
    /\ \A q \in Procs \ {p} :
            t[q].ip # i /\ t[q].dp # i /\ t[q].old # i /\ t[q].put # i
    /\ \A f \in Files : fip[f] # i

LEMMA LastReference ==
    ASSUME RefsCounted, NEW p \in Procs, NEW i \in Inums, t[p].put = i, ref[i] = 1
    PROVE  Alone(p, i)
<1>1. /\ 1 = Total(t, i) + OpenOn(fip, i) + One(i = ROOTINO)
      /\ Total(t, i) \in Nat /\ OpenOn(fip, i) \in Nat
  BY RefsAre
<1>2. Own(t[p], i) >= 1
  BY DEF Own, One
<1>3. Total(t, i) >= Own(t[p], i)
  BY OwnCounted
<1>4. Total(t, i) = 1 /\ OpenOn(fip, i) = 0 /\ i # ROOTINO /\ Own(t[p], i) = 1
  BY <1>1, <1>2, <1>3, OwnTypes DEF One
<1>5. t[p].ip # i /\ t[p].dp # i /\ t[p].old # i
  BY <1>4 DEF Own, One
<1>6. ASSUME NEW q \in Procs \ {p}
      PROVE  t[q].ip # i /\ t[q].dp # i /\ t[q].old # i /\ t[q].put # i
  <2>1. Total(t, i) >= Own(t[p], i) + Own(t[q], i)
    BY OwnCounted
  <2>2. Own(t[q], i) = 0
    BY <2>1, <1>4, OwnTypes
  <2> QED BY <2>2 DEF Own, One
<1>7. \A f \in Files : fip[f] # i
  <2>1. IsFiniteSet(Files)
    BY FS_Interval, FilesAssumption DEF Files
  <2> QED BY <1>4, <2>1, CountZero DEF OpenOn
<1> QED BY <1>4, <1>5, <1>6, <1>7 DEF Alone

\* A pointer is counted.
LEMMA RefPositive ==
    ASSUME RefsCounted, NEW p \in Procs, NEW i \in Inums, t[p].put = i
    PROVE  ref[i] >= 1
<1>1. /\ ref[i] = Total(t, i) + OpenOn(fip, i) + One(i = ROOTINO)
      /\ Total(t, i) \in Nat /\ OpenOn(fip, i) \in Nat
  BY RefsAre
<1>2. Own(t[p], i) >= 1
  BY DEF Own, One
<1>3. Total(t, i) >= Own(t[p], i)
  BY OwnCounted
<1> QED BY <1>1, <1>2, <1>3, OwnTypes DEF One

\* The counts behind nlink.
LEMMA LinkCounts ==
    ASSUME NEW dd, NEW dk, NEW tt, NEW i
    PROVE  /\ Named(dd, i) \in Nat /\ Kids(dd, dk, i) \in Nat
           /\ Pending(tt, i) \in Nat
           /\ \A d \in Inums, n \in Names : dd[d][n] = i => Named(dd, i) >= 1
           /\ \A p \in Procs : PendingOf(tt[p]) = i => Pending(tt, i) >= 1
           /\ \A n \in Names : dd[i][n] # 0 /\ dk[dd[i][n]].type = "DIR"
                                  => Kids(dd, dk, i) >= 1
<1>1. IsFiniteSet(Procs) /\ IsFiniteSet(Names) /\ IsFiniteSet(Inums \X Names)
  BY FilesAssumption, FS_Product
<1>2. Named(dd, i) \in Nat /\ Kids(dd, dk, i) \in Nat /\ Pending(tt, i) \in Nat
  BY <1>1, CountZero DEF Named, Kids, Pending
<1>3. ASSUME NEW d \in Inums, NEW n \in Names, dd[d][n] = i
      PROVE  Named(dd, i) >= 1
  <2>1. <<d, n>> \in Inums \X Names /\ Entries(dd)[<<d, n>>] = i
    BY <1>3 DEF Entries
  <2> QED BY <2>1, <1>1, CountOne DEF Named
<1>4. ASSUME NEW p \in Procs, PendingOf(tt[p]) = i
      PROVE  Pending(tt, i) >= 1
  <2>1. [q \in Procs |-> PendingOf(tt[q])][p] = i
    BY <1>4
  <2> QED BY <2>1, <1>1, CountOne DEF Pending
<1>5. ASSUME NEW n \in Names, dd[i][n] # 0, dk[dd[i][n]].type = "DIR"
      PROVE  Kids(dd, dk, i) >= 1
  <2>1. KindIn(dd, dk, i)[n] = "DIR"
    BY <1>5 DEF KindIn
  <2> QED BY <2>1, <1>1, CountOne DEF Kids
<1> QED BY <1>2, <1>3, <1>4, <1>5

\* nlink counts the entries, the directories and the links under way.
LEMMA LinksBound ==
    ASSUME FTypes, LinksRight, NEW i \in Inums
    PROVE  /\ disk[i].nlink \in Nat
           /\ disk[i].nlink = 0 =>
                /\ \A d \in Inums, n \in Names : dir[d][n] # i
                /\ \A p \in Procs : PendingOf(t[p]) # i
           /\ \A p \in Procs : PendingOf(t[p]) = i => disk[i].nlink >= 1
           /\ \A d \in Inums, n \in Names : dir[d][n] = i =>
                disk[i].nlink >= 1 /\ disk[i].type # "free"
           /\ \A n \in Names :
                dir[i][n] # 0 /\ disk[dir[i][n]].type = "DIR" => disk[i].nlink >= 1
<1>1. disk[i].nlink \in Nat
  BY DEF FTypes, Dinodes
<1>2. /\ Named(dir, i) \in Nat /\ Kids(dir, disk, i) \in Nat
      /\ Pending(t, i) \in Nat
      /\ \A d \in Inums, n \in Names : dir[d][n] = i => Named(dir, i) >= 1
      /\ \A p \in Procs : PendingOf(t[p]) = i => Pending(t, i) >= 1
      /\ \A n \in Names : dir[i][n] # 0 /\ disk[dir[i][n]].type = "DIR"
                             => Kids(dir, disk, i) >= 1
  BY LinkCounts
<1>3. /\ disk[i].nlink >= Named(dir, i) + Kids(dir, disk, i) + Pending(t, i)
      /\ disk[i].type = "free" => disk[i].nlink = 0
  BY DEF LinksRight
<1> QED BY <1>1, <1>2, <1>3

\* An unlocked inode is in the cache as it is on the disk, if at all.
LEMMA InRight ==
    ASSUME FInv, NEW i \in Inums,
           \/ holder[i] = Nobody
           \/ \E p \in Procs : holder[i] = p /\ t[p].pc # "ifreed"
    PROVE  In(i) = disk[i] /\ (core[i] # NotValid => core[i] = disk[i])
<1>1. \A q \in Procs : ~(t[q].pc = "ifreed" /\ t[q].put = i)
  BY FilesAssumption DEF FInv, LocksRight, Holds
<1> QED BY <1>1 DEF FInv, CoreRight, In

\* The same for a lock held by a thread at that place of its call.
LEMMA InHeld ==
    ASSUME FInv, NEW p \in Procs, NEW i \in Inums, holder[i] = p, t[p].pc # "ifreed"
    PROVE  In(i) = disk[i] /\ (core[i] # NotValid => core[i] = disk[i])
BY InRight

\* Nothing but the iput() that frees an inode can reach it.
LEMMA FreeingAlone ==
    ASSUME FInv, NEW q \in Procs, t[q].pc = "ifree"
    PROVE  /\ t[q].put \in Inums /\ Alone(q, t[q].put)
           /\ \A d \in Inums, n \in Names : dir[d][n] # t[q].put
           /\ \A p \in Procs : PendingOf(t[p]) # t[q].put
<1>1. t[q].put \in Inums
  BY DEF FInv, FTypes, ThreadStates, Refs, ShapeRight, ShapeOf, InIput
<1>2. disk[t[q].put].nlink = 0 /\ ref[t[q].put] = 1
  BY DEF FInv, FreeingRight
<1>3. Alone(q, t[q].put)
  BY <1>1, <1>2, LastReference DEF FInv
<1>4. /\ \A d \in Inums, n \in Names : dir[d][n] # t[q].put
      /\ \A p \in Procs : PendingOf(t[p]) # t[q].put
  BY <1>1, <1>2, LinksBound DEF FInv
<1> QED BY <1>1, <1>3, <1>4

\* Nothing but the create() that allocated an inode can reach it.
LEMMA CreateAlone ==
    ASSUME FInv, NEW q \in Procs, t[q].pc = "create3"
    PROVE  /\ t[q].ip \in Inums /\ t[q].dp \in Inums /\ t[q].ip # t[q].dp
           /\ \A d \in Inums, n \in Names : dir[d][n] # t[q].ip
           /\ \A p \in Procs : PendingOf(t[p]) # t[q].ip
           /\ holder[t[q].dp] = q
<1>1. t[q].ip \in Inums /\ t[q].dp \in Inums
  BY DEF FInv, FTypes, ThreadStates, Refs, ShapeRight, ShapeOf, InIput, At
<1>2. disk[t[q].ip].nlink = 0 /\ t[q].ip # t[q].dp
  BY DEF FInv, CreateRight
<1>3. /\ \A d \in Inums, n \in Names : dir[d][n] # t[q].ip
      /\ \A p \in Procs : PendingOf(t[p]) # t[q].ip
  BY <1>1, <1>2, LinksBound DEF FInv
<1>4. holder[t[q].dp] = q
  BY <1>1 DEF FInv, LocksRight, Holds, At, InIput
<1> QED BY <1>1, <1>2, <1>3, <1>4

-----------------------------------------------------------------------------
(* What a step of thread p does, in the terms of the invariant.  In most   *)
(* steps the disk and the directories stay as they are.                    *)

Others(p) == Agree(Procs, t, t', p)

\* The locks p has after the step are those its place calls for.
LocksMove(p) ==
    \A i \in Inums :
        /\ Holds(t'[p], i) => holder[i] \in {p, Nobody}
        /\ holder'[i] = IF Holds(t'[p], i) THEN p
                        ELSE IF Holds(t[p], i) THEN Nobody ELSE holder[i]

\* The counts of references move with the pointers of p.
RefsMove(p) ==
    \A i \in Inums : ref'[i] = ref[i] - Own(t[p], i) + Own(t'[p], i)

\* Fields are read into the cache, or dropped from it by iput().
CoreMove(p) ==
    /\ \A i \in Inums :
        \/ core'[i] = core[i]
        \/ /\ holder[i] = Nobody
           /\ In(i).type # "free"
           /\ core'[i] = In(i)
        \/ core'[i] = NotValid /\ t[p].put = i
    /\ t[p].pc = "ifreed" => core'[t[p].put] = NotValid

\* What p can come to point to: what it does, or an entry, a file, the root.
Source(i) ==
    \/ i = ROOTINO
    \/ \E d \in Inums, n \in Names : dir[d][n] = i
    \/ \E f \in Files : fip[f] = i

Known(th, i) ==
    \/ th.ip = i \/ th.dp = i \/ th.old = i
    \/ th.pc \in {"iput", "ifree"} /\ th.put = i

\* Or the inode it has just allocated.
Fresh(i) == disk[i].type = "free" /\ disk'[i].type # "free"

PointersMove(p) ==
    /\ t'[p].ip # 0 =>
            Known(t[p], t'[p].ip) \/ Source(t'[p].ip) \/ Fresh(t'[p].ip)
    /\ t'[p].dp # 0 => Known(t[p], t'[p].dp) \/ Source(t'[p].dp)
    /\ t'[p].old # 0 =>
            \/ t'[p].old = t[p].old
            \/ Known(t[p], t'[p].old) /\ disk[t'[p].old].type = "FILE"
    /\ t'[p].pc \in {"iput", "ifree"} =>
            Known(t[p], t'[p].put) \/ Source(t'[p].put)
    /\ t'[p].pc \in {"ifreed", "iref"} => t'[p].put = t[p].put

FilesMove(p) ==
    \A f \in Files : fip'[f] # 0 => fip'[f] = fip[f] \/ Known(t[p], fip'[f])

\* What p writes: types only of free inodes, otherwise what it points to.
TypesKept == \A i \in Inums : disk[i].type # "free" => disk'[i].type = disk[i].type

DiskMove(p) ==
    \A i \in Inums : ~Known(t[p], i) =>
        /\ disk[i].type # "free" => disk'[i] = disk[i]
        /\ core[i] # NotValid /\ t[p].put # i => core'[i] = core[i]

DirMove(p) == \A d \in Inums : dir'[d] = dir[d] \/ holder[d] \in {p, Nobody}

LEMMA ShapeStep ==
    ASSUME FInv, NEW p \in Procs, Others(p), ShapeOf(t'[p])
    PROVE  ShapeRight'
<1>1. \A q \in Procs : q # p => t'[q] = t[q]
  BY DEF Others, Agree
<1>2. \A q \in Procs : ShapeOf(t[q])
  BY DEF FInv, ShapeRight
<1>3. \A q \in Procs : ShapeOf(t'[q])
  BY <1>1, <1>2, Zenon
<1> QED BY <1>3 DEF ShapeRight

LEMMA LocksStep ==
    ASSUME FInv, NEW p \in Procs, Others(p), LocksMove(p)
    PROVE  LocksRight'
<1>1. \A q \in Procs : q # p => t'[q] = t[q]
  BY DEF Others, Agree
<1>2. \A q \in Procs, i \in Inums : holder[i] = q <=> Holds(t[q], i)
  BY DEF FInv, LocksRight
<1>3. Nobody \notin Procs
  BY FilesAssumption
<1>4. ASSUME NEW q \in Procs, NEW i \in Inums
      PROVE  holder'[i] = q <=> Holds(t'[q], i)
  <2>1. CASE q = p
    BY <2>1, <1>2, <1>3 DEF LocksMove
  <2>2. CASE q # p
    <3>1. Holds(t'[q], i) <=> holder[i] = q
      BY <1>1, <1>2, <2>2, Zenon
    <3>2. Holds(t[p], i) <=> holder[i] = p
      BY <1>2
    <3> QED BY <2>2, <3>1, <3>2, <1>3 DEF LocksMove
  <2> QED BY <2>1, <2>2
<1> QED BY <1>4 DEF LocksRight

\* The references when files come to point to inodes, or cease to.
RefsPass(p) ==
    \A i \in Inums : ref'[i] = ref[i] - Own(t[p], i) + Own(t'[p], i)
                                - OpenOn(fip, i) + OpenOn(fip', i)

LEMMA RefsPassStep ==
    ASSUME FInv, NEW p \in Procs, Others(p), RefsPass(p),
           \A f \in Files : fref'[f] = Count(Rows, Slots(ofile'), f)
    PROVE  RefsCounted'
<1>1. \A i \in Inums :
        Total(t', i) = Total(t, i) - Own(t[p], i) + Own(t'[p], i)
  BY TotalChange DEF Others
<1>2. /\ \A i \in Inums : ref[i] = Total(t, i) + OpenOn(fip, i) + One(i = ROOTINO)
      /\ \A i \in Inums : Total(t, i) \in Nat /\ OpenOn(fip, i) \in Nat
  BY RefsAre DEF FInv
<1>3. \A i \in Inums : Total(t', i) \in Nat /\ OpenOn(fip', i) \in Nat
  <2>1. IsFiniteSet(Files)
    BY FS_Interval, FilesAssumption DEF Files
  <2> QED BY <2>1, PointersCount, CountZero DEF OpenOn
<1>4. ASSUME NEW i \in Inums
      PROVE  ref'[i] = Total(t', i) + OpenOn(fip', i) + One(i = ROOTINO)
  <2>1. ref'[i] = ref[i] - Own(t[p], i) + Own(t'[p], i)
                    - OpenOn(fip, i) + OpenOn(fip', i)
    BY DEF RefsPass
  <2>2. One(i = ROOTINO) \in Nat
    BY DEF One
  <2> QED BY <2>1, <2>2, <1>1, <1>2, <1>3, OwnTypes
<1>5. (\A i \in Inums : ref[i] = Total(t, i) + OpenOn(fip, i) + One(i = ROOTINO))'
  BY <1>4 DEF Total, OpenOn, Count, Ips, Dps, Olds, PutsOf, One, ROOTINO
<1>6. (\A f \in Files : fref[f] = Count(Rows, Slots(ofile), f))'
  BY DEF Count, Rows, Slots
<1>7. ((\A i \in Inums : ref[i] = Total(t, i) + OpenOn(fip, i) + One(i = ROOTINO))
        /\ (\A f \in Files : fref[f] = Count(Rows, Slots(ofile), f)))'
  BY <1>5, <1>6
<1> QED BY <1>7, RefsAre, PTL

LEMMA RefsStep ==
    ASSUME FInv, NEW p \in Procs, Others(p), RefsMove(p),
           UNCHANGED <<fref, fip, ofile>>
    PROVE  RefsCounted'
<1>1. /\ \A f \in Files : fref[f] = Count(Rows, Slots(ofile), f)
      /\ \A i \in Inums : OpenOn(fip, i) \in Nat
  BY RefsAre DEF FInv
<1>2. \A f \in Files : fref'[f] = Count(Rows, Slots(ofile'), f)
  BY <1>1
<1>3. ref \in [Inums -> Nat]
  BY DEF FInv, FTypes
<1>4. \A i \in Inums : OpenOn(fip', i) = OpenOn(fip, i)
  OBVIOUS
<1>5. ASSUME NEW i \in Inums
      PROVE  ref'[i] = ref[i] - Own(t[p], i) + Own(t'[p], i)
                                - OpenOn(fip, i) + OpenOn(fip', i)
  BY <1>1, <1>3, <1>4, OwnTypes DEF RefsMove
<1>6. RefsPass(p)
  BY <1>5 DEF RefsPass
<1> QED BY <1>2, <1>6, RefsPassStep

LEMMA PendingSame ==
    ASSUME NEW p \in Procs, NEW tt, NEW uu, Agree(Procs, tt, uu, p),
           PendingOf(uu[p]) = PendingOf(tt[p]), NEW i
    PROVE  Pending(uu, i) = Pending(tt, i)
<1>1. \A q \in Procs : q # p => uu[q] = tt[q]
  BY DEF Agree
<1>2. \A q \in Procs : PendingOf(uu[q]) = PendingOf(tt[q])
  BY <1>1, Zenon
<1>3. [q \in Procs |-> PendingOf(uu[q])] = [q \in Procs |-> PendingOf(tt[q])]
  BY <1>2
<1> QED BY <1>3, Zenon DEF Pending

LEMMA LinksStep ==
    ASSUME FInv, NEW p \in Procs, Others(p), UNCHANGED <<disk, dir>>,
           PendingOf(t'[p]) = PendingOf(t[p])
    PROVE  LinksRight'
<1>1. \A i \in Inums : Pending(t', i) = Pending(t, i)
  BY PendingSame DEF Others
<1>2. \A i \in Inums :
        /\ disk[i].nlink >= Named(dir, i) + Kids(dir, disk, i) + Pending(t, i)
        /\ disk[i].type = "free" => disk[i].nlink = 0
  BY DEF FInv, LinksRight
<1>3. \A i \in Inums :
        /\ disk'[i].nlink >= Named(dir', i) + Kids(dir', disk', i) + Pending(t', i)
        /\ disk'[i].type = "free" => disk'[i].nlink = 0
  BY <1>1, <1>2
<1> QED BY <1>3 DEF LinksRight

LEMMA CoreStep ==
    ASSUME FInv, NEW p \in Procs, Others(p), CoreMove(p), UNCHANGED disk
    PROVE  CoreRight'
<1>1. \A q \in Procs : q # p => t'[q] = t[q]
  BY DEF Others, Agree
<1>2. ASSUME NEW i \in Inums, core'[i] # NotValid
      PROVE  \/ core'[i] = disk[i] /\ disk[i].type # "free"
             \/ \E q \in Procs : t'[q].pc = "ifreed" /\ t'[q].put = i
  <2>1. CASE core'[i] = core[i]
    <3>1. CASE core[i] = disk[i] /\ disk[i].type # "free"
      BY <3>1, <2>1
    <3>2. CASE \E q \in Procs : t[q].pc = "ifreed" /\ t[q].put = i
      <4>1. PICK q \in Procs : t[q].pc = "ifreed" /\ t[q].put = i
        BY <3>2
      <4>2. q # p
        BY <4>1, <1>2 DEF CoreMove
      <4> QED BY <4>1, <4>2, <1>1
    <3> QED BY <3>1, <3>2, <1>2, <2>1 DEF FInv, CoreRight
  <2>2. CASE holder[i] = Nobody /\ In(i).type # "free" /\ core'[i] = In(i)
    BY <2>2, InRight
  <2> QED BY <2>1, <2>2, <1>2 DEF CoreMove
<1> QED BY <1>2 DEF CoreRight

\* What is known or can be found is allocated.
LEMMA KnownAlive ==
    ASSUME FInv, NEW p \in Procs, NEW i \in Inums, Known(t[p], i) \/ Source(i)
    PROVE  disk[i].type # "free"
<1>0. i # 0
  BY FilesAssumption
<1>1. CASE Known(t[p], i)
  BY <1>0, <1>1 DEF FInv, AliveRight, AliveOf, Known
<1>2. CASE i = ROOTINO
  BY <1>2 DEF FInv, AliveRight
<1>3. CASE \E d \in Inums, n \in Names : dir[d][n] = i
  BY <1>3, LinksBound DEF FInv
<1>4. CASE \E f \in Files : fip[f] = i
  BY <1>0, <1>4 DEF FInv, AliveRight
<1> QED BY <1>1, <1>2, <1>3, <1>4 DEF Source

LEMMA AliveMove ==
    ASSUME FInv, FTypes', NEW p \in Procs, Others(p), PointersMove(p), FilesMove(p),
           ShapeOf(t'[p]), TypesKept
    PROVE  AliveRight'
<1>1. \A q \in Procs : q # p => t'[q] = t[q]
  BY DEF Others, Agree
<1>2. /\ t'[p].ip \in Refs /\ t'[p].dp \in Refs /\ t'[p].old \in Refs
      /\ t'[p].put \in Refs /\ fip' \in [Files -> Refs]
  BY DEF FTypes, ThreadStates
<1>3. \A i \in Inums : Known(t[p], i) \/ Source(i) => disk'[i].type # "free"
  BY KnownAlive DEF TypesKept
<1>4. t'[p].ip # 0 => disk'[t'[p].ip].type # "free"
  BY <1>2, <1>3 DEF PointersMove, Refs, Fresh
<1>5. t'[p].dp # 0 => disk'[t'[p].dp].type # "free"
  BY <1>2, <1>3 DEF PointersMove, Refs
<1>6. t'[p].old # 0 => disk'[t'[p].old].type = "FILE"
  <2>1. t'[p].old # 0 => disk[t'[p].old].type = "FILE"
    BY DEF PointersMove, FInv, AliveRight, AliveOf
  <2> QED BY <2>1, <1>2 DEF TypesKept, Refs
<1>7. t'[p].pc \in {"iput", "ifree"} => disk'[t'[p].put].type # "free"
  BY <1>2, <1>3 DEF PointersMove, Refs, ShapeOf, InIput
<1>8. ASSUME NEW q \in Procs, q # p
      PROVE  /\ t'[q].ip # 0 => disk'[t'[q].ip].type # "free"
             /\ t'[q].dp # 0 => disk'[t'[q].dp].type # "free"
             /\ t'[q].old # 0 => disk'[t'[q].old].type = "FILE"
             /\ t'[q].pc \in {"iput", "ifree"} => disk'[t'[q].put].type # "free"
  <2>1. t[q] \in ThreadStates /\ ShapeOf(t[q]) /\ AliveOf(t[q]) /\ t'[q] = t[q]
    BY <1>1, <1>8 DEF FInv, FTypes, ShapeRight, AliveRight
  <2>2. \A j \in Inums : disk[j].type # "free" => disk'[j].type = disk[j].type
    BY <1>2 DEF TypesKept
  <2>3. /\ t[q].ip \in Refs /\ t[q].dp \in Refs /\ t[q].old \in Refs
        /\ t[q].pc \in {"iput", "ifree"} => t[q].put \in Inums
    BY <2>1 DEF ThreadStates, Refs, ShapeOf, InIput
  <2> QED BY <2>1, <2>2, <2>3 DEF AliveOf, Refs
<1>9. \A f \in Files : fip'[f] # 0 => disk'[fip'[f]].type # "free"
  <2>1. \A f \in Files : fip[f] # 0 => Source(fip[f])
    BY DEF Source
  <2> QED BY <2>1, <1>2, <1>3 DEF FilesMove, Refs
<1>10. disk'[ROOTINO].type # "free"
  BY FilesAssumption DEF FInv, AliveRight, TypesKept, ROOTINO
<1>11. \A q \in Procs :
        /\ t'[q].ip # 0 => disk'[t'[q].ip].type # "free"
        /\ t'[q].dp # 0 => disk'[t'[q].dp].type # "free"
        /\ t'[q].old # 0 => disk'[t'[q].old].type = "FILE"
        /\ t'[q].pc \in {"iput", "ifree"} => disk'[t'[q].put].type # "free"
  BY <1>4, <1>5, <1>6, <1>7, <1>8
<1> QED BY <1>9, <1>10, <1>11 DEF AliveRight, AliveOf, ROOTINO

LEMMA AliveStep ==
    ASSUME FInv, FTypes', NEW p \in Procs, Others(p), PointersMove(p), FilesMove(p),
           ShapeOf(t'[p]), UNCHANGED disk
    PROVE  AliveRight'
<1>1. TypesKept
  BY DEF TypesKept
<1> QED BY <1>1, AliveMove

\* What another thread is freeing, p neither knows nor finds.
LEMMA FreeingUnknown ==
    ASSUME FInv, NEW p \in Procs, NEW q \in Procs, q # p, t[q].pc = "ifree"
    PROVE  /\ ~Known(t[p], t[q].put) /\ ~Source(t[q].put)
           /\ t[p].put # t[q].put /\ Own(t[p], t[q].put) = 0
BY FreeingAlone DEF Alone, Known, Source, Own, One

LEMMA FreeingMove ==
    ASSUME FInv, NEW p \in Procs, Others(p), PointersMove(p),
           RefsMove(p) \/ ref' = ref, DiskMove(p), ShapeOf(t'[p]),
           t'[p].pc = "ifree" =>
                /\ core'[t'[p].put] # NotValid
                /\ core'[t'[p].put] = disk'[t'[p].put]
                /\ disk'[t'[p].put].nlink = 0
                /\ ref'[t'[p].put] = 1
    PROVE  FreeingRight'
<1>1. \A q \in Procs : q # p => t'[q] = t[q]
  BY DEF Others, Agree
<1>2. ASSUME NEW q \in Procs, q # p, t[q].pc = "ifree"
      PROVE  /\ core'[t[q].put] = core[t[q].put]
             /\ disk'[t[q].put] = disk[t[q].put]
             /\ ref'[t[q].put] = ref[t[q].put]
  <2> DEFINE i == t[q].put
  <2>1. /\ ~Known(t[p], i) /\ ~Source(i) /\ t[p].put # i /\ Own(t[p], i) = 0
    BY <1>2, FreeingUnknown
  <2>2. i \in Inums
    BY <1>2, FreeingAlone
  <2>3. core[i] # NotValid /\ disk[i].type # "free"
    BY <1>2 DEF FInv, FreeingRight, AliveRight, AliveOf
  <2>4. i # 0 /\ ref[i] \in Nat
    BY <2>2, FilesAssumption DEF FInv, FTypes
  <2> HIDE DEF i
  <2>5. core'[i] = core[i] /\ disk'[i] = disk[i]
    BY <2>1, <2>2, <2>3 DEF DiskMove
  <2>6. t'[p].ip # i /\ t'[p].dp # i /\ t'[p].old # i
    BY <2>1, <2>3, <2>4 DEF PointersMove, Known, Fresh
  <2>7. t'[p].put # i
    BY <2>1, <2>4 DEF PointersMove, ShapeOf, InIput
  <2>8. Own(t'[p], i) = 0
    BY <2>6, <2>7 DEF Own, One
  <2>9. ref'[i] = ref[i]
    BY <2>1, <2>2, <2>4, <2>8 DEF RefsMove
  <2> QED BY <2>5, <2>9 DEF i
<1>3. ASSUME NEW q \in Procs, t'[q].pc = "ifree"
      PROVE  /\ core'[t'[q].put] # NotValid /\ core'[t'[q].put] = disk'[t'[q].put]
             /\ disk'[t'[q].put].nlink = 0
             /\ ref'[t'[q].put] = 1
  <2>1. CASE q = p
    BY <2>1, <1>3
  <2>2. CASE q # p
    BY <2>2, <1>1, <1>2, <1>3 DEF FInv, FreeingRight
  <2> QED BY <2>1, <2>2
<1> QED BY <1>3 DEF FreeingRight

LEMMA FreeingStep ==
    ASSUME FInv, NEW p \in Procs, Others(p), PointersMove(p),
           RefsMove(p) \/ ref' = ref, CoreMove(p), ShapeOf(t'[p]), UNCHANGED disk,
           t'[p].pc = "ifree" =>
                /\ core'[t'[p].put] # NotValid
                /\ core'[t'[p].put] = disk[t'[p].put]
                /\ disk[t'[p].put].nlink = 0
                /\ ref'[t'[p].put] = 1
    PROVE  FreeingRight'
<1>1. DiskMove(p)
  BY DEF DiskMove, CoreMove, In
<1> QED BY <1>1, FreeingMove

\* What the types and shapes say of a thread.
LEMMA ThreadKnown ==
    ASSUME FInv, NEW p \in Procs
    PROVE  /\ t[p] \in ThreadStates /\ ShapeOf(t[p]) /\ AliveOf(t[p])
           /\ \A i \in Inums : holder[i] = p <=> Holds(t[p], i)
BY DEF FInv, FTypes, ShapeRight, AliveRight, LocksRight

LEMMA UnlinkMove ==
    ASSUME FInv, NEW p \in Procs, Others(p), DirMove(p),
           t'[p].pc = "unlink2" => dir'[t'[p].dp][Head(t'[p].path)] = t'[p].ip
    PROVE  UnlinkRight'
<1>1. \A q \in Procs : q # p => t'[q] = t[q]
  BY DEF Others, Agree
<1>2. ASSUME NEW q \in Procs, q # p, t[q].pc = "unlink2"
      PROVE  dir'[t[q].dp] = dir[t[q].dp]
  <2>1. t[q].dp \in Inums
    BY <1>2, ThreadKnown DEF ThreadStates, Refs, ShapeOf, At, InIput
  <2>2. holder[t[q].dp] = q
    BY <1>2, <2>1, ThreadKnown DEF Holds, At, InIput
  <2> QED BY <1>2, <2>1, <2>2, FilesAssumption DEF DirMove
<1>3. ASSUME NEW q \in Procs, t'[q].pc = "unlink2"
      PROVE  dir'[t'[q].dp][Head(t'[q].path)] = t'[q].ip
  BY <1>1, <1>2, <1>3 DEF FInv, UnlinkRight
<1> QED BY <1>3 DEF UnlinkRight

LEMMA UnlinkStep ==
    ASSUME FInv, NEW p \in Procs, Others(p), UNCHANGED dir,
           t'[p].pc = "unlink2" => dir[t'[p].dp][Head(t'[p].path)] = t'[p].ip
    PROVE  UnlinkRight'
<1>1. DirMove(p)
  BY DEF DirMove
<1> QED BY <1>1, UnlinkMove

\* What another thread is creating, p neither knows nor finds.
LEMMA CreatingUnknown ==
    ASSUME FInv, NEW p \in Procs, NEW q \in Procs, q # p, t[q].pc = "create3"
    PROVE  ~Known(t[p], t[q].ip) /\ ~Source(t[q].ip) /\ Unknown(t[p], t[q].ip)
<1>1. /\ t[q].ip # ROOTINO /\ Unknown(t[p], t[q].ip)
      /\ \A f \in Files : fip[f] # t[q].ip
  BY DEF FInv, CreateRight
<1>2. \A d \in Inums, n \in Names : dir[d][n] # t[q].ip
  BY CreateAlone
<1> QED BY <1>1, <1>2 DEF Known, Source, Unknown

\* CreateRight of one thread.
CreateOf(p) ==
    /\ dir[t[p].dp][Head(t[p].path)] = 0
    /\ t[p].ip # ROOTINO /\ t[p].ip # t[p].dp
    /\ disk[t[p].ip].nlink = 0
    /\ disk[t[p].ip].type = IF t[p].call = "mkdir" THEN "DIR" ELSE "FILE"
    /\ \A q \in Procs \ {p} : Unknown(t[q], t[p].ip)
    /\ \A f \in Files : fip[f] # t[p].ip

LEMMA CreateMove ==
    ASSUME FInv, NEW p \in Procs, Others(p), PointersMove(p), FilesMove(p),
           ShapeOf(t'[p]), DiskMove(p), DirMove(p),
           t'[p].pc = "create3" => CreateOf(p)'
    PROVE  CreateRight'
<1>1. \A q \in Procs : q # p => t'[q] = t[q]
  BY DEF Others, Agree
<1>2. ASSUME NEW q \in Procs, q # p, t'[q].pc = "create3"
      PROVE  /\ dir'[t'[q].dp][Head(t'[q].path)] = 0
             /\ t'[q].ip # ROOTINO /\ t'[q].ip # t'[q].dp
             /\ disk'[t'[q].ip].nlink = 0
             /\ disk'[t'[q].ip].type = IF t'[q].call = "mkdir" THEN "DIR" ELSE "FILE"
             /\ \A r \in Procs \ {q} : Unknown(t'[r], t'[q].ip)
             /\ \A f \in Files : fip'[f] # t'[q].ip
  <2>1. q # p /\ t'[q] = t[q] /\ t[q].pc = "create3"
    BY <1>1, <1>2
  <2> DEFINE i == t[q].ip
  <2>2. ~Known(t[p], i) /\ ~Source(i) /\ disk[i].type # "free"
    <3>1. disk[i].type # "free"
      BY <2>1 DEF FInv, CreateRight
    <3> QED BY <3>1, <2>1, CreatingUnknown
  <2>3. i \in Inums
    BY <2>1, CreateAlone
  <2>4. i # 0
    BY <2>3, FilesAssumption
  <2>5. t[p].put = i => t[p].pc \in {"ifreed", "iref"}
    BY <2>1, CreatingUnknown DEF Unknown
  <2>6. Unknown(t'[p], i)
    BY <2>2, <2>4, <2>5 DEF PointersMove, Unknown, Known, ShapeOf, InIput, Fresh
  <2>7. \A r \in Procs \ {q} : Unknown(t'[r], i)
    <3>1. \A r \in Procs \ {q} : Unknown(t[r], i)
      BY <2>1 DEF FInv, CreateRight
    <3> QED BY <3>1, <1>1, <2>6, Zenon
  <2>8. \A f \in Files : fip[f] # i
    BY <2>1 DEF FInv, CreateRight
  <2>9. \A f \in Files : fip'[f] # i
    BY <2>2, <2>4, <2>8 DEF FilesMove
  <2>10. /\ dir[t[q].dp][Head(t[q].path)] = 0
         /\ i # ROOTINO /\ i # t[q].dp
         /\ disk[i].nlink = 0
         /\ disk[i].type = IF t[q].call = "mkdir" THEN "DIR" ELSE "FILE"
    BY <2>1 DEF FInv, CreateRight
  <2>11. disk'[i] = disk[i]
    BY <2>2, <2>3 DEF DiskMove
  <2>12. dir'[t[q].dp] = dir[t[q].dp]
    <3>1. t[q].dp \in Inums /\ holder[t[q].dp] = q
      BY <2>1, CreateAlone
    <3> QED BY <2>1, <3>1, FilesAssumption DEF DirMove
  <2> QED BY <2>1, <2>7, <2>9, <2>10, <2>11, <2>12
<1>3. ASSUME NEW q \in Procs, t'[q].pc = "create3"
      PROVE  CreateOf(q)'
  <2>1. CASE q = p
    BY <1>3, <2>1
  <2>2. CASE q # p
    BY <1>2, <1>3, <2>2 DEF CreateOf, ROOTINO, Unknown
  <2> QED BY <2>1, <2>2
<1> QED BY <1>3 DEF CreateRight, CreateOf, ROOTINO, Unknown

LEMMA CreateStep ==
    ASSUME FInv, NEW p \in Procs, Others(p), PointersMove(p), FilesMove(p),
           ShapeOf(t'[p]), t'[p].pc # "create3", UNCHANGED <<disk, dir>>,
           CoreMove(p)
    PROVE  CreateRight'
<1>1. DiskMove(p) /\ DirMove(p)
  BY DEF DiskMove, DirMove, CoreMove, In
<1> QED BY <1>1, CreateMove

\* A step that changes neither the disk nor the files keeps the invariant.
LEMMA QuietStep ==
    ASSUME FInv, FTypes', NEW p \in Procs, Others(p), ShapeOf(t'[p]), LocksMove(p),
           RefsMove(p), CoreMove(p), PointersMove(p),
           PendingOf(t'[p]) = PendingOf(t[p]),
           UNCHANGED <<disk, dir, fref, fip, ofile>>,
           t'[p].pc \notin {"ifree", "create3", "unlink2"}
    PROVE  FInv'
<1>1. ShapeRight' /\ LocksRight' /\ RefsCounted' /\ LinksRight'
  BY ShapeStep, LocksStep, RefsStep, LinksStep
<1>2. FilesMove(p)
  BY DEF FilesMove
<1>3. CoreRight' /\ AliveRight' /\ FreeingRight'
  BY <1>2, CoreStep, AliveStep, FreeingStep
<1>4. UnlinkRight' /\ CreateRight'
  BY <1>2, UnlinkStep, CreateStep
<1>5. FilesRight'
  BY DEF FInv, FilesRight
<1> QED BY <1>1, <1>3, <1>4, <1>5 DEF FInv

LEMMA PlacesAre ==
    /\ "idle" \in Places /\ "walk" \in Places /\ "parent" \in Places
    /\ "unlink2" \in Places /\ "unlink3" \in Places /\ "unlinkbad" \in Places
    /\ "create2" \in Places /\ "create3" \in Places /\ "created" \in Places
    /\ "open1" \in Places /\ "opened" \in Places /\ "link1" \in Places
    /\ "linkend" \in Places /\ "linkput" \in Places /\ "linkbad" \in Places
    /\ "iput" \in Places /\ "ifree" \in Places /\ "ifreed" \in Places
    /\ "iref" \in Places
    /\ "none" \in Calls /\ <<>> \in Seq(Names) /\ 0 \in Refs
    /\ \A i \in Inums : i \in Refs
BY DEF Places, Calls, Refs

LEMMA ThreadTyped ==
    /\ Thread \in ThreadStates
    /\ \A th \in ThreadStates, i \in Refs, place \in Places :
            Puts(th, i, place) \in ThreadStates
    /\ \A i \in Refs : LastPut(i) \in ThreadStates
<1>1. Thread \in ThreadStates
  BY PlacesAre DEF Thread, ThreadStates
<1>2. ASSUME NEW th \in ThreadStates, NEW i \in Refs, NEW place \in Places
      PROVE  Puts(th, i, place) \in ThreadStates
  <2>1. "iput" \in Places
    BY PlacesAre
  <2> QED BY <2>1 DEF Puts, ThreadStates
<1>3. "idle" \in Places
  BY PlacesAre
<1> QED BY <1>1, <1>2, <1>3 DEF LastPut

-----------------------------------------------------------------------------
(* The steps that only move pointers and locks.                            *)

LEMMA BeginKeeps ==
    ASSUME FInv, NEW p \in Procs, NEW call \in Calls \ {"none"}, NEW path \in Paths, NEW new \in Paths \cup {<<>>}, call = "link" => new # <<>>, Begin(p, call, path, new)
    PROVE  FInv'
<1>1. t[p] \in ThreadStates /\ ShapeOf(t[p]) /\ AliveOf(t[p])
  BY ThreadKnown
<1>2. t[p].pc = "idle"
  BY <1>1 DEF Begin, CanLock, ThreadStates, Refs, ShapeOf, At, InIput
<1>v. [Thread EXCEPT !.pc = "walk", !.call = call, !.path = path, !.new = new, !.ip = ROOTINO] \in ThreadStates
  <2>1. ROOTINO \in Refs /\ path \in Seq(Names) /\ new \in Seq(Names)
    BY FilesAssumption, PlacesAre DEF ROOTINO
  <2> QED BY <2>1, ThreadTyped, PlacesAre DEF ThreadStates
<1>3. Others(p) /\ t' \in [Procs -> ThreadStates]
  BY <1>v DEF Begin, Others, Agree, FInv, FTypes
<1>4. /\ t'[p].pc = "walk" /\ t'[p].call = call
      /\ t'[p].path = path /\ t'[p].new = new
      /\ t'[p].ip = ROOTINO /\ t'[p].dp = 0
      /\ t'[p].old = 0 /\ t'[p].put = 0
      /\ t'[p].after = "idle"
  BY <1>1, <1>2 DEF Begin, Thread, Puts, LastPut, FInv, FTypes, ThreadStates
<1>5. FTypes'
  BY <1>1, <1>2, <1>3, FilesAssumption DEF Begin, FInv, FTypes, IGet, ILocked, In, Dinodes, CanLock, ROOTINO
<1>6. ShapeOf(t'[p])
  BY <1>1, <1>2, <1>4, FilesAssumption DEF Begin, ShapeOf, At, InIput, Afters, ROOTINO
<1>7. LocksMove(p)
  <2>1. \A i \in Inums : holder[i] = p <=> Holds(t[p], i)
    BY ThreadKnown
  <2>2. Nobody \notin Procs /\ 0 \notin Inums
    BY FilesAssumption
  <2>3. holder \in [Inums -> Procs \cup {Nobody}]
    BY DEF FInv, FTypes
  <2> QED BY <2>1, <2>2, <2>3, <1>1, <1>2, <1>4 DEF Begin, LocksMove, Holds, ShapeOf, At, InIput, CanLock, ROOTINO
<1>8. RefsMove(p)
  <2>1. ref \in [Inums -> Nat] /\ 0 \notin Inums /\ ROOTINO \in Inums
    BY FilesAssumption DEF FInv, FTypes, ROOTINO
  <2> QED BY <2>1, <1>1, <1>2, <1>4 DEF Begin, RefsMove, Own, One, IGet, ShapeOf, At, InIput
<1>9. CoreMove(p)
  BY <1>2 DEF Begin, CoreMove, ILocked, CanLock, FInv, FTypes
<1>10. PointersMove(p)
  BY <1>1, <1>2, <1>4 DEF Begin, PointersMove, Source, Known
<1>11. PendingOf(t'[p]) = PendingOf(t[p])
  BY <1>1, <1>2, <1>4 DEF Begin, PendingOf, ShapeOf, At, InIput
<1>12. UNCHANGED <<disk, dir, fref, fip, ofile>>
  BY DEF Begin, ILocked
<1>13. t'[p].pc \notin {"ifree", "create3", "unlink2"}
  BY <1>1, <1>2, <1>4 DEF Begin, ShapeOf, Afters, InIput
<1> QED BY <1>3, <1>5, <1>6, <1>7, <1>8, <1>9, <1>10, <1>11, <1>12, <1>13, QuietStep

LEMMA IFreedKeeps ==
    ASSUME FInv, NEW p \in Procs, IFreed(p)
    PROVE  FInv'
<1>1. t[p] \in ThreadStates /\ ShapeOf(t[p]) /\ AliveOf(t[p])
  BY ThreadKnown
<1>2. t[p].pc = "ifreed" /\ t[p].put \in Inums
  BY <1>1 DEF IFreed, CanLock, ThreadStates, Refs, ShapeOf, At, InIput
<1>3. Others(p) /\ t' \in [Procs -> ThreadStates]
  BY <1>1, <1>2 DEF IFreed, Thread, Puts, LastPut, Others, Agree, FInv, FTypes, ThreadStates, Refs, Places, Calls
<1>4. /\ t'[p].pc = "iref" /\ t'[p].call = t[p].call
      /\ t'[p].path = t[p].path /\ t'[p].new = t[p].new
      /\ t'[p].ip = t[p].ip /\ t'[p].dp = t[p].dp
      /\ t'[p].old = t[p].old /\ t'[p].put = t[p].put
      /\ t'[p].after = t[p].after
  BY <1>1, <1>2 DEF IFreed, Thread, Puts, LastPut, FInv, FTypes, ThreadStates
<1>5. FTypes'
  BY <1>1, <1>2, <1>3 DEF IFreed, FInv, FTypes, IGet, ILocked, In, Dinodes, CanLock
<1>6. ShapeOf(t'[p])
  BY <1>1, <1>2, <1>4, FilesAssumption DEF IFreed, ShapeOf, At, InIput, Afters
<1>7. LocksMove(p)
  <2>1. \A i \in Inums : holder[i] = p <=> Holds(t[p], i)
    BY ThreadKnown
  <2>2. Nobody \notin Procs /\ 0 \notin Inums
    BY FilesAssumption
  <2>3. holder \in [Inums -> Procs \cup {Nobody}]
    BY DEF FInv, FTypes
  <2> QED BY <2>1, <2>2, <2>3, <1>1, <1>2, <1>4 DEF IFreed, LocksMove, Holds, ShapeOf, At, InIput, CanLock
<1>8. RefsMove(p)
  <2>1. ref \in [Inums -> Nat] /\ 0 \notin Inums
    BY FilesAssumption DEF FInv, FTypes
  <2>2. ref' = ref
    BY DEF IFreed
  <2>3. \A i \in Inums : Own(t'[p], i) = Own(t[p], i)
    BY <2>1, <1>1, <1>2, <1>4 DEF Own, One, ShapeOf, At, InIput
  <2> QED BY <2>1, <2>2, <2>3, OwnTypes DEF RefsMove
<1>9. CoreMove(p)
  BY <1>2 DEF IFreed, CoreMove, ILocked, CanLock, FInv, FTypes
<1>10. PointersMove(p)
  BY <1>1, <1>2, <1>4 DEF IFreed, PointersMove, Source, Known
<1>11. PendingOf(t'[p]) = PendingOf(t[p])
  BY <1>1, <1>2, <1>4 DEF IFreed, PendingOf, ShapeOf, At, InIput
<1>12. UNCHANGED <<disk, dir, fref, fip, ofile>>
  BY DEF IFreed, ILocked
<1>13. t'[p].pc \notin {"ifree", "create3", "unlink2"}
  BY <1>1, <1>2, <1>4 DEF IFreed, ShapeOf, Afters, InIput
<1> QED BY <1>3, <1>5, <1>6, <1>7, <1>8, <1>9, <1>10, <1>11, <1>12, <1>13, QuietStep

LEMMA NamexFailKeeps ==
    ASSUME FInv, NEW p \in Procs, NamexFail(p)
    PROVE  FInv'
<1>1. t[p] \in ThreadStates /\ ShapeOf(t[p]) /\ AliveOf(t[p])
  BY ThreadKnown
<1>2. t[p].pc = "walk" /\ t[p].ip \in Inums
  BY <1>1 DEF NamexFail, NotFound, CanLock, ThreadStates, Refs, ShapeOf, At, InIput
<1>v. NotFound(p) \in ThreadStates
  <2>1. [Thread EXCEPT !.old = t[p].old] \in ThreadStates
    BY <1>1, ThreadTyped DEF ThreadStates
  <2> QED BY <2>1, <1>2, ThreadTyped, PlacesAre DEF NotFound
<1>3. Others(p) /\ t' \in [Procs -> ThreadStates]
  BY <1>v DEF NamexFail, NotFound, Others, Agree, FInv, FTypes
<1>4. /\ t'[p].pc = "iput" /\ t'[p].call = "none"
      /\ t'[p].path = <<>> /\ t'[p].new = <<>>
      /\ t'[p].ip = 0 /\ t'[p].dp = 0
      /\ t'[p].old = t[p].old /\ t'[p].put = t[p].ip
      /\ t'[p].after = IF t[p].old # 0 THEN "linkbad" ELSE "idle"
  BY <1>1, <1>2 DEF NamexFail, NotFound, Thread, Puts, LastPut, FInv, FTypes, ThreadStates
<1>5. FTypes'
  BY <1>1, <1>2, <1>3 DEF NamexFail, NotFound, FInv, FTypes, IGet, ILocked, In, Dinodes, CanLock
<1>6. ShapeOf(t'[p])
  BY <1>1, <1>2, <1>4, FilesAssumption DEF NamexFail, NotFound, ShapeOf, At, InIput, Afters
<1>7. LocksMove(p)
  <2>1. \A i \in Inums : holder[i] = p <=> Holds(t[p], i)
    BY ThreadKnown
  <2>2. Nobody \notin Procs /\ 0 \notin Inums
    BY FilesAssumption
  <2>3. holder \in [Inums -> Procs \cup {Nobody}]
    BY DEF FInv, FTypes
  <2> QED BY <2>1, <2>2, <2>3, <1>1, <1>2, <1>4 DEF NamexFail, NotFound, LocksMove, Holds, ShapeOf, At, InIput, CanLock
<1>8. RefsMove(p)
  <2>1. ref \in [Inums -> Nat] /\ 0 \notin Inums
    BY FilesAssumption DEF FInv, FTypes
  <2>2. ref' = ref
    BY DEF NamexFail, NotFound
  <2>3. \A i \in Inums : Own(t'[p], i) = Own(t[p], i)
    BY <2>1, <1>1, <1>2, <1>4 DEF Own, One, ShapeOf, At, InIput
  <2> QED BY <2>1, <2>2, <2>3, OwnTypes DEF RefsMove
<1>9. CoreMove(p)
  BY <1>2 DEF NamexFail, NotFound, CoreMove, ILocked, CanLock, FInv, FTypes
<1>10. PointersMove(p)
  BY <1>1, <1>2, <1>4 DEF NamexFail, NotFound, PointersMove, Source, Known
<1>11. PendingOf(t'[p]) = PendingOf(t[p])
  BY <1>1, <1>2, <1>4 DEF NamexFail, NotFound, PendingOf, ShapeOf, At, InIput
<1>12. UNCHANGED <<disk, dir, fref, fip, ofile>>
  BY DEF NamexFail, NotFound, ILocked
<1>13. t'[p].pc \notin {"ifree", "create3", "unlink2"}
  BY <1>1, <1>2, <1>4 DEF NamexFail, NotFound, ShapeOf, Afters, InIput
<1> QED BY <1>3, <1>5, <1>6, <1>7, <1>8, <1>9, <1>10, <1>11, <1>12, <1>13, QuietStep

LEMMA NamexParentKeeps ==
    ASSUME FInv, NEW p \in Procs, NamexParent(p)
    PROVE  FInv'
<1>1. t[p] \in ThreadStates /\ ShapeOf(t[p]) /\ AliveOf(t[p])
  BY ThreadKnown
<1>2. t[p].pc = "walk" /\ t[p].ip \in Inums
  BY <1>1 DEF NamexParent, CanLock, ThreadStates, Refs, ShapeOf, At, InIput
<1>3. Others(p) /\ t' \in [Procs -> ThreadStates]
  BY <1>1, <1>2 DEF NamexParent, Thread, Puts, LastPut, Others, Agree, FInv, FTypes, ThreadStates, Refs, Places, Calls
<1>4. /\ t'[p].pc = "parent" /\ t'[p].call = t[p].call
      /\ t'[p].path = t[p].path /\ t'[p].new = t[p].new
      /\ t'[p].ip = 0 /\ t'[p].dp = t[p].ip
      /\ t'[p].old = t[p].old /\ t'[p].put = t[p].put
      /\ t'[p].after = t[p].after
  BY <1>1, <1>2 DEF NamexParent, Thread, Puts, LastPut, FInv, FTypes, ThreadStates
<1>5. FTypes'
  BY <1>1, <1>2, <1>3 DEF NamexParent, FInv, FTypes, IGet, ILocked, In, Dinodes, CanLock
<1>6. ShapeOf(t'[p])
  BY <1>1, <1>2, <1>4, FilesAssumption DEF NamexParent, ShapeOf, At, InIput, Afters, IsParentLookup
<1>7. LocksMove(p)
  <2>1. \A i \in Inums : holder[i] = p <=> Holds(t[p], i)
    BY ThreadKnown
  <2>2. Nobody \notin Procs /\ 0 \notin Inums
    BY FilesAssumption
  <2>3. holder \in [Inums -> Procs \cup {Nobody}]
    BY DEF FInv, FTypes
  <2> QED BY <2>1, <2>2, <2>3, <1>1, <1>2, <1>4 DEF NamexParent, LocksMove, Holds, ShapeOf, At, InIput, CanLock
<1>8. RefsMove(p)
  <2>1. ref \in [Inums -> Nat] /\ 0 \notin Inums
    BY FilesAssumption DEF FInv, FTypes
  <2>2. ref' = ref
    BY DEF NamexParent
  <2>3. \A i \in Inums : Own(t'[p], i) = Own(t[p], i)
    BY <2>1, <1>1, <1>2, <1>4 DEF Own, One, ShapeOf, At, InIput
  <2> QED BY <2>1, <2>2, <2>3, OwnTypes DEF RefsMove
<1>9. CoreMove(p)
  BY <1>2 DEF NamexParent, CoreMove, ILocked, CanLock, FInv, FTypes
<1>10. PointersMove(p)
  BY <1>1, <1>2, <1>4 DEF NamexParent, PointersMove, Source, Known
<1>11. PendingOf(t'[p]) = PendingOf(t[p])
  BY <1>1, <1>2, <1>4 DEF NamexParent, PendingOf, ShapeOf, At, InIput
<1>12. UNCHANGED <<disk, dir, fref, fip, ofile>>
  BY DEF NamexParent, ILocked
<1>13. t'[p].pc \notin {"ifree", "create3", "unlink2"}
  BY <1>1, <1>2, <1>4 DEF NamexParent, ShapeOf, Afters, InIput
<1> QED BY <1>3, <1>5, <1>6, <1>7, <1>8, <1>9, <1>10, <1>11, <1>12, <1>13, QuietStep

LEMMA NamexNextKeeps ==
    ASSUME FInv, NEW p \in Procs, NamexNext(p)
    PROVE  FInv'
<1>1. t[p] \in ThreadStates /\ ShapeOf(t[p]) /\ AliveOf(t[p])
  BY ThreadKnown
<1>2. t[p].pc = "walk" /\ t[p].ip \in Inums
  BY <1>1 DEF NamexNext, Found, CanLock, ThreadStates, Refs, ShapeOf, At, InIput
<1> DEFINE nx == dir[t[p].ip][Head(t[p].path)]
<1>n. nx \in Inums
  BY <1>1, <1>2 DEF NamexNext, Found, FInv, FTypes, ThreadStates, Refs, ShapeOf, At, InIput, Name, CanLock
<1>v. Puts([t[p] EXCEPT !.ip = nx, !.path = Tail(t[p].path)], t[p].ip, IF Len(t[p].path) > 1 THEN "walk" ELSE Found(p)) \in ThreadStates
  <2>1. nx \in Refs
    BY <1>n, PlacesAre
  <2> HIDE DEF nx
  <2>2. t[p].path \in Seq(Names) /\ t[p].path # <<>>
    BY <1>1, <1>2 DEF ThreadStates, ShapeOf, At, InIput
  <2>3. Tail(t[p].path) \in Seq(Names)
    BY <2>2
  <2>4. [t[p] EXCEPT !.ip = nx, !.path = Tail(t[p].path)] \in ThreadStates
    BY <1>1, <2>1, <2>3 DEF ThreadStates
  <2>5. (IF Len(t[p].path) > 1 THEN "walk" ELSE Found(p)) \in Places
    BY PlacesAre DEF Found
  <2> QED BY <2>4, <2>5, <1>2, ThreadTyped, PlacesAre
<1>3. Others(p) /\ t' \in [Procs -> ThreadStates]
  BY <1>v DEF NamexNext, Found, Others, Agree, FInv, FTypes
<1>4. /\ t'[p].pc = "iput" /\ t'[p].call = t[p].call
      /\ t'[p].path = Tail(t[p].path) /\ t'[p].new = t[p].new
      /\ t'[p].ip = nx /\ t'[p].dp = t[p].dp
      /\ t'[p].old = t[p].old /\ t'[p].put = t[p].ip
      /\ t'[p].after = IF Len(t[p].path) > 1 THEN "walk" ELSE Found(p)
  BY <1>1, <1>2 DEF NamexNext, Found, Thread, Puts, LastPut, FInv, FTypes, ThreadStates
<1>5. FTypes'
  <2>0. ILocked({t[p].ip})
    BY DEF NamexNext
  <2>1. core' \in [Inums -> Dinodes \cup {NotValid}]
    BY <1>2, <2>0 DEF ILocked, FInv, FTypes, In, Dinodes
  <2>2. ref' \in [Inums -> Nat]
    <3>1. ref' = [ref EXCEPT ![nx] = @ + 1]
      BY DEF NamexNext, IGet
    <3>2. ref \in [Inums -> Nat]
      BY DEF FInv, FTypes
    <3> HIDE DEF nx
    <3> QED BY ONLY <1>n, <3>1, <3>2
  <2>3. UNCHANGED <<disk, dir, holder, fref, fip, ofile>>
    BY DEF NamexNext, ILocked
  <2> QED BY <1>3, <2>1, <2>2, <2>3 DEF FInv, FTypes
<1>m. ref' = [ref EXCEPT ![nx] = @ + 1] /\ Source(nx) /\ nx # 0
  <2>1. ref' = [ref EXCEPT ![nx] = @ + 1]
    BY DEF NamexNext, Found, IGet
  <2>2. Head(t[p].path) \in Names
    BY <1>1, <1>2 DEF ThreadStates, ShapeOf, At, InIput
  <2>3. Source(nx)
    BY <1>2, <2>2 DEF Source, Name
  <2>4. nx # 0
    BY <1>n, FilesAssumption
  <2> QED BY <2>1, <2>3, <2>4
<1> HIDE DEF nx
<1>h. holder' = holder
  BY DEF NamexNext
<1>f. t'[p].after = IF Len(t[p].path) > 1 THEN "walk" ELSE Found(p)
  BY <1>4
<1>a. /\ t'[p].after \in {"walk", "open1", "link1"}
      /\ t'[p].after = "walk" => Tail(t[p].path) # <<>>
      /\ t'[p].after # "walk" => t[p].old = 0 /\ t[p].call \in {"open", "link"}
      /\ t'[p].after = "link1" => t[p].call = "link"
  <2>1. t[p].path \in Seq(Names) /\ t[p].path # <<>>
    BY <1>1, <1>2 DEF ThreadStates, ShapeOf, At, InIput
  <2>2. t[p].call \in {"open", "create", "mkdir", "link", "unlink"}
    BY <1>1, <1>2 DEF ThreadStates, ShapeOf, At, InIput, Calls
  <2>3. Len(t[p].path) = 1 \/ (Len(t[p].path) > 1 /\ Tail(t[p].path) # <<>>)
    <3>1. Len(t[p].path) \in Nat /\ Len(t[p].path) # 0
      BY <2>1, EmptySeq
    <3>2. Len(Tail(t[p].path)) = Len(t[p].path) - 1
      BY <2>1, HeadTailProperties
    <3>3. Len(<<>>) = 0
      OBVIOUS
    <3>4. Tail(t[p].path) = <<>> => Len(Tail(t[p].path)) = 0
      BY <3>3, Zenon
    <3> QED BY <3>1, <3>2, <3>4
  <2>4. ~((t[p].call \in {"create", "mkdir", "unlink"} \/ t[p].old # 0) /\ Len(t[p].path) = 1)
    BY DEF NamexNext, IsParentLookup
  <2>5. CASE Len(t[p].path) = 1
    <3>1. t'[p].after = Found(p)
      BY <2>5, <1>f
    <3>2. t[p].old = 0 /\ t[p].call \in {"open", "link"}
      BY <2>2, <2>4, <2>5
    <3> QED BY <3>1, <3>2 DEF Found
  <2>6. CASE Len(t[p].path) > 1 /\ Tail(t[p].path) # <<>>
    <3>1. t'[p].after = "walk"
      BY <2>6, <1>f
    <3> QED BY <3>1, <2>6
  <2> QED BY <2>3, <2>5, <2>6
<1>6. ShapeOf(t'[p])
  BY <1>1, <1>2, <1>4, <1>n, <1>m, <1>a, <1>h, FilesAssumption DEF ShapeOf, At, InIput, Afters
<1>7. LocksMove(p)
  <2>1. \A i \in Inums : holder[i] = p <=> Holds(t[p], i)
    BY ThreadKnown
  <2>2. Nobody \notin Procs /\ 0 \notin Inums
    BY FilesAssumption
  <2>3. holder \in [Inums -> Procs \cup {Nobody}]
    BY DEF FInv, FTypes
  <2> QED BY <2>1, <2>2, <2>3, <1>1, <1>2, <1>4, <1>n, <1>m, <1>a, <1>h DEF LocksMove, Holds, ShapeOf, At, InIput, CanLock
<1>8. RefsMove(p)
  <2>1. ref \in [Inums -> Nat] /\ 0 \notin Inums /\ ROOTINO \in Inums
    BY FilesAssumption DEF FInv, FTypes, ROOTINO
  <2> QED BY <2>1, <1>1, <1>2, <1>4, <1>n, <1>m DEF IGet, RefsMove, Own, One, ShapeOf, At, InIput
<1>9. CoreMove(p)
  BY <1>2 DEF NamexNext, Found, CoreMove, ILocked, CanLock, FInv, FTypes
<1>10. PointersMove(p)
  BY <1>1, <1>2, <1>4, <1>n, <1>m, <1>a, <1>h DEF PointersMove, Known
<1>11. PendingOf(t'[p]) = PendingOf(t[p])
  BY <1>1, <1>2, <1>4, <1>a, <1>h DEF Found, PendingOf, ShapeOf, At, InIput
<1>12. UNCHANGED <<disk, dir, fref, fip, ofile>>
  BY DEF NamexNext, Found, ILocked
<1>13. t'[p].pc \notin {"ifree", "create3", "unlink2"}
  BY <1>1, <1>2, <1>4 DEF NamexNext, Found, ShapeOf, Afters, InIput
<1> QED BY <1>3, <1>5, <1>6, <1>7, <1>8, <1>9, <1>10, <1>11, <1>12, <1>13, QuietStep

LEMMA UnlinkMissingKeeps ==
    ASSUME FInv, NEW p \in Procs, UnlinkMissing(p)
    PROVE  FInv'
<1>1. t[p] \in ThreadStates /\ ShapeOf(t[p]) /\ AliveOf(t[p])
  BY ThreadKnown
<1>2. t[p].pc = "parent" /\ t[p].dp \in Inums
  BY <1>1 DEF UnlinkMissing, CanLock, ThreadStates, Refs, ShapeOf, At, InIput
<1>v. LastPut(t[p].dp) \in ThreadStates
  BY <1>1, <1>2, ThreadTyped, PlacesAre DEF ThreadStates, UnlinkMissing
<1>3. Others(p) /\ t' \in [Procs -> ThreadStates]
  BY <1>v DEF UnlinkMissing, Others, Agree, FInv, FTypes
<1>4. /\ t'[p].pc = "iput" /\ t'[p].call = "none"
      /\ t'[p].path = <<>> /\ t'[p].new = <<>>
      /\ t'[p].ip = 0 /\ t'[p].dp = 0
      /\ t'[p].old = 0 /\ t'[p].put = t[p].dp
      /\ t'[p].after = "idle"
  BY <1>1, <1>2 DEF UnlinkMissing, Thread, Puts, LastPut, FInv, FTypes, ThreadStates
<1>5. FTypes'
  BY <1>1, <1>2, <1>3 DEF UnlinkMissing, FInv, FTypes, IGet, ILocked, In, Dinodes, CanLock
<1>6. ShapeOf(t'[p])
  BY <1>1, <1>2, <1>4, FilesAssumption DEF UnlinkMissing, ShapeOf, At, InIput, Afters
<1>7. LocksMove(p)
  <2>1. \A i \in Inums : holder[i] = p <=> Holds(t[p], i)
    BY ThreadKnown
  <2>2. Nobody \notin Procs /\ 0 \notin Inums
    BY FilesAssumption
  <2>3. holder \in [Inums -> Procs \cup {Nobody}]
    BY DEF FInv, FTypes
  <2> QED BY <2>1, <2>2, <2>3, <1>1, <1>2, <1>4 DEF UnlinkMissing, LocksMove, Holds, ShapeOf, At, InIput, CanLock
<1>8. RefsMove(p)
  <2>1. ref \in [Inums -> Nat] /\ 0 \notin Inums
    BY FilesAssumption DEF FInv, FTypes
  <2>2. ref' = ref
    BY DEF UnlinkMissing
  <2>3. \A i \in Inums : Own(t'[p], i) = Own(t[p], i)
    BY <2>1, <1>1, <1>2, <1>4 DEF Own, One, ShapeOf, At, InIput, UnlinkMissing
  <2> QED BY <2>1, <2>2, <2>3, OwnTypes DEF RefsMove
<1>9. CoreMove(p)
  BY <1>2 DEF UnlinkMissing, CoreMove, ILocked, CanLock, FInv, FTypes
<1>10. PointersMove(p)
  BY <1>1, <1>2, <1>4 DEF UnlinkMissing, PointersMove, Source, Known
<1>11. PendingOf(t'[p]) = PendingOf(t[p])
  BY <1>1, <1>2, <1>4 DEF UnlinkMissing, PendingOf, ShapeOf, At, InIput
<1>12. UNCHANGED <<disk, dir, fref, fip, ofile>>
  BY DEF UnlinkMissing, ILocked
<1>13. t'[p].pc \notin {"ifree", "create3", "unlink2"}
  BY <1>1, <1>2, <1>4 DEF UnlinkMissing, ShapeOf, Afters, InIput
<1> QED BY <1>3, <1>5, <1>6, <1>7, <1>8, <1>9, <1>10, <1>11, <1>12, <1>13, QuietStep

LEMMA UnlinkRefuseKeeps ==
    ASSUME FInv, NEW p \in Procs, UnlinkRefuse(p)
    PROVE  FInv'
<1>1. t[p] \in ThreadStates /\ ShapeOf(t[p]) /\ AliveOf(t[p])
  BY ThreadKnown
<1>2. t[p].pc = "unlink2" /\ t[p].ip \in Inums /\ t[p].dp \in Inums
  BY <1>1 DEF UnlinkRefuse, CanLock, ThreadStates, Refs, ShapeOf, At, InIput
<1>3. Others(p) /\ t' \in [Procs -> ThreadStates]
  BY <1>1, <1>2 DEF UnlinkRefuse, Thread, Puts, LastPut, Others, Agree, FInv, FTypes, ThreadStates, Refs, Places, Calls
<1>4. /\ t'[p].pc = "iput" /\ t'[p].call = t[p].call
      /\ t'[p].path = t[p].path /\ t'[p].new = t[p].new
      /\ t'[p].ip = 0 /\ t'[p].dp = t[p].dp
      /\ t'[p].old = t[p].old /\ t'[p].put = t[p].ip
      /\ t'[p].after = "unlinkbad"
  BY <1>1, <1>2 DEF UnlinkRefuse, Thread, Puts, LastPut, FInv, FTypes, ThreadStates
<1>5. FTypes'
  BY <1>1, <1>2, <1>3 DEF UnlinkRefuse, FInv, FTypes, IGet, ILocked, In, Dinodes, CanLock
<1>6. ShapeOf(t'[p])
  BY <1>1, <1>2, <1>4, FilesAssumption DEF UnlinkRefuse, ShapeOf, At, InIput, Afters
<1>7. LocksMove(p)
  <2>1. \A i \in Inums : holder[i] = p <=> Holds(t[p], i)
    BY ThreadKnown
  <2>2. Nobody \notin Procs /\ 0 \notin Inums
    BY FilesAssumption
  <2>3. holder \in [Inums -> Procs \cup {Nobody}]
    BY DEF FInv, FTypes
  <2> QED BY <2>1, <2>2, <2>3, <1>1, <1>2, <1>4 DEF UnlinkRefuse, LocksMove, Holds, ShapeOf, At, InIput, CanLock
<1>8. RefsMove(p)
  <2>1. ref \in [Inums -> Nat] /\ 0 \notin Inums
    BY FilesAssumption DEF FInv, FTypes
  <2>2. ref' = ref
    BY DEF UnlinkRefuse
  <2>3. \A i \in Inums : Own(t'[p], i) = Own(t[p], i)
    BY <2>1, <1>1, <1>2, <1>4 DEF Own, One, ShapeOf, At, InIput
  <2> QED BY <2>1, <2>2, <2>3, OwnTypes DEF RefsMove
<1>9. CoreMove(p)
  BY <1>2 DEF UnlinkRefuse, CoreMove, ILocked, CanLock, FInv, FTypes
<1>10. PointersMove(p)
  BY <1>1, <1>2, <1>4 DEF UnlinkRefuse, PointersMove, Source, Known
<1>11. PendingOf(t'[p]) = PendingOf(t[p])
  BY <1>1, <1>2, <1>4 DEF UnlinkRefuse, PendingOf, ShapeOf, At, InIput
<1>12. UNCHANGED <<disk, dir, fref, fip, ofile>>
  BY DEF UnlinkRefuse, ILocked
<1>13. t'[p].pc \notin {"ifree", "create3", "unlink2"}
  BY <1>1, <1>2, <1>4 DEF UnlinkRefuse, ShapeOf, Afters, InIput
<1> QED BY <1>3, <1>5, <1>6, <1>7, <1>8, <1>9, <1>10, <1>11, <1>12, <1>13, QuietStep

LEMMA UnlinkBadKeeps ==
    ASSUME FInv, NEW p \in Procs, UnlinkBad(p)
    PROVE  FInv'
<1>1. t[p] \in ThreadStates /\ ShapeOf(t[p]) /\ AliveOf(t[p])
  BY ThreadKnown
<1>2. t[p].pc = "unlinkbad" /\ t[p].dp \in Inums
  BY <1>1 DEF UnlinkBad, CanLock, ThreadStates, Refs, ShapeOf, At, InIput
<1>v. LastPut(t[p].dp) \in ThreadStates
  BY <1>1, <1>2, ThreadTyped, PlacesAre DEF ThreadStates, UnlinkBad
<1>3. Others(p) /\ t' \in [Procs -> ThreadStates]
  BY <1>v DEF UnlinkBad, Others, Agree, FInv, FTypes
<1>4. /\ t'[p].pc = "iput" /\ t'[p].call = "none"
      /\ t'[p].path = <<>> /\ t'[p].new = <<>>
      /\ t'[p].ip = 0 /\ t'[p].dp = 0
      /\ t'[p].old = 0 /\ t'[p].put = t[p].dp
      /\ t'[p].after = "idle"
  BY <1>1, <1>2 DEF UnlinkBad, Thread, Puts, LastPut, FInv, FTypes, ThreadStates
<1>5. FTypes'
  BY <1>1, <1>2, <1>3 DEF UnlinkBad, FInv, FTypes, IGet, ILocked, In, Dinodes, CanLock
<1>6. ShapeOf(t'[p])
  BY <1>1, <1>2, <1>4, FilesAssumption DEF UnlinkBad, ShapeOf, At, InIput, Afters
<1>7. LocksMove(p)
  <2>1. \A i \in Inums : holder[i] = p <=> Holds(t[p], i)
    BY ThreadKnown
  <2>2. Nobody \notin Procs /\ 0 \notin Inums
    BY FilesAssumption
  <2>3. holder \in [Inums -> Procs \cup {Nobody}]
    BY DEF FInv, FTypes
  <2> QED BY <2>1, <2>2, <2>3, <1>1, <1>2, <1>4 DEF UnlinkBad, LocksMove, Holds, ShapeOf, At, InIput, CanLock
<1>8. RefsMove(p)
  <2>1. ref \in [Inums -> Nat] /\ 0 \notin Inums
    BY FilesAssumption DEF FInv, FTypes
  <2>2. ref' = ref
    BY DEF UnlinkBad
  <2>3. \A i \in Inums : Own(t'[p], i) = Own(t[p], i)
    BY <2>1, <1>1, <1>2, <1>4 DEF Own, One, ShapeOf, At, InIput
  <2> QED BY <2>1, <2>2, <2>3, OwnTypes DEF RefsMove
<1>9. CoreMove(p)
  BY <1>2 DEF UnlinkBad, CoreMove, ILocked, CanLock, FInv, FTypes
<1>10. PointersMove(p)
  BY <1>1, <1>2, <1>4 DEF UnlinkBad, PointersMove, Source, Known
<1>11. PendingOf(t'[p]) = PendingOf(t[p])
  BY <1>1, <1>2, <1>4 DEF UnlinkBad, PendingOf, ShapeOf, At, InIput
<1>12. UNCHANGED <<disk, dir, fref, fip, ofile>>
  BY DEF UnlinkBad, ILocked
<1>13. t'[p].pc \notin {"ifree", "create3", "unlink2"}
  BY <1>1, <1>2, <1>4 DEF UnlinkBad, ShapeOf, Afters, InIput
<1> QED BY <1>3, <1>5, <1>6, <1>7, <1>8, <1>9, <1>10, <1>11, <1>12, <1>13, QuietStep

LEMMA CreateFoundKeeps ==
    ASSUME FInv, NEW p \in Procs, CreateFound(p)
    PROVE  FInv'
<1>1. t[p] \in ThreadStates /\ ShapeOf(t[p]) /\ AliveOf(t[p])
  BY ThreadKnown
<1>2. t[p].pc = "parent" /\ t[p].dp \in Inums
  BY <1>1 DEF CreateFound, CanLock, ThreadStates, Refs, ShapeOf, At, InIput
<1> DEFINE nx == dir[t[p].dp][Name(p)]
<1>n. nx \in Inums
  BY <1>1, <1>2 DEF CreateFound, FInv, FTypes, ThreadStates, Refs, ShapeOf, At, InIput, Name, CanLock
<1>v. Puts([Thread EXCEPT !.ip = nx, !.call = t[p].call], t[p].dp, "create2") \in ThreadStates
  <2>1. nx \in Refs
    BY <1>n, PlacesAre
  <2> HIDE DEF nx
  <2>2. [Thread EXCEPT !.ip = nx, !.call = t[p].call] \in ThreadStates
    BY <1>1, <2>1, ThreadTyped DEF ThreadStates
  <2> QED BY <2>2, <1>2, ThreadTyped, PlacesAre
<1>3. Others(p) /\ t' \in [Procs -> ThreadStates]
  BY <1>v DEF CreateFound, Others, Agree, FInv, FTypes
<1>4. /\ t'[p].pc = "iput" /\ t'[p].call = t[p].call
      /\ t'[p].path = <<>> /\ t'[p].new = <<>>
      /\ t'[p].ip = nx /\ t'[p].dp = 0
      /\ t'[p].old = 0 /\ t'[p].put = t[p].dp
      /\ t'[p].after = "create2"
  BY <1>1, <1>2 DEF CreateFound, Thread, Puts, LastPut, FInv, FTypes, ThreadStates
<1>5. FTypes'
  BY <1>1, <1>2, <1>3, <1>n DEF CreateFound, FInv, FTypes, IGet, ILocked, In, Dinodes, CanLock
<1>m. ref' = [ref EXCEPT ![nx] = @ + 1] /\ Source(nx) /\ nx # 0
  <2>1. ref' = [ref EXCEPT ![nx] = @ + 1]
    BY DEF CreateFound, IGet
  <2>2. Head(t[p].path) \in Names
    BY <1>1, <1>2 DEF ThreadStates, ShapeOf, At, InIput
  <2>3. Source(nx)
    BY <1>2, <2>2 DEF Source, Name
  <2>4. nx # 0
    BY <1>n, FilesAssumption
  <2> QED BY <2>1, <2>3, <2>4
<1> HIDE DEF nx
<1>o. t[p].old = 0
  BY <1>1, <1>2 DEF CreateFound, ShapeOf, At, InIput
<1>6. ShapeOf(t'[p])
  BY <1>1, <1>2, <1>4, <1>n, <1>m, <1>o, FilesAssumption DEF CreateFound, ShapeOf, At, InIput, Afters
<1>7. LocksMove(p)
  <2>1. \A i \in Inums : holder[i] = p <=> Holds(t[p], i)
    BY ThreadKnown
  <2>2. Nobody \notin Procs /\ 0 \notin Inums
    BY FilesAssumption
  <2>3. holder \in [Inums -> Procs \cup {Nobody}]
    BY DEF FInv, FTypes
  <2> QED BY <2>1, <2>2, <2>3, <1>1, <1>2, <1>4, <1>n, <1>m, <1>o DEF CreateFound, LocksMove, Holds, ShapeOf, At, InIput, CanLock
<1>8. RefsMove(p)
  <2>1. ref \in [Inums -> Nat] /\ 0 \notin Inums /\ ROOTINO \in Inums
    BY FilesAssumption DEF FInv, FTypes, ROOTINO
  <2> QED BY <2>1, <1>1, <1>2, <1>4, <1>n, <1>m, <1>o DEF IGet, RefsMove, Own, One, ShapeOf, At, InIput
<1>9. CoreMove(p)
  BY <1>2 DEF CreateFound, CoreMove, ILocked, CanLock, FInv, FTypes
<1>10. PointersMove(p)
  BY <1>1, <1>2, <1>4, <1>n, <1>m, <1>o DEF PointersMove, Known
<1>11. PendingOf(t'[p]) = PendingOf(t[p])
  BY <1>1, <1>2, <1>4, <1>o DEF Found, PendingOf, ShapeOf, At, InIput
<1>12. UNCHANGED <<disk, dir, fref, fip, ofile>>
  BY DEF CreateFound, ILocked
<1>13. t'[p].pc \notin {"ifree", "create3", "unlink2"}
  BY <1>1, <1>2, <1>4 DEF CreateFound, ShapeOf, Afters, InIput
<1> QED BY <1>3, <1>5, <1>6, <1>7, <1>8, <1>9, <1>10, <1>11, <1>12, <1>13, QuietStep

LEMMA CreateOpensKeeps ==
    ASSUME FInv, NEW p \in Procs, CreateOpens(p)
    PROVE  FInv'
<1>1. t[p] \in ThreadStates /\ ShapeOf(t[p]) /\ AliveOf(t[p])
  BY ThreadKnown
<1>2. t[p].pc = "create2" /\ t[p].ip \in Inums
  BY <1>1 DEF CreateOpens, Opened, CanLock, ThreadStates, Refs, ShapeOf, At, InIput
<1>v. Opened(t[p].ip) \in ThreadStates
  BY <1>1, <1>2, ThreadTyped, PlacesAre DEF ThreadStates, CreateOpens, Opened
<1>3. Others(p) /\ t' \in [Procs -> ThreadStates]
  BY <1>v DEF CreateOpens, Opened, Others, Agree, FInv, FTypes
<1>4. /\ t'[p].pc = "opened" /\ t'[p].call = "none"
      /\ t'[p].path = <<>> /\ t'[p].new = <<>>
      /\ t'[p].ip = t[p].ip /\ t'[p].dp = 0
      /\ t'[p].old = 0 /\ t'[p].put = 0
      /\ t'[p].after = "idle"
  BY <1>1, <1>2 DEF CreateOpens, Opened, Thread, Puts, LastPut, FInv, FTypes, ThreadStates
<1>5. FTypes'
  BY <1>1, <1>2, <1>3 DEF CreateOpens, Opened, FInv, FTypes, IGet, ILocked, In, Dinodes, CanLock
<1>6. ShapeOf(t'[p])
  BY <1>1, <1>2, <1>4, FilesAssumption DEF CreateOpens, Opened, ShapeOf, At, InIput, Afters
<1>7. LocksMove(p)
  <2>1. \A i \in Inums : holder[i] = p <=> Holds(t[p], i)
    BY ThreadKnown
  <2>2. Nobody \notin Procs /\ 0 \notin Inums
    BY FilesAssumption
  <2>3. holder \in [Inums -> Procs \cup {Nobody}]
    BY DEF FInv, FTypes
  <2> QED BY <2>1, <2>2, <2>3, <1>1, <1>2, <1>4 DEF CreateOpens, Opened, LocksMove, Holds, ShapeOf, At, InIput, CanLock
<1>8. RefsMove(p)
  <2>1. ref \in [Inums -> Nat] /\ 0 \notin Inums
    BY FilesAssumption DEF FInv, FTypes
  <2>2. ref' = ref
    BY DEF CreateOpens, Opened
  <2>3. \A i \in Inums : Own(t'[p], i) = Own(t[p], i)
    BY <2>1, <1>1, <1>2, <1>4 DEF Own, One, ShapeOf, At, InIput
  <2> QED BY <2>1, <2>2, <2>3, OwnTypes DEF RefsMove
<1>9. CoreMove(p)
  BY <1>2 DEF CreateOpens, Opened, CoreMove, ILocked, CanLock, FInv, FTypes
<1>10. PointersMove(p)
  BY <1>1, <1>2, <1>4 DEF CreateOpens, Opened, PointersMove, Source, Known
<1>11. PendingOf(t'[p]) = PendingOf(t[p])
  BY <1>1, <1>2, <1>4 DEF CreateOpens, Opened, PendingOf, ShapeOf, At, InIput
<1>12. UNCHANGED <<disk, dir, fref, fip, ofile>>
  BY DEF CreateOpens, Opened, ILocked
<1>13. t'[p].pc \notin {"ifree", "create3", "unlink2"}
  BY <1>1, <1>2, <1>4 DEF CreateOpens, Opened, ShapeOf, Afters, InIput
<1> QED BY <1>3, <1>5, <1>6, <1>7, <1>8, <1>9, <1>10, <1>11, <1>12, <1>13, QuietStep

LEMMA CreateExistsKeeps ==
    ASSUME FInv, NEW p \in Procs, CreateExists(p)
    PROVE  FInv'
<1>1. t[p] \in ThreadStates /\ ShapeOf(t[p]) /\ AliveOf(t[p])
  BY ThreadKnown
<1>2. t[p].pc = "create2" /\ t[p].ip \in Inums
  BY <1>1 DEF CreateExists, CanLock, ThreadStates, Refs, ShapeOf, At, InIput
<1>v. LastPut(t[p].ip) \in ThreadStates
  BY <1>1, <1>2, ThreadTyped, PlacesAre DEF ThreadStates, CreateExists
<1>3. Others(p) /\ t' \in [Procs -> ThreadStates]
  BY <1>v DEF CreateExists, Others, Agree, FInv, FTypes
<1>4. /\ t'[p].pc = "iput" /\ t'[p].call = "none"
      /\ t'[p].path = <<>> /\ t'[p].new = <<>>
      /\ t'[p].ip = 0 /\ t'[p].dp = 0
      /\ t'[p].old = 0 /\ t'[p].put = t[p].ip
      /\ t'[p].after = "idle"
  BY <1>1, <1>2 DEF CreateExists, Thread, Puts, LastPut, FInv, FTypes, ThreadStates
<1>5. FTypes'
  BY <1>1, <1>2, <1>3 DEF CreateExists, FInv, FTypes, IGet, ILocked, In, Dinodes, CanLock
<1>6. ShapeOf(t'[p])
  BY <1>1, <1>2, <1>4, FilesAssumption DEF CreateExists, ShapeOf, At, InIput, Afters
<1>7. LocksMove(p)
  <2>1. \A i \in Inums : holder[i] = p <=> Holds(t[p], i)
    BY ThreadKnown
  <2>2. Nobody \notin Procs /\ 0 \notin Inums
    BY FilesAssumption
  <2>3. holder \in [Inums -> Procs \cup {Nobody}]
    BY DEF FInv, FTypes
  <2> QED BY <2>1, <2>2, <2>3, <1>1, <1>2, <1>4 DEF CreateExists, LocksMove, Holds, ShapeOf, At, InIput, CanLock
<1>8. RefsMove(p)
  <2>1. ref \in [Inums -> Nat] /\ 0 \notin Inums
    BY FilesAssumption DEF FInv, FTypes
  <2>2. ref' = ref
    BY DEF CreateExists
  <2>3. \A i \in Inums : Own(t'[p], i) = Own(t[p], i)
    BY <2>1, <1>1, <1>2, <1>4 DEF Own, One, ShapeOf, At, InIput
  <2> QED BY <2>1, <2>2, <2>3, OwnTypes DEF RefsMove
<1>9. CoreMove(p)
  BY <1>2 DEF CreateExists, CoreMove, ILocked, CanLock, FInv, FTypes
<1>10. PointersMove(p)
  BY <1>1, <1>2, <1>4 DEF CreateExists, PointersMove, Source, Known
<1>11. PendingOf(t'[p]) = PendingOf(t[p])
  BY <1>1, <1>2, <1>4 DEF CreateExists, PendingOf, ShapeOf, At, InIput
<1>12. UNCHANGED <<disk, dir, fref, fip, ofile>>
  BY DEF CreateExists, ILocked
<1>13. t'[p].pc \notin {"ifree", "create3", "unlink2"}
  BY <1>1, <1>2, <1>4 DEF CreateExists, ShapeOf, Afters, InIput
<1> QED BY <1>3, <1>5, <1>6, <1>7, <1>8, <1>9, <1>10, <1>11, <1>12, <1>13, QuietStep

LEMMA LinkTakenKeeps ==
    ASSUME FInv, NEW p \in Procs, LinkTaken(p)
    PROVE  FInv'
<1>1. t[p] \in ThreadStates /\ ShapeOf(t[p]) /\ AliveOf(t[p])
  BY ThreadKnown
<1>2. t[p].pc = "parent" /\ t[p].dp \in Inums
  BY <1>1 DEF LinkTaken, CanLock, ThreadStates, Refs, ShapeOf, At, InIput
<1> DEFINE nx == dir[t[p].dp][Name(p)]
<1>n. nx \in Inums
  BY <1>1, <1>2 DEF LinkTaken, FInv, FTypes, ThreadStates, Refs, ShapeOf, At, InIput, Name, CanLock
<1>3. Others(p) /\ t' \in [Procs -> ThreadStates]
  BY <1>1, <1>2, <1>n DEF LinkTaken, Thread, Puts, LastPut, Others, Agree, FInv, FTypes, ThreadStates, Refs, Places, Calls
<1>4. /\ t'[p].pc = "iput" /\ t'[p].call = t[p].call
      /\ t'[p].path = t[p].path /\ t'[p].new = t[p].new
      /\ t'[p].ip = t[p].ip /\ t'[p].dp = t[p].dp
      /\ t'[p].old = t[p].old /\ t'[p].put = nx
      /\ t'[p].after = "linkput"
  BY <1>1, <1>2 DEF LinkTaken, Thread, Puts, LastPut, FInv, FTypes, ThreadStates
<1>5. FTypes'
  BY <1>1, <1>2, <1>3, <1>n DEF LinkTaken, FInv, FTypes, IGet, ILocked, In, Dinodes, CanLock
<1>m. ref' = [ref EXCEPT ![nx] = @ + 1] /\ Source(nx) /\ nx # 0
  <2>1. ref' = [ref EXCEPT ![nx] = @ + 1]
    BY DEF LinkTaken, IGet
  <2>2. Head(t[p].path) \in Names
    BY <1>1, <1>2 DEF ThreadStates, ShapeOf, At, InIput
  <2>3. Source(nx)
    BY <1>2, <2>2 DEF Source, Name
  <2>4. nx # 0
    BY <1>n, FilesAssumption
  <2> QED BY <2>1, <2>3, <2>4
<1> HIDE DEF nx
<1>6. ShapeOf(t'[p])
  BY <1>1, <1>2, <1>4, <1>n, <1>m, FilesAssumption DEF LinkTaken, ShapeOf, At, InIput, Afters
<1>7. LocksMove(p)
  <2>1. \A i \in Inums : holder[i] = p <=> Holds(t[p], i)
    BY ThreadKnown
  <2>2. Nobody \notin Procs /\ 0 \notin Inums
    BY FilesAssumption
  <2>3. holder \in [Inums -> Procs \cup {Nobody}]
    BY DEF FInv, FTypes
  <2> QED BY <2>1, <2>2, <2>3, <1>1, <1>2, <1>4, <1>n, <1>m DEF LinkTaken, LocksMove, Holds, ShapeOf, At, InIput, CanLock
<1>8. RefsMove(p)
  <2>1. ref \in [Inums -> Nat] /\ 0 \notin Inums /\ ROOTINO \in Inums
    BY FilesAssumption DEF FInv, FTypes, ROOTINO
  <2> QED BY <2>1, <1>1, <1>2, <1>4, <1>n, <1>m DEF IGet, RefsMove, Own, One, ShapeOf, At, InIput
<1>9. CoreMove(p)
  BY <1>2 DEF LinkTaken, CoreMove, ILocked, CanLock, FInv, FTypes
<1>10. PointersMove(p)
  BY <1>1, <1>2, <1>4, <1>n, <1>m DEF PointersMove, Known
<1>11. PendingOf(t'[p]) = PendingOf(t[p])
  BY <1>1, <1>2, <1>4 DEF Found, PendingOf, ShapeOf, At, InIput
<1>12. UNCHANGED <<disk, dir, fref, fip, ofile>>
  BY DEF LinkTaken, ILocked
<1>13. t'[p].pc \notin {"ifree", "create3", "unlink2"}
  BY <1>1, <1>2, <1>4 DEF LinkTaken, ShapeOf, Afters, InIput
<1> QED BY <1>3, <1>5, <1>6, <1>7, <1>8, <1>9, <1>10, <1>11, <1>12, <1>13, QuietStep

LEMMA LinkPutKeeps ==
    ASSUME FInv, NEW p \in Procs, LinkPut(p)
    PROVE  FInv'
<1>1. t[p] \in ThreadStates /\ ShapeOf(t[p]) /\ AliveOf(t[p])
  BY ThreadKnown
<1>2. t[p].pc = "linkput" /\ t[p].dp \in Inums /\ t[p].old \in Inums
  BY <1>1 DEF LinkPut, CanLock, ThreadStates, Refs, ShapeOf, At, InIput
<1>v. Puts([Thread EXCEPT !.old = t[p].old], t[p].dp, "linkbad") \in ThreadStates
  <2>1. [Thread EXCEPT !.old = t[p].old] \in ThreadStates
    BY <1>1, ThreadTyped DEF ThreadStates
  <2> QED BY <2>1, <1>2, ThreadTyped, PlacesAre
<1>3. Others(p) /\ t' \in [Procs -> ThreadStates]
  BY <1>v DEF LinkPut, Others, Agree, FInv, FTypes
<1>4. /\ t'[p].pc = "iput" /\ t'[p].call = "none"
      /\ t'[p].path = <<>> /\ t'[p].new = <<>>
      /\ t'[p].ip = 0 /\ t'[p].dp = 0
      /\ t'[p].old = t[p].old /\ t'[p].put = t[p].dp
      /\ t'[p].after = "linkbad"
  BY <1>1, <1>2 DEF LinkPut, Thread, Puts, LastPut, FInv, FTypes, ThreadStates
<1>5. FTypes'
  BY <1>1, <1>2, <1>3 DEF LinkPut, FInv, FTypes, IGet, ILocked, In, Dinodes, CanLock
<1>6. ShapeOf(t'[p])
  BY <1>1, <1>2, <1>4, FilesAssumption DEF LinkPut, ShapeOf, At, InIput, Afters
<1>7. LocksMove(p)
  <2>1. \A i \in Inums : holder[i] = p <=> Holds(t[p], i)
    BY ThreadKnown
  <2>2. Nobody \notin Procs /\ 0 \notin Inums
    BY FilesAssumption
  <2>3. holder \in [Inums -> Procs \cup {Nobody}]
    BY DEF FInv, FTypes
  <2> QED BY <2>1, <2>2, <2>3, <1>1, <1>2, <1>4 DEF LinkPut, LocksMove, Holds, ShapeOf, At, InIput, CanLock
<1>8. RefsMove(p)
  <2>1. ref \in [Inums -> Nat] /\ 0 \notin Inums
    BY FilesAssumption DEF FInv, FTypes
  <2>2. ref' = ref
    BY DEF LinkPut
  <2>3. \A i \in Inums : Own(t'[p], i) = Own(t[p], i)
    BY <2>1, <1>1, <1>2, <1>4 DEF Own, One, ShapeOf, At, InIput
  <2> QED BY <2>1, <2>2, <2>3, OwnTypes DEF RefsMove
<1>9. CoreMove(p)
  BY <1>2 DEF LinkPut, CoreMove, ILocked, CanLock, FInv, FTypes
<1>10. PointersMove(p)
  BY <1>1, <1>2, <1>4 DEF LinkPut, PointersMove, Source, Known
<1>11. PendingOf(t'[p]) = PendingOf(t[p])
  BY <1>1, <1>2, <1>4 DEF LinkPut, PendingOf, ShapeOf, At, InIput
<1>12. UNCHANGED <<disk, dir, fref, fip, ofile>>
  BY DEF LinkPut, ILocked
<1>13. t'[p].pc \notin {"ifree", "create3", "unlink2"}
  BY <1>1, <1>2, <1>4 DEF LinkPut, ShapeOf, Afters, InIput
<1> QED BY <1>3, <1>5, <1>6, <1>7, <1>8, <1>9, <1>10, <1>11, <1>12, <1>13, QuietStep

LEMMA LinkEndKeeps ==
    ASSUME FInv, NEW p \in Procs, LinkEnd(p)
    PROVE  FInv'
<1>1. t[p] \in ThreadStates /\ ShapeOf(t[p]) /\ AliveOf(t[p])
  BY ThreadKnown
<1>2. t[p].pc = "linkend" /\ t[p].old \in Inums
  BY <1>1 DEF LinkEnd, CanLock, ThreadStates, Refs, ShapeOf, At, InIput
<1>v. LastPut(t[p].old) \in ThreadStates
  BY <1>1, <1>2, ThreadTyped, PlacesAre DEF ThreadStates, LinkEnd
<1>3. Others(p) /\ t' \in [Procs -> ThreadStates]
  BY <1>v DEF LinkEnd, Others, Agree, FInv, FTypes
<1>4. /\ t'[p].pc = "iput" /\ t'[p].call = "none"
      /\ t'[p].path = <<>> /\ t'[p].new = <<>>
      /\ t'[p].ip = 0 /\ t'[p].dp = 0
      /\ t'[p].old = 0 /\ t'[p].put = t[p].old
      /\ t'[p].after = "idle"
  BY <1>1, <1>2 DEF LinkEnd, Thread, Puts, LastPut, FInv, FTypes, ThreadStates
<1>5. FTypes'
  BY <1>1, <1>2, <1>3 DEF LinkEnd, FInv, FTypes, IGet, ILocked, In, Dinodes, CanLock
<1>6. ShapeOf(t'[p])
  BY <1>1, <1>2, <1>4, FilesAssumption DEF LinkEnd, ShapeOf, At, InIput, Afters
<1>7. LocksMove(p)
  <2>1. \A i \in Inums : holder[i] = p <=> Holds(t[p], i)
    BY ThreadKnown
  <2>2. Nobody \notin Procs /\ 0 \notin Inums
    BY FilesAssumption
  <2>3. holder \in [Inums -> Procs \cup {Nobody}]
    BY DEF FInv, FTypes
  <2> QED BY <2>1, <2>2, <2>3, <1>1, <1>2, <1>4 DEF LinkEnd, LocksMove, Holds, ShapeOf, At, InIput, CanLock
<1>8. RefsMove(p)
  <2>1. ref \in [Inums -> Nat] /\ 0 \notin Inums
    BY FilesAssumption DEF FInv, FTypes
  <2>2. ref' = ref
    BY DEF LinkEnd
  <2>3. \A i \in Inums : Own(t'[p], i) = Own(t[p], i)
    BY <2>1, <1>1, <1>2, <1>4 DEF Own, One, ShapeOf, At, InIput
  <2> QED BY <2>1, <2>2, <2>3, OwnTypes DEF RefsMove
<1>9. CoreMove(p)
  BY <1>2 DEF LinkEnd, CoreMove, ILocked, CanLock, FInv, FTypes
<1>10. PointersMove(p)
  BY <1>1, <1>2, <1>4 DEF LinkEnd, PointersMove, Source, Known
<1>11. PendingOf(t'[p]) = PendingOf(t[p])
  BY <1>1, <1>2, <1>4 DEF LinkEnd, PendingOf, ShapeOf, At, InIput
<1>12. UNCHANGED <<disk, dir, fref, fip, ofile>>
  BY DEF LinkEnd, ILocked
<1>13. t'[p].pc \notin {"ifree", "create3", "unlink2"}
  BY <1>1, <1>2, <1>4 DEF LinkEnd, ShapeOf, Afters, InIput
<1> QED BY <1>3, <1>5, <1>6, <1>7, <1>8, <1>9, <1>10, <1>11, <1>12, <1>13, QuietStep

LEMMA OpenFailKeeps ==
    ASSUME FInv, NEW p \in Procs, OpenFail(p)
    PROVE  FInv'
<1>1. t[p] \in ThreadStates /\ ShapeOf(t[p]) /\ AliveOf(t[p])
  BY ThreadKnown
<1>2. t[p].pc = "opened" /\ t[p].ip \in Inums
  BY <1>1 DEF OpenFail, CanLock, ThreadStates, Refs, ShapeOf, At, InIput
<1>v. LastPut(t[p].ip) \in ThreadStates
  BY <1>1, <1>2, ThreadTyped, PlacesAre DEF ThreadStates, OpenFail
<1>3. Others(p) /\ t' \in [Procs -> ThreadStates]
  BY <1>v DEF OpenFail, Others, Agree, FInv, FTypes
<1>4. /\ t'[p].pc = "iput" /\ t'[p].call = "none"
      /\ t'[p].path = <<>> /\ t'[p].new = <<>>
      /\ t'[p].ip = 0 /\ t'[p].dp = 0
      /\ t'[p].old = 0 /\ t'[p].put = t[p].ip
      /\ t'[p].after = "idle"
  BY <1>1, <1>2 DEF OpenFail, Thread, Puts, LastPut, FInv, FTypes, ThreadStates
<1>5. FTypes'
  BY <1>1, <1>2, <1>3 DEF OpenFail, FInv, FTypes, IGet, ILocked, In, Dinodes, CanLock
<1>6. ShapeOf(t'[p])
  BY <1>1, <1>2, <1>4, FilesAssumption DEF OpenFail, ShapeOf, At, InIput, Afters
<1>7. LocksMove(p)
  <2>1. \A i \in Inums : holder[i] = p <=> Holds(t[p], i)
    BY ThreadKnown
  <2>2. Nobody \notin Procs /\ 0 \notin Inums
    BY FilesAssumption
  <2>3. holder \in [Inums -> Procs \cup {Nobody}]
    BY DEF FInv, FTypes
  <2> QED BY <2>1, <2>2, <2>3, <1>1, <1>2, <1>4 DEF OpenFail, LocksMove, Holds, ShapeOf, At, InIput, CanLock
<1>8. RefsMove(p)
  <2>1. ref \in [Inums -> Nat] /\ 0 \notin Inums
    BY FilesAssumption DEF FInv, FTypes
  <2>2. ref' = ref
    BY DEF OpenFail
  <2>3. \A i \in Inums : Own(t'[p], i) = Own(t[p], i)
    BY <2>1, <1>1, <1>2, <1>4 DEF Own, One, ShapeOf, At, InIput
  <2> QED BY <2>1, <2>2, <2>3, OwnTypes DEF RefsMove
<1>9. CoreMove(p)
  BY <1>2 DEF OpenFail, CoreMove, ILocked, CanLock, FInv, FTypes
<1>10. PointersMove(p)
  BY <1>1, <1>2, <1>4 DEF OpenFail, PointersMove, Source, Known
<1>11. PendingOf(t'[p]) = PendingOf(t[p])
  BY <1>1, <1>2, <1>4 DEF OpenFail, PendingOf, ShapeOf, At, InIput
<1>12. UNCHANGED <<disk, dir, fref, fip, ofile>>
  BY DEF OpenFail, ILocked
<1>13. t'[p].pc \notin {"ifree", "create3", "unlink2"}
  BY <1>1, <1>2, <1>4 DEF OpenFail, ShapeOf, Afters, InIput
<1> QED BY <1>3, <1>5, <1>6, <1>7, <1>8, <1>9, <1>10, <1>11, <1>12, <1>13, QuietStep

LEMMA IPutLockFreeKeeps ==
    ASSUME FInv, NEW p \in Procs, IPutLock(p),
           core[t[p].put] # NotValid, core[t[p].put].nlink = 0, ref[t[p].put] = 1
    PROVE  FInv'
<1>1. t[p] \in ThreadStates /\ ShapeOf(t[p]) /\ AliveOf(t[p])
  BY ThreadKnown
<1>2. t[p].pc = "iput" /\ t[p].put \in Inums
  BY <1>1 DEF IPutLock, CanLock, ThreadStates, Refs, ShapeOf, At, InIput
<1>v. [t[p] EXCEPT !.pc = "ifree"] \in ThreadStates
  BY <1>1, <1>2, ThreadTyped, PlacesAre DEF ThreadStates, IPutLock
<1>t. t' = [t EXCEPT ![p] = [t[p] EXCEPT !.pc = "ifree"]]
  BY DEF IPutLock
<1>3. Others(p) /\ t' \in [Procs -> ThreadStates]
  BY <1>t, <1>v DEF Others, Agree, FInv, FTypes
<1>4. /\ t'[p].pc = "ifree" /\ t'[p].call = t[p].call
      /\ t'[p].path = t[p].path /\ t'[p].new = t[p].new
      /\ t'[p].ip = t[p].ip /\ t'[p].dp = t[p].dp
      /\ t'[p].old = t[p].old /\ t'[p].put = t[p].put
      /\ t'[p].after = t[p].after
  BY <1>t, <1>1, <1>2 DEF Thread, Puts, LastPut, FInv, FTypes, ThreadStates
<1>5. FTypes'
  BY <1>1, <1>2, <1>3 DEF IPutLock, FInv, FTypes, IGet, ILocked, In, Dinodes, CanLock
<1>l. Alone(p, t[p].put)
  BY <1>2, LastReference DEF FInv
<1>6. ShapeOf(t'[p])
  BY <1>1, <1>2, <1>4, <1>l, FilesAssumption DEF IPutLock, ShapeOf, At, InIput, Afters, Alone
<1>7. LocksMove(p)
  <2>1. \A i \in Inums : holder[i] = p <=> Holds(t[p], i)
    BY ThreadKnown
  <2>2. Nobody \notin Procs /\ 0 \notin Inums
    BY FilesAssumption
  <2>3. holder \in [Inums -> Procs \cup {Nobody}]
    BY DEF FInv, FTypes
  <2> QED BY <2>1, <2>2, <2>3, <1>1, <1>2, <1>4 DEF IPutLock, LocksMove, Holds, ShapeOf, At, InIput, CanLock
<1>8. RefsMove(p)
  <2>1. ref \in [Inums -> Nat] /\ 0 \notin Inums
    BY FilesAssumption DEF FInv, FTypes
  <2>2. ref' = ref
    BY DEF IPutLock
  <2>3. \A i \in Inums : Own(t'[p], i) = Own(t[p], i)
    BY <2>1, <1>1, <1>2, <1>4 DEF Own, One, ShapeOf, At, InIput
  <2> QED BY <2>1, <2>2, <2>3, OwnTypes DEF RefsMove
<1>9. CoreMove(p)
  BY <1>2 DEF IPutLock, CoreMove, ILocked, CanLock, FInv, FTypes
<1>10. PointersMove(p)
  BY <1>1, <1>2, <1>4 DEF IPutLock, PointersMove, Source, Known
<1>11. PendingOf(t'[p]) = PendingOf(t[p])
  BY <1>1, <1>2, <1>4 DEF IPutLock, PendingOf, ShapeOf, At, InIput
<1>12. UNCHANGED <<disk, dir, fref, fip, ofile>>
  BY DEF IPutLock, ILocked
<1>13. ShapeRight' /\ LocksRight' /\ RefsCounted' /\ LinksRight'
  BY <1>3, <1>6, <1>7, <1>8, <1>11, <1>12, ShapeStep, LocksStep, RefsStep, LinksStep
<1>14. FilesMove(p)
  BY <1>12 DEF FilesMove
<1>15. CoreRight' /\ AliveRight'
  BY <1>3, <1>5, <1>6, <1>9, <1>10, <1>12, <1>14, CoreStep, AliveStep
<1>f. /\ core'[t'[p].put] # NotValid
      /\ core'[t'[p].put] = disk[t'[p].put]
      /\ disk[t'[p].put].nlink = 0
      /\ ref'[t'[p].put] = 1
  <2>1. holder[t[p].put] = Nobody
    BY DEF IPutLock
  <2>2. core[t[p].put] = disk[t[p].put]
    BY <2>1, <1>2, InRight
  <2> QED BY <2>2, <1>4 DEF IPutLock
<1>16. FreeingRight'
  BY <1>3, <1>6, <1>8, <1>9, <1>10, <1>12, <1>f, FreeingStep
<1>17. UnlinkRight'
  BY <1>3, <1>4, <1>12, UnlinkStep
<1>18. CreateRight'
  BY <1>3, <1>4, <1>6, <1>9, <1>10, <1>12, <1>14, CreateStep
<1>19. FilesRight'
  BY <1>12 DEF FInv, FilesRight
<1> QED BY <1>5, <1>13, <1>15, <1>16, <1>17, <1>18, <1>19 DEF FInv

LEMMA IPutLockRefKeeps ==
    ASSUME FInv, NEW p \in Procs, IPutLock(p),
           ~(core[t[p].put] # NotValid /\ core[t[p].put].nlink = 0 /\ ref[t[p].put] = 1)
    PROVE  FInv'
<1>1. t[p] \in ThreadStates /\ ShapeOf(t[p]) /\ AliveOf(t[p])
  BY ThreadKnown
<1>2. t[p].pc = "iput" /\ t[p].put \in Inums
  BY <1>1 DEF IPutLock, CanLock, ThreadStates, Refs, ShapeOf, At, InIput
<1>3. Others(p) /\ t' \in [Procs -> ThreadStates]
  BY <1>1, <1>2 DEF IPutLock, Thread, Puts, LastPut, Others, Agree, FInv, FTypes, ThreadStates, Refs, Places, Calls
<1>4. /\ t'[p].pc = "iref" /\ t'[p].call = t[p].call
      /\ t'[p].path = t[p].path /\ t'[p].new = t[p].new
      /\ t'[p].ip = t[p].ip /\ t'[p].dp = t[p].dp
      /\ t'[p].old = t[p].old /\ t'[p].put = t[p].put
      /\ t'[p].after = t[p].after
  BY <1>1, <1>2 DEF IPutLock, Thread, Puts, LastPut, FInv, FTypes, ThreadStates
<1>5. FTypes'
  BY <1>1, <1>2, <1>3 DEF IPutLock, FInv, FTypes, IGet, ILocked, In, Dinodes, CanLock
<1>6. ShapeOf(t'[p])
  BY <1>1, <1>2, <1>4, FilesAssumption DEF IPutLock, ShapeOf, At, InIput, Afters
<1>7. LocksMove(p)
  <2>1. \A i \in Inums : holder[i] = p <=> Holds(t[p], i)
    BY ThreadKnown
  <2>2. Nobody \notin Procs /\ 0 \notin Inums
    BY FilesAssumption
  <2>3. holder \in [Inums -> Procs \cup {Nobody}]
    BY DEF FInv, FTypes
  <2> QED BY <2>1, <2>2, <2>3, <1>1, <1>2, <1>4 DEF IPutLock, LocksMove, Holds, ShapeOf, At, InIput, CanLock
<1>8. RefsMove(p)
  <2>1. ref \in [Inums -> Nat] /\ 0 \notin Inums
    BY FilesAssumption DEF FInv, FTypes
  <2>2. ref' = ref
    BY DEF IPutLock
  <2>3. \A i \in Inums : Own(t'[p], i) = Own(t[p], i)
    BY <2>1, <1>1, <1>2, <1>4 DEF Own, One, ShapeOf, At, InIput
  <2> QED BY <2>1, <2>2, <2>3, OwnTypes DEF RefsMove
<1>9. CoreMove(p)
  BY <1>2 DEF IPutLock, CoreMove, ILocked, CanLock, FInv, FTypes
<1>10. PointersMove(p)
  BY <1>1, <1>2, <1>4 DEF IPutLock, PointersMove, Source, Known
<1>11. PendingOf(t'[p]) = PendingOf(t[p])
  BY <1>1, <1>2, <1>4 DEF IPutLock, PendingOf, ShapeOf, At, InIput
<1>12. UNCHANGED <<disk, dir, fref, fip, ofile>>
  BY DEF IPutLock, ILocked
<1>13. t'[p].pc \notin {"ifree", "create3", "unlink2"}
  BY <1>1, <1>2, <1>4 DEF IPutLock, ShapeOf, Afters, InIput
<1> QED BY <1>3, <1>5, <1>6, <1>7, <1>8, <1>9, <1>10, <1>11, <1>12, <1>13, QuietStep

LEMMA IRefLastKeeps ==
    ASSUME FInv, NEW p \in Procs, IRef(p), t[p].after = "idle"
    PROVE  FInv'
<1>1. t[p] \in ThreadStates /\ ShapeOf(t[p]) /\ AliveOf(t[p])
  BY ThreadKnown
<1>2. t[p].pc = "iref" /\ t[p].put \in Inums
  BY <1>1 DEF IRef, CanLock, ThreadStates, Refs, ShapeOf, At, InIput
<1>v. Thread \in ThreadStates
  BY <1>1, <1>2, ThreadTyped, PlacesAre DEF ThreadStates, IRef
<1>3. Others(p) /\ t' \in [Procs -> ThreadStates]
  BY <1>v DEF IRef, Others, Agree, FInv, FTypes
<1>4. /\ t'[p].pc = "idle" /\ t'[p].call = "none"
      /\ t'[p].path = <<>> /\ t'[p].new = <<>>
      /\ t'[p].ip = 0 /\ t'[p].dp = 0
      /\ t'[p].old = 0 /\ t'[p].put = 0
      /\ t'[p].after = "idle"
  BY <1>1, <1>2 DEF IRef, Thread, Puts, LastPut, FInv, FTypes, ThreadStates
<1>5. FTypes'
  BY <1>1, <1>2, <1>3, RefPositive DEF IRef, FInv, FTypes, IGet, ILocked, In, Dinodes, CanLock
<1>6. ShapeOf(t'[p])
  BY <1>1, <1>2, <1>4, FilesAssumption DEF IRef, ShapeOf, At, InIput, Afters
<1>7. LocksMove(p)
  <2>1. \A i \in Inums : holder[i] = p <=> Holds(t[p], i)
    BY ThreadKnown
  <2>2. Nobody \notin Procs /\ 0 \notin Inums
    BY FilesAssumption
  <2>3. holder \in [Inums -> Procs \cup {Nobody}]
    BY DEF FInv, FTypes
  <2> QED BY <2>1, <2>2, <2>3, <1>1, <1>2, <1>4 DEF IRef, LocksMove, Holds, ShapeOf, At, InIput, CanLock
<1>8. RefsMove(p)
  <2>1. ref \in [Inums -> Nat] /\ 0 \notin Inums /\ ROOTINO \in Inums
    BY FilesAssumption DEF FInv, FTypes, ROOTINO
  <2> QED BY <2>1, <1>1, <1>2, <1>4 DEF IRef, RefsMove, Own, One, IGet, ShapeOf, At, InIput
<1>9. CoreMove(p)
  BY <1>2 DEF IRef, CoreMove, ILocked, CanLock, FInv, FTypes
<1>10. PointersMove(p)
  BY <1>1, <1>2, <1>4 DEF IRef, PointersMove, Source, Known
<1>11. PendingOf(t'[p]) = PendingOf(t[p])
  BY <1>1, <1>2, <1>4 DEF IRef, PendingOf, ShapeOf, At, InIput
<1>12. UNCHANGED <<disk, dir, fref, fip, ofile>>
  BY DEF IRef, ILocked
<1>13. t'[p].pc \notin {"ifree", "create3", "unlink2"}
  BY <1>1, <1>2, <1>4 DEF IRef, ShapeOf, Afters, InIput
<1> QED BY <1>3, <1>5, <1>6, <1>7, <1>8, <1>9, <1>10, <1>11, <1>12, <1>13, QuietStep

LEMMA IRefOnKeeps ==
    ASSUME FInv, NEW p \in Procs, IRef(p), t[p].after # "idle"
    PROVE  FInv'
<1>1. t[p] \in ThreadStates /\ ShapeOf(t[p]) /\ AliveOf(t[p])
  BY ThreadKnown
<1>2. t[p].pc = "iref" /\ t[p].put \in Inums
  BY <1>1 DEF IRef, CanLock, ThreadStates, Refs, ShapeOf, At, InIput
<1>3. Others(p) /\ t' \in [Procs -> ThreadStates]
  BY <1>1, <1>2 DEF IRef, Thread, Puts, LastPut, Others, Agree, FInv, FTypes, ThreadStates, Refs, Places, Calls
<1>4. /\ t'[p].pc = t[p].after /\ t'[p].call = t[p].call
      /\ t'[p].path = t[p].path /\ t'[p].new = t[p].new
      /\ t'[p].ip = t[p].ip /\ t'[p].dp = t[p].dp
      /\ t'[p].old = t[p].old /\ t'[p].put = 0
      /\ t'[p].after = "idle"
  BY <1>1, <1>2 DEF IRef, Thread, Puts, LastPut, FInv, FTypes, ThreadStates
<1>5. FTypes'
  BY <1>1, <1>2, <1>3, RefPositive DEF IRef, FInv, FTypes, IGet, ILocked, In, Dinodes, CanLock
<1>6. ShapeOf(t'[p])
  BY <1>1, <1>2, <1>4, FilesAssumption DEF IRef, ShapeOf, At, InIput, Afters
<1>7. LocksMove(p)
  <2>1. \A i \in Inums : holder[i] = p <=> Holds(t[p], i)
    BY ThreadKnown
  <2>2. Nobody \notin Procs /\ 0 \notin Inums
    BY FilesAssumption
  <2>3. holder \in [Inums -> Procs \cup {Nobody}]
    BY DEF FInv, FTypes
  <2> QED BY <2>1, <2>2, <2>3, <1>1, <1>2, <1>4 DEF IRef, LocksMove, Holds, ShapeOf, At, InIput, CanLock
<1>8. RefsMove(p)
  <2>1. ref \in [Inums -> Nat] /\ 0 \notin Inums /\ ROOTINO \in Inums
    BY FilesAssumption DEF FInv, FTypes, ROOTINO
  <2> QED BY <2>1, <1>1, <1>2, <1>4 DEF IRef, RefsMove, Own, One, IGet, ShapeOf, At, InIput
<1>9. CoreMove(p)
  BY <1>2 DEF IRef, CoreMove, ILocked, CanLock, FInv, FTypes
<1>10. PointersMove(p)
  BY <1>1, <1>2, <1>4 DEF IRef, PointersMove, Source, Known, ShapeOf, Afters, InIput
<1>11. PendingOf(t'[p]) = PendingOf(t[p])
  BY <1>1, <1>2, <1>4 DEF IRef, PendingOf, ShapeOf, At, InIput
<1>12. UNCHANGED <<disk, dir, fref, fip, ofile>>
  BY DEF IRef, ILocked
<1>13. t'[p].pc \notin {"ifree", "create3", "unlink2"}
  BY <1>1, <1>2, <1>4 DEF IRef, ShapeOf, Afters, InIput
<1> QED BY <1>3, <1>5, <1>6, <1>7, <1>8, <1>9, <1>10, <1>11, <1>12, <1>13, QuietStep

LEMMA UnlinkFoundKeeps ==
    ASSUME FInv, NEW p \in Procs, UnlinkFound(p)
    PROVE  FInv'
<1>1. t[p] \in ThreadStates /\ ShapeOf(t[p]) /\ AliveOf(t[p])
  BY ThreadKnown
<1>2. t[p].pc = "parent" /\ t[p].dp \in Inums
  BY <1>1 DEF UnlinkFound, CanLock, ThreadStates, Refs, ShapeOf, At, InIput
<1> DEFINE nx == dir[t[p].dp][Name(p)]
<1>n. nx \in Inums
  BY <1>1, <1>2 DEF UnlinkFound, FInv, FTypes, ThreadStates, Refs, ShapeOf, At, InIput, Name, CanLock
<1>3. Others(p) /\ t' \in [Procs -> ThreadStates]
  BY <1>1, <1>2, <1>n DEF UnlinkFound, Thread, Puts, LastPut, Others, Agree, FInv, FTypes, ThreadStates, Refs, Places, Calls
<1>4. /\ t'[p].pc = "unlink2" /\ t'[p].call = t[p].call
      /\ t'[p].path = t[p].path /\ t'[p].new = t[p].new
      /\ t'[p].ip = nx /\ t'[p].dp = t[p].dp
      /\ t'[p].old = t[p].old /\ t'[p].put = t[p].put
      /\ t'[p].after = t[p].after
  BY <1>1, <1>2 DEF UnlinkFound, Thread, Puts, LastPut, FInv, FTypes, ThreadStates
<1>5. FTypes'
  BY <1>1, <1>2, <1>3, <1>n DEF UnlinkFound, FInv, FTypes, IGet, ILocked, In, Dinodes, CanLock
<1>m. ref' = [ref EXCEPT ![nx] = @ + 1] /\ Source(nx) /\ nx # 0
  <2>1. ref' = [ref EXCEPT ![nx] = @ + 1]
    BY DEF UnlinkFound, IGet
  <2>2. Head(t[p].path) \in Names
    BY <1>1, <1>2 DEF ThreadStates, ShapeOf, At, InIput
  <2>3. Source(nx)
    BY <1>2, <2>2 DEF Source, Name
  <2>4. nx # 0
    BY <1>n, FilesAssumption
  <2> QED BY <2>1, <2>3, <2>4
<1> HIDE DEF nx
<1>6. ShapeOf(t'[p])
  BY <1>1, <1>2, <1>4, <1>n, <1>m, FilesAssumption DEF UnlinkFound, ShapeOf, At, InIput, Afters
<1>7. LocksMove(p)
  <2>1. \A i \in Inums : holder[i] = p <=> Holds(t[p], i)
    BY ThreadKnown
  <2>2. Nobody \notin Procs /\ 0 \notin Inums
    BY FilesAssumption
  <2>3. holder \in [Inums -> Procs \cup {Nobody}]
    BY DEF FInv, FTypes
  <2> QED BY <2>1, <2>2, <2>3, <1>1, <1>2, <1>4, <1>n, <1>m DEF UnlinkFound, LocksMove, Holds, ShapeOf, At, InIput, CanLock
<1>8. RefsMove(p)
  <2>1. ref \in [Inums -> Nat] /\ 0 \notin Inums /\ ROOTINO \in Inums
    BY FilesAssumption DEF FInv, FTypes, ROOTINO
  <2> QED BY <2>1, <1>1, <1>2, <1>4, <1>n, <1>m DEF IGet, RefsMove, Own, One, ShapeOf, At, InIput
<1>9. CoreMove(p)
  BY <1>2 DEF UnlinkFound, CoreMove, ILocked, CanLock, FInv, FTypes
<1>10. PointersMove(p)
  BY <1>1, <1>2, <1>4, <1>n, <1>m DEF PointersMove, Known
<1>11. PendingOf(t'[p]) = PendingOf(t[p])
  BY <1>1, <1>2, <1>4 DEF Found, PendingOf, ShapeOf, At, InIput
<1>12. UNCHANGED <<disk, dir, fref, fip, ofile>>
  BY DEF UnlinkFound, ILocked
<1>13. ShapeRight' /\ LocksRight' /\ RefsCounted' /\ LinksRight'
  BY <1>3, <1>6, <1>7, <1>8, <1>11, <1>12, ShapeStep, LocksStep, RefsStep, LinksStep
<1>14. FilesMove(p)
  BY <1>12 DEF FilesMove
<1>15. CoreRight' /\ AliveRight'
  BY <1>3, <1>5, <1>6, <1>9, <1>10, <1>12, <1>14, CoreStep, AliveStep
<1>16. FreeingRight'
  BY <1>3, <1>4, <1>6, <1>8, <1>9, <1>10, <1>12, FreeingStep
<1>u. dir[t'[p].dp][Head(t'[p].path)] = t'[p].ip
  BY <1>4 DEF nx, Name
<1>17. UnlinkRight'
  BY <1>3, <1>12, <1>u, UnlinkStep
<1>18. CreateRight'
  BY <1>3, <1>4, <1>6, <1>9, <1>10, <1>12, <1>14, CreateStep
<1>19. FilesRight'
  BY <1>12 DEF FInv, FilesRight
<1> QED BY <1>5, <1>13, <1>15, <1>16, <1>17, <1>18, <1>19 DEF FInv

LEMMA CreatedDirKeeps ==
    ASSUME FInv, NEW p \in Procs, Created(p), t[p].call = "mkdir"
    PROVE  FInv'
<1>1. t[p] \in ThreadStates /\ ShapeOf(t[p]) /\ AliveOf(t[p])
  BY ThreadKnown
<1>2. t[p].pc = "created" /\ t[p].ip \in Inums
  BY <1>1 DEF Created, CanLock, ThreadStates, Refs, ShapeOf, At, InIput
<1>v. LastPut(t[p].ip) \in ThreadStates
  BY <1>1, <1>2, ThreadTyped, PlacesAre DEF ThreadStates, Created
<1>t. t' = [t EXCEPT ![p] = LastPut(t[p].ip)]
  BY DEF Created
<1>3. Others(p) /\ t' \in [Procs -> ThreadStates]
  BY <1>t, <1>v DEF Others, Agree, FInv, FTypes
<1>4. /\ t'[p].pc = "iput" /\ t'[p].call = "none"
      /\ t'[p].path = <<>> /\ t'[p].new = <<>>
      /\ t'[p].ip = 0 /\ t'[p].dp = 0
      /\ t'[p].old = 0 /\ t'[p].put = t[p].ip
      /\ t'[p].after = "idle"
  BY <1>t, <1>1, <1>2 DEF Thread, Puts, LastPut, FInv, FTypes, ThreadStates
<1>5. FTypes'
  BY <1>1, <1>2, <1>3 DEF Created, FInv, FTypes, IGet, ILocked, In, Dinodes, CanLock
<1>6. ShapeOf(t'[p])
  BY <1>1, <1>2, <1>4, FilesAssumption DEF Created, ShapeOf, At, InIput, Afters
<1>7. LocksMove(p)
  <2>1. \A i \in Inums : holder[i] = p <=> Holds(t[p], i)
    BY ThreadKnown
  <2>2. Nobody \notin Procs /\ 0 \notin Inums
    BY FilesAssumption
  <2>3. holder \in [Inums -> Procs \cup {Nobody}]
    BY DEF FInv, FTypes
  <2> QED BY <2>1, <2>2, <2>3, <1>1, <1>2, <1>4 DEF Created, LocksMove, Holds, ShapeOf, At, InIput, CanLock
<1>8. RefsMove(p)
  <2>1. ref \in [Inums -> Nat] /\ 0 \notin Inums
    BY FilesAssumption DEF FInv, FTypes
  <2>2. ref' = ref
    BY DEF Created
  <2>3. \A i \in Inums : Own(t'[p], i) = Own(t[p], i)
    BY <2>1, <1>1, <1>2, <1>4 DEF Own, One, ShapeOf, At, InIput
  <2> QED BY <2>1, <2>2, <2>3, OwnTypes DEF RefsMove
<1>9. CoreMove(p)
  BY <1>2 DEF Created, CoreMove, ILocked, CanLock, FInv, FTypes
<1>10. PointersMove(p)
  BY <1>1, <1>2, <1>4 DEF Created, PointersMove, Source, Known
<1>11. PendingOf(t'[p]) = PendingOf(t[p])
  BY <1>1, <1>2, <1>4 DEF Created, PendingOf, ShapeOf, At, InIput
<1>12. UNCHANGED <<disk, dir, fref, fip, ofile>>
  BY DEF Created, ILocked
<1>13. t'[p].pc \notin {"ifree", "create3", "unlink2"}
  BY <1>1, <1>2, <1>4 DEF Created, ShapeOf, Afters, InIput
<1> QED BY <1>3, <1>5, <1>6, <1>7, <1>8, <1>9, <1>10, <1>11, <1>12, <1>13, QuietStep

LEMMA CreatedFileKeeps ==
    ASSUME FInv, NEW p \in Procs, Created(p), t[p].call # "mkdir"
    PROVE  FInv'
<1>1. t[p] \in ThreadStates /\ ShapeOf(t[p]) /\ AliveOf(t[p])
  BY ThreadKnown
<1>2. t[p].pc = "created" /\ t[p].ip \in Inums
  BY <1>1 DEF Created, Opened, CanLock, ThreadStates, Refs, ShapeOf, At, InIput
<1>v. Opened(t[p].ip) \in ThreadStates
  BY <1>1, <1>2, ThreadTyped, PlacesAre DEF ThreadStates, Created, Opened
<1>t. t' = [t EXCEPT ![p] = Opened(t[p].ip)]
  BY DEF Created, Opened
<1>3. Others(p) /\ t' \in [Procs -> ThreadStates]
  BY <1>t, <1>v DEF Others, Agree, FInv, FTypes
<1>4. /\ t'[p].pc = "opened" /\ t'[p].call = "none"
      /\ t'[p].path = <<>> /\ t'[p].new = <<>>
      /\ t'[p].ip = t[p].ip /\ t'[p].dp = 0
      /\ t'[p].old = 0 /\ t'[p].put = 0
      /\ t'[p].after = "idle"
  BY <1>t, <1>1, <1>2 DEF Opened, Thread, Puts, LastPut, FInv, FTypes, ThreadStates
<1>5. FTypes'
  BY <1>1, <1>2, <1>3 DEF Created, Opened, FInv, FTypes, IGet, ILocked, In, Dinodes, CanLock
<1>6. ShapeOf(t'[p])
  BY <1>1, <1>2, <1>4, FilesAssumption DEF Created, Opened, ShapeOf, At, InIput, Afters
<1>7. LocksMove(p)
  <2>1. \A i \in Inums : holder[i] = p <=> Holds(t[p], i)
    BY ThreadKnown
  <2>2. Nobody \notin Procs /\ 0 \notin Inums
    BY FilesAssumption
  <2>3. holder \in [Inums -> Procs \cup {Nobody}]
    BY DEF FInv, FTypes
  <2> QED BY <2>1, <2>2, <2>3, <1>1, <1>2, <1>4 DEF Created, Opened, LocksMove, Holds, ShapeOf, At, InIput, CanLock
<1>8. RefsMove(p)
  <2>1. ref \in [Inums -> Nat] /\ 0 \notin Inums
    BY FilesAssumption DEF FInv, FTypes
  <2>2. ref' = ref
    BY DEF Created, Opened
  <2>3. \A i \in Inums : Own(t'[p], i) = Own(t[p], i)
    BY <2>1, <1>1, <1>2, <1>4 DEF Own, One, ShapeOf, At, InIput
  <2> QED BY <2>1, <2>2, <2>3, OwnTypes DEF RefsMove
<1>9. CoreMove(p)
  BY <1>2 DEF Created, Opened, CoreMove, ILocked, CanLock, FInv, FTypes
<1>10. PointersMove(p)
  BY <1>1, <1>2, <1>4 DEF Created, Opened, PointersMove, Source, Known
<1>11. PendingOf(t'[p]) = PendingOf(t[p])
  BY <1>1, <1>2, <1>4 DEF Created, Opened, PendingOf, ShapeOf, At, InIput
<1>12. UNCHANGED <<disk, dir, fref, fip, ofile>>
  BY DEF Created, Opened, ILocked
<1>13. t'[p].pc \notin {"ifree", "create3", "unlink2"}
  BY <1>1, <1>2, <1>4 DEF Created, Opened, ShapeOf, Afters, InIput
<1> QED BY <1>3, <1>5, <1>6, <1>7, <1>8, <1>9, <1>10, <1>11, <1>12, <1>13, QuietStep

LEMMA OpenLockDoneKeeps ==
    ASSUME FInv, NEW p \in Procs, OpenLock(p),
           holder' = [holder EXCEPT ![t[p].ip] = p],
           t' = [t EXCEPT ![p] = Opened(t[p].ip)]
    PROVE  FInv'
<1>1. t[p] \in ThreadStates /\ ShapeOf(t[p]) /\ AliveOf(t[p])
  BY ThreadKnown
<1>2. t[p].pc = "open1" /\ t[p].ip \in Inums
  BY <1>1 DEF OpenLock, Opened, CanLock, ThreadStates, Refs, ShapeOf, At, InIput
<1>v. Opened(t[p].ip) \in ThreadStates
  BY <1>1, <1>2, ThreadTyped, PlacesAre DEF ThreadStates, OpenLock, Opened
<1>3. Others(p) /\ t' \in [Procs -> ThreadStates]
  BY <1>v DEF OpenLock, Opened, Others, Agree, FInv, FTypes
<1>4. /\ t'[p].pc = "opened" /\ t'[p].call = "none"
      /\ t'[p].path = <<>> /\ t'[p].new = <<>>
      /\ t'[p].ip = t[p].ip /\ t'[p].dp = 0
      /\ t'[p].old = 0 /\ t'[p].put = 0
      /\ t'[p].after = "idle"
  BY <1>1, <1>2 DEF OpenLock, Opened, Thread, Puts, LastPut, FInv, FTypes, ThreadStates
<1>5. FTypes'
  BY <1>1, <1>2, <1>3 DEF OpenLock, Opened, FInv, FTypes, IGet, ILocked, In, Dinodes, CanLock
<1>6. ShapeOf(t'[p])
  BY <1>1, <1>2, <1>4, FilesAssumption DEF OpenLock, Opened, ShapeOf, At, InIput, Afters
<1>7. LocksMove(p)
  <2>1. \A i \in Inums : holder[i] = p <=> Holds(t[p], i)
    BY ThreadKnown
  <2>2. Nobody \notin Procs /\ 0 \notin Inums
    BY FilesAssumption
  <2>3. holder \in [Inums -> Procs \cup {Nobody}]
    BY DEF FInv, FTypes
  <2> QED BY <2>1, <2>2, <2>3, <1>1, <1>2, <1>4 DEF OpenLock, Opened, LocksMove, Holds, ShapeOf, At, InIput, CanLock
<1>8. RefsMove(p)
  <2>1. ref \in [Inums -> Nat] /\ 0 \notin Inums
    BY FilesAssumption DEF FInv, FTypes
  <2>2. ref' = ref
    BY DEF OpenLock, Opened
  <2>3. \A i \in Inums : Own(t'[p], i) = Own(t[p], i)
    BY <2>1, <1>1, <1>2, <1>4 DEF Own, One, ShapeOf, At, InIput
  <2> QED BY <2>1, <2>2, <2>3, OwnTypes DEF RefsMove
<1>9. CoreMove(p)
  BY <1>2 DEF OpenLock, Opened, CoreMove, ILocked, CanLock, FInv, FTypes
<1>10. PointersMove(p)
  BY <1>1, <1>2, <1>4 DEF OpenLock, Opened, PointersMove, Source, Known
<1>11. PendingOf(t'[p]) = PendingOf(t[p])
  BY <1>1, <1>2, <1>4 DEF OpenLock, Opened, PendingOf, ShapeOf, At, InIput
<1>12. UNCHANGED <<disk, dir, fref, fip, ofile>>
  BY DEF OpenLock, Opened, ILocked
<1>13. t'[p].pc \notin {"ifree", "create3", "unlink2"}
  BY <1>1, <1>2, <1>4 DEF OpenLock, Opened, ShapeOf, Afters, InIput
<1> QED BY <1>3, <1>5, <1>6, <1>7, <1>8, <1>9, <1>10, <1>11, <1>12, <1>13, QuietStep

LEMMA OpenLockRefusedKeeps ==
    ASSUME FInv, NEW p \in Procs, OpenLock(p),
           UNCHANGED holder, t' = [t EXCEPT ![p] = LastPut(t[p].ip)]
    PROVE  FInv'
<1>1. t[p] \in ThreadStates /\ ShapeOf(t[p]) /\ AliveOf(t[p])
  BY ThreadKnown
<1>2. t[p].pc = "open1" /\ t[p].ip \in Inums
  BY <1>1 DEF OpenLock, CanLock, ThreadStates, Refs, ShapeOf, At, InIput
<1>v. LastPut(t[p].ip) \in ThreadStates
  BY <1>1, <1>2, ThreadTyped, PlacesAre DEF ThreadStates, OpenLock
<1>3. Others(p) /\ t' \in [Procs -> ThreadStates]
  BY <1>v DEF OpenLock, Others, Agree, FInv, FTypes
<1>4. /\ t'[p].pc = "iput" /\ t'[p].call = "none"
      /\ t'[p].path = <<>> /\ t'[p].new = <<>>
      /\ t'[p].ip = 0 /\ t'[p].dp = 0
      /\ t'[p].old = 0 /\ t'[p].put = t[p].ip
      /\ t'[p].after = "idle"
  BY <1>1, <1>2 DEF OpenLock, Thread, Puts, LastPut, FInv, FTypes, ThreadStates
<1>5. FTypes'
  BY <1>1, <1>2, <1>3 DEF OpenLock, FInv, FTypes, IGet, ILocked, In, Dinodes, CanLock
<1>6. ShapeOf(t'[p])
  BY <1>1, <1>2, <1>4, FilesAssumption DEF OpenLock, ShapeOf, At, InIput, Afters
<1>7. LocksMove(p)
  <2>1. \A i \in Inums : holder[i] = p <=> Holds(t[p], i)
    BY ThreadKnown
  <2>2. Nobody \notin Procs /\ 0 \notin Inums
    BY FilesAssumption
  <2>3. holder \in [Inums -> Procs \cup {Nobody}]
    BY DEF FInv, FTypes
  <2> QED BY <2>1, <2>2, <2>3, <1>1, <1>2, <1>4 DEF OpenLock, LocksMove, Holds, ShapeOf, At, InIput, CanLock
<1>8. RefsMove(p)
  <2>1. ref \in [Inums -> Nat] /\ 0 \notin Inums
    BY FilesAssumption DEF FInv, FTypes
  <2>2. ref' = ref
    BY DEF OpenLock
  <2>3. \A i \in Inums : Own(t'[p], i) = Own(t[p], i)
    BY <2>1, <1>1, <1>2, <1>4 DEF Own, One, ShapeOf, At, InIput
  <2> QED BY <2>1, <2>2, <2>3, OwnTypes DEF RefsMove
<1>9. CoreMove(p)
  BY <1>2 DEF OpenLock, CoreMove, ILocked, CanLock, FInv, FTypes
<1>10. PointersMove(p)
  BY <1>1, <1>2, <1>4 DEF OpenLock, PointersMove, Source, Known
<1>11. PendingOf(t'[p]) = PendingOf(t[p])
  BY <1>1, <1>2, <1>4 DEF OpenLock, PendingOf, ShapeOf, At, InIput
<1>12. UNCHANGED <<disk, dir, fref, fip, ofile>>
  BY DEF OpenLock, ILocked
<1>13. t'[p].pc \notin {"ifree", "create3", "unlink2"}
  BY <1>1, <1>2, <1>4 DEF OpenLock, ShapeOf, Afters, InIput
<1> QED BY <1>3, <1>5, <1>6, <1>7, <1>8, <1>9, <1>10, <1>11, <1>12, <1>13, QuietStep

LEMMA LinkCountDirKeeps ==
    ASSUME FInv, NEW p \in Procs, LinkCount(p), In(t[p].ip).type = "DIR"
    PROVE  FInv'
<1>1. t[p] \in ThreadStates /\ ShapeOf(t[p]) /\ AliveOf(t[p])
  BY ThreadKnown
<1>2. t[p].pc = "link1" /\ t[p].ip \in Inums
  BY <1>1 DEF LinkCount, CanLock, ThreadStates, Refs, ShapeOf, At, InIput
<1>v. LastPut(t[p].ip) \in ThreadStates
  BY <1>1, <1>2, ThreadTyped, PlacesAre DEF ThreadStates, LinkCount
<1>t. t' = [t EXCEPT ![p] = LastPut(t[p].ip)]
  BY DEF LinkCount
<1>3. Others(p) /\ t' \in [Procs -> ThreadStates]
  BY <1>t, <1>v DEF Others, Agree, FInv, FTypes
<1>4. /\ t'[p].pc = "iput" /\ t'[p].call = "none"
      /\ t'[p].path = <<>> /\ t'[p].new = <<>>
      /\ t'[p].ip = 0 /\ t'[p].dp = 0
      /\ t'[p].old = 0 /\ t'[p].put = t[p].ip
      /\ t'[p].after = "idle"
  BY <1>t, <1>1, <1>2 DEF Thread, Puts, LastPut, FInv, FTypes, ThreadStates
<1>5. FTypes'
  <2>1. ILocked({t[p].ip})
    BY DEF LinkCount
  <2>2. core' \in [Inums -> Dinodes \cup {NotValid}]
    BY <1>2, <2>1 DEF ILocked, FInv, FTypes, In, Dinodes
  <2>3. UNCHANGED <<disk, dir, ref, holder, fref, fip, ofile>>
    BY <2>1 DEF LinkCount, ILocked
  <2> QED BY <1>3, <2>2, <2>3 DEF FInv, FTypes
<1>6. ShapeOf(t'[p])
  BY <1>1, <1>2, <1>4, FilesAssumption DEF LinkCount, ShapeOf, At, InIput, Afters
<1>7. LocksMove(p)
  <2>1. \A i \in Inums : holder[i] = p <=> Holds(t[p], i)
    BY ThreadKnown
  <2>2. Nobody \notin Procs /\ 0 \notin Inums
    BY FilesAssumption
  <2>3. holder \in [Inums -> Procs \cup {Nobody}]
    BY DEF FInv, FTypes
  <2> QED BY <2>1, <2>2, <2>3, <1>1, <1>2, <1>4 DEF LinkCount, LocksMove, Holds, ShapeOf, At, InIput, CanLock
<1>8. RefsMove(p)
  <2>1. ref \in [Inums -> Nat] /\ 0 \notin Inums /\ ROOTINO \in Inums
    BY FilesAssumption DEF FInv, FTypes, ROOTINO
  <2> QED BY <2>1, <1>1, <1>2, <1>4 DEF LinkCount, RefsMove, Own, One, IGet, ShapeOf, At, InIput
<1>9. CoreMove(p)
  BY <1>2 DEF LinkCount, CoreMove, ILocked, CanLock, FInv, FTypes
<1>10. PointersMove(p)
  BY <1>1, <1>2, <1>4 DEF LinkCount, PointersMove, Source, Known
<1>11. PendingOf(t'[p]) = PendingOf(t[p])
  BY <1>1, <1>2, <1>4 DEF LinkCount, PendingOf, ShapeOf, At, InIput
<1>12. UNCHANGED <<disk, dir, fref, fip, ofile>>
  BY DEF LinkCount, ILocked
<1>13. t'[p].pc \notin {"ifree", "create3", "unlink2"}
  BY <1>1, <1>2, <1>4 DEF LinkCount, ShapeOf, Afters, InIput
<1> QED BY <1>3, <1>5, <1>6, <1>7, <1>8, <1>9, <1>10, <1>11, <1>12, <1>13, QuietStep

-----------------------------------------------------------------------------
(* Open files.                                                             *)

LEMMA FinitelyMany == IsFiniteSet(Files) /\ IsFiniteSet(FDs) /\ IsFiniteSet(Rows)
<1>1. IsFiniteSet(Files) /\ IsFiniteSet(FDs)
  BY FS_Interval, FilesAssumption DEF Files, FDs
<1> QED BY <1>1, FS_Product, FilesAssumption DEF Rows

\* A descriptor is counted.
LEMMA DescriptorCounted ==
    ASSUME FInv, NEW p \in Procs, NEW d \in FDs, ofile[p][d] # 0
    PROVE  /\ ofile[p][d] \in Files /\ fref[ofile[p][d]] >= 1
           /\ fip[ofile[p][d]] \in Inums
<1>1. ofile[p][d] \in Files
  BY DEF FInv, FTypes
<1>2. <<p, d>> \in Rows /\ Slots(ofile)[<<p, d>>] = ofile[p][d]
  BY DEF Rows, Slots
<1>3. Count(Rows, Slots(ofile), ofile[p][d]) >= 1
  BY <1>2, CountOne, FinitelyMany
<1>4. fref[ofile[p][d]] >= 1
  BY <1>1, <1>3, RefsAre DEF FInv
<1>5. fip[ofile[p][d]] # 0
  BY <1>1, <1>4 DEF FInv, FilesRight
<1> QED BY <1>1, <1>4, <1>5 DEF FInv, FTypes, Refs

\* One descriptor changes.
OnlyDescriptor(oo, uu, p, d) ==
    \A q \in Procs, e \in FDs : <<q, e>> # <<p, d>> => uu[q][e] = oo[q][e]

LEMMA DescriptorMoves ==
    \A p \in Procs, d \in FDs : \A oo, uu, f : OnlyDescriptor(oo, uu, p, d) =>
        /\ Count(Rows, Slots(oo), f) \in Nat
        /\ Count(Rows, Slots(uu), f)
                = Count(Rows, Slots(oo), f) - One(oo[p][d] = f) + One(uu[p][d] = f)
<1> SUFFICES ASSUME NEW p \in Procs, NEW d \in FDs, NEW oo, NEW uu, NEW f,
                    OnlyDescriptor(oo, uu, p, d)
             PROVE  /\ Count(Rows, Slots(oo), f) \in Nat
                    /\ Count(Rows, Slots(uu), f) = Count(Rows, Slots(oo), f)
                            - One(oo[p][d] = f) + One(uu[p][d] = f)
  OBVIOUS
<1>1. <<p, d>> \in Rows
  BY DEF Rows
<1>2. Agree(Rows, Slots(oo), Slots(uu), <<p, d>>)
  BY DEF Agree, Rows, Slots, OnlyDescriptor
<1>3. Slots(oo)[<<p, d>>] = oo[p][d] /\ Slots(uu)[<<p, d>>] = uu[p][d]
  BY <1>1 DEF Slots
<1> QED BY <1>1, <1>2, <1>3, CountChange, FinitelyMany

LEMMA OpenDoneKeeps ==
    ASSUME FInv, NEW p \in Procs, NEW f \in Files, NEW d \in FDs, OpenDone(p, f, d)
    PROVE  FInv'
<1>1. t[p] \in ThreadStates /\ ShapeOf(t[p]) /\ AliveOf(t[p])
  BY ThreadKnown
<1>2. t[p].pc = "opened" /\ t[p].ip \in Inums
  BY <1>1 DEF OpenDone, ThreadStates, Refs, ShapeOf, At, InIput
<1>3. Others(p) /\ t' \in [Procs -> ThreadStates]
  BY ThreadTyped DEF OpenDone, Others, Agree, FInv, FTypes
<1>4. /\ t'[p].pc = "idle" /\ t'[p].ip = 0 /\ t'[p].dp = 0 /\ t'[p].old = 0
      /\ t'[p].put = 0
  BY DEF OpenDone, Thread, FInv, FTypes
<1>5. FTypes'
  BY <1>2, <1>3, PlacesAre DEF OpenDone, FInv, FTypes
<1>6. ShapeOf(t'[p])
  BY <1>4 DEF ShapeOf, At, InIput
<1>7. LocksMove(p)
  <2>1. \A i \in Inums : holder[i] = p <=> Holds(t[p], i)
    BY ThreadKnown
  <2>2. Nobody \notin Procs /\ 0 \notin Inums
    BY FilesAssumption
  <2>3. holder \in [Inums -> Procs \cup {Nobody}]
    BY DEF FInv, FTypes
  <2> QED BY <2>1, <2>2, <2>3, <1>1, <1>2, <1>4 DEF OpenDone, LocksMove, Holds, ShapeOf, At, InIput
<1>8. fip[f] = 0 /\ fref[f] = 0 /\ ofile[p][d] = 0
  BY DEF OpenDone, IsFreeFile, IsFreeFD, FInv, FilesRight
<1>9. RefsPass(p)
  <2>1. ref' = ref /\ ref \in [Inums -> Nat] /\ 0 \notin Inums
    BY FilesAssumption DEF OpenDone, FInv, FTypes
  <2>2. Agree(Files, fip, fip', f) /\ fip'[f] = t[p].ip
    BY DEF OpenDone, Agree, FInv, FTypes
  <2>3. ASSUME NEW i \in Inums
        PROVE  /\ OpenOn(fip, i) \in Nat /\ OpenOn(fip', i) \in Nat
               /\ OpenOn(fip', i) = OpenOn(fip, i) - One(fip[f] = i) + One(fip'[f] = i)
    BY <2>2, CountChange, FinitelyMany DEF OpenOn
  <2>4. ASSUME NEW i \in Inums
        PROVE  Own(t[p], i) = One(t[p].ip = i) /\ Own(t'[p], i) = 0
    BY <1>1, <1>2, <1>4, <2>1 DEF Own, One, ShapeOf, At, InIput
  <2>5. ASSUME NEW i \in Inums
        PROVE  ref'[i] = ref[i] - Own(t[p], i) + Own(t'[p], i)
                                - OpenOn(fip, i) + OpenOn(fip', i)
    <3>1. OpenOn(fip', i) = OpenOn(fip, i) + One(t[p].ip = i)
      BY <2>1, <2>2, <2>3, <1>8 DEF One
    <3> QED BY <3>1, <2>1, <2>3, <2>4 DEF One
  <2> QED BY <2>5 DEF RefsPass
<1>10. \A g \in Files : fref'[g] = Count(Rows, Slots(ofile'), g)
  <2>1. OnlyDescriptor(ofile, ofile', p, d)
    BY DEF OpenDone, FInv, FTypes, OnlyDescriptor
  <2>2. ofile'[p][d] = f
    BY DEF OpenDone, FInv, FTypes
  <2>3. ASSUME NEW g \in Files
        PROVE  /\ Count(Rows, Slots(ofile), g) \in Nat
               /\ Count(Rows, Slots(ofile'), g) = Count(Rows, Slots(ofile), g)
                        - One(ofile[p][d] = g) + One(ofile'[p][d] = g)
    BY <2>1, DescriptorMoves
  <2>4. \A g \in Files : fref[g] = Count(Rows, Slots(ofile), g)
    BY RefsAre DEF FInv
  <2>5. \A g \in Files : fref'[g] = fref[g] + One(f = g)
    BY <1>8 DEF OpenDone, FInv, FTypes, One
  <2>6. 0 \notin Files
    BY DEF Files
  <2> QED BY <2>2, <2>3, <2>4, <2>5, <2>6, <1>8 DEF One
<1>11. CoreMove(p) /\ PointersMove(p) /\ FilesMove(p)
  BY <1>2, <1>4 DEF OpenDone, CoreMove, PointersMove, FilesMove, Known, FInv, FTypes
<1>12. PendingOf(t'[p]) = PendingOf(t[p])
  BY <1>1, <1>2, <1>4 DEF PendingOf, ShapeOf, At, InIput
<1>13. UNCHANGED <<disk, dir, ref>>
  BY DEF OpenDone
<1>14. ShapeRight' /\ LocksRight' /\ RefsCounted' /\ LinksRight'
  BY <1>3, <1>6, <1>7, <1>9, <1>10, <1>12, <1>13, ShapeStep, LocksStep, RefsPassStep,
     LinksStep
<1>15. CoreRight' /\ AliveRight' /\ FreeingRight'
  BY <1>3, <1>4, <1>5, <1>6, <1>11, <1>13, CoreStep, AliveStep, FreeingStep
<1>16. UnlinkRight' /\ CreateRight'
  BY <1>3, <1>4, <1>6, <1>11, <1>13, UnlinkStep, CreateStep
<1>17. FilesRight'
  <2>1. t[p].ip # 0
    BY <1>2, FilesAssumption
  <2> QED BY <2>1 DEF OpenDone, FInv, FilesRight, FTypes
<1> QED BY <1>5, <1>14, <1>15, <1>16, <1>17 DEF FInv

LEMMA SysCloseKeeps ==
    ASSUME FInv, NEW p \in Procs, NEW d \in FDs, SysClose(p, d)
    PROVE  FInv'
<1> DEFINE f == ofile[p][d]
<1>1. t[p] \in ThreadStates /\ ShapeOf(t[p]) /\ AliveOf(t[p])
  BY ThreadKnown
<1>2. t[p].pc = "idle" /\ t[p].ip = 0 /\ t[p].dp = 0 /\ t[p].old = 0 /\ t[p].put = 0
  BY <1>1 DEF SysClose, ShapeOf, At, InIput
<1>3. f \in Files /\ fref[f] \in Nat /\ fref[f] >= 1 /\ fip[f] \in Inums
  BY DescriptorCounted DEF SysClose, FInv, FTypes
<1>4. /\ fref' = [fref EXCEPT ![f] = @ - 1]
      /\ UNCHANGED <<disk, dir, core, ref, holder>>
      /\ fref[f] > 1 => UNCHANGED <<fip, t>>
      /\ ~(fref[f] > 1) => /\ fip' = [fip EXCEPT ![f] = 0]
                           /\ t' = [t EXCEPT ![p] = LastPut(fip[f])]
  BY DEF SysClose
<1>5. /\ ofile' \in [Procs -> [FDs -> {0} \cup Files]]
      /\ OnlyDescriptor(ofile, ofile', p, d)
      /\ ofile'[p][d] = 0
  BY DEF SysClose, FInv, FTypes, OnlyDescriptor
<1>6. \A g \in Files : fref'[g] = Count(Rows, Slots(ofile'), g)
  <2>0. OnlyDescriptor(ofile, ofile', p, d)
    BY <1>5
  <2>1. ASSUME NEW g \in Files
        PROVE  /\ Count(Rows, Slots(ofile), g) \in Nat
               /\ Count(Rows, Slots(ofile'), g) = Count(Rows, Slots(ofile), g)
                        - One(ofile[p][d] = g) + One(ofile'[p][d] = g)
    BY <2>0, DescriptorMoves
  <2>2. \A g \in Files : fref[g] = Count(Rows, Slots(ofile), g)
    BY RefsAre DEF FInv
  <2>3. 0 \notin Files
    BY DEF Files
  <2>4. \A g \in Files : fref'[g] = fref[g] - One(f = g)
    <3>1. fref \in [Files -> Nat]
      BY DEF FInv, FTypes
    <3> HIDE DEF f
    <3> QED BY <1>3, <1>4, <3>1 DEF One
  <2> QED BY <2>1, <2>2, <2>3, <2>4, <1>5 DEF One
<1>7. fref' \in [Files -> Nat]
  BY <1>3, <1>4 DEF FInv, FTypes
<1> HIDE DEF f
<1>8. CASE fref[f] > 1
  <2>1. UNCHANGED <<disk, dir, core, ref, holder, fip, t>>
    BY <1>4, <1>8
  <2>2. Others(p) /\ t'[p] = t[p]
    BY <2>1 DEF Others, Agree
  <2>3. FTypes'
    BY <2>1, <1>5, <1>7 DEF FInv, FTypes
  <2>4. RefsPass(p)
    <3>1. ref \in [Inums -> Nat] /\ (\A i \in Inums : OpenOn(fip, i) \in Nat)
      BY RefsAre DEF FInv, FTypes
    <3> QED BY <3>1, <2>1, OwnTypes DEF RefsPass
  <2>5. RefsCounted'
    BY <2>2, <2>4, <1>6, RefsPassStep
  <2>6. FilesRight'
    BY <2>1, <1>3, <1>4, <1>8 DEF FInv, FTypes, FilesRight
  <2>7. /\ ShapeRight' /\ LocksRight' /\ LinksRight' /\ CoreRight' /\ AliveRight'
        /\ FreeingRight' /\ UnlinkRight' /\ CreateRight'
    BY <2>1 DEF FInv, ShapeRight, LocksRight, LinksRight, CoreRight, AliveRight,
         AliveOf, FreeingRight, UnlinkRight, CreateRight
  <2> QED BY <2>3, <2>5, <2>6, <2>7 DEF FInv
<1>9. CASE ~(fref[f] > 1)
  <2>1. /\ fip' = [fip EXCEPT ![f] = 0]
        /\ t' = [t EXCEPT ![p] = LastPut(fip[f])]
        /\ UNCHANGED <<disk, dir, core, ref, holder>>
    BY <1>4, <1>9
  <2>2. LastPut(fip[f]) \in ThreadStates
    BY <1>3, ThreadTyped, PlacesAre
  <2>3. Others(p) /\ t' \in [Procs -> ThreadStates]
    BY <2>1, <2>2 DEF Others, Agree, FInv, FTypes
  <2>4. /\ t'[p].pc = "iput" /\ t'[p].ip = 0 /\ t'[p].dp = 0 /\ t'[p].old = 0
        /\ t'[p].put = fip[f] /\ t'[p].after = "idle"
    BY <2>1 DEF LastPut, Puts, Thread, FInv, FTypes
  <2>5. FTypes'
    BY <2>1, <2>3, <1>3, <1>5, <1>7, PlacesAre DEF FInv, FTypes
  <2>6. ShapeOf(t'[p])
    BY <2>4, <1>3, FilesAssumption DEF ShapeOf, At, InIput, Afters
  <2>7. LocksMove(p)
    <3>1. \A i \in Inums : holder[i] = p <=> Holds(t[p], i)
      BY ThreadKnown
    <3>2. Nobody \notin Procs /\ holder \in [Inums -> Procs \cup {Nobody}]
      BY FilesAssumption DEF FInv, FTypes
    <3> QED BY <3>1, <3>2, <2>1, <2>4, <1>2 DEF LocksMove, Holds, At, InIput
  <2>8. RefsPass(p)
    <3>1. ref \in [Inums -> Nat] /\ 0 \notin Inums
      BY FilesAssumption DEF FInv, FTypes
    <3>2. Agree(Files, fip, fip', f) /\ fip'[f] = 0
      BY <2>1, <1>3 DEF Agree, FInv, FTypes
    <3>3. ASSUME NEW i \in Inums
          PROVE  /\ OpenOn(fip, i) \in Nat /\ OpenOn(fip', i) \in Nat
                 /\ OpenOn(fip', i)
                        = OpenOn(fip, i) - One(fip[f] = i) + One(fip'[f] = i)
      BY <3>2, <1>3, CountChange, FinitelyMany DEF OpenOn
    <3>4. ASSUME NEW i \in Inums
          PROVE  Own(t[p], i) = 0 /\ Own(t'[p], i) = One(fip[f] = i)
      BY <3>1, <1>2, <2>4 DEF Own, One
    <3>5. ASSUME NEW i \in Inums
          PROVE  ref'[i] = ref[i] - Own(t[p], i) + Own(t'[p], i)
                                  - OpenOn(fip, i) + OpenOn(fip', i)
      <4>1. OpenOn(fip', i) = OpenOn(fip, i) - One(fip[f] = i)
        BY <3>1, <3>2, <3>3 DEF One
      <4> QED BY <4>1, <2>1, <3>1, <3>3, <3>4 DEF One
    <3> QED BY <3>5 DEF RefsPass
  <2>9. CoreMove(p) /\ PointersMove(p) /\ FilesMove(p)
    <3>1. Source(fip[f])
      BY <1>3 DEF Source
    <3> QED BY <3>1, <2>1, <2>4, <1>2 DEF CoreMove, PointersMove, FilesMove, FInv, FTypes
  <2>10. PendingOf(t'[p]) = PendingOf(t[p])
    BY <1>2, <2>4 DEF PendingOf, At, InIput
  <2>11. ShapeRight' /\ LocksRight' /\ RefsCounted' /\ LinksRight'
    BY <2>1, <2>3, <2>6, <2>7, <2>8, <2>10, <1>6, ShapeStep, LocksStep, RefsPassStep,
       LinksStep
  <2>12. CoreRight' /\ AliveRight' /\ FreeingRight'
    BY <2>1, <2>3, <2>4, <2>5, <2>6, <2>9, CoreStep, AliveStep, FreeingStep
  <2>13. UnlinkRight' /\ CreateRight'
    BY <2>1, <2>3, <2>4, <2>6, <2>9, UnlinkStep, CreateStep
  <2>14. FilesRight'
    BY <2>1, <1>3, <1>4, <1>9 DEF FInv, FTypes, FilesRight
  <2> QED BY <2>5, <2>11, <2>12, <2>13, <2>14 DEF FInv
<1> QED BY <1>8, <1>9

LEMMA ForkFilesKeeps ==
    ASSUME FInv, NEW p \in Procs, NEW q \in Procs, ForkFiles(p, q)
    PROVE  FInv'
<1>1. UNCHANGED <<disk, dir, core, ref, holder, fip, t>>
  BY DEF ForkFiles
<1>2. /\ \A d \in FDs : ofile[q][d] = 0
      /\ ofile' \in [Procs -> [FDs -> {0} \cup Files]]
      /\ \A r \in Procs : ofile'[r] = IF r = q THEN ofile[p] ELSE ofile[r]
  BY DEF ForkFiles, FInv, FTypes
<1>3. ASSUME NEW f \in Files
      PROVE  /\ Cardinality({d \in FDs : ofile[p][d] = f}) \in Nat
             /\ Count(Rows, Slots(ofile'), f) = Count(Rows, Slots(ofile), f)
                            + Cardinality({d \in FDs : ofile[p][d] = f})
  <2> DEFINE A == {x \in Rows : Slots(ofile)[x] = f}
             B == {x \in Rows : Slots(ofile')[x] = f}
             C == {d \in FDs : ofile[p][d] = f}
             D == {x \in {q} \X FDs : ofile[p][x[2]] = f}
             h == [d \in C |-> <<q, d>>]
  <2>0. f # 0
    BY DEF Files
  <2>1. IsFiniteSet(A) /\ IsFiniteSet(C)
    <3>1. A \subseteq Rows /\ C \subseteq FDs
      OBVIOUS
    <3> QED BY <3>1, FS_Subset, FinitelyMany
  <2>2. h \in Bijection(C, D)
    <3>1. h \in [C -> D]
      OBVIOUS
    <3>2. \A a, b \in C : h[a] = h[b] => a = b
      OBVIOUS
    <3>3. \A b \in D : \E a \in C : h[a] = b
      OBVIOUS
    <3> QED BY <3>1, <3>2, <3>3, Fun_IsBij
  <2>3. IsFiniteSet(D) /\ Cardinality(D) = Cardinality(C)
    <3> HIDE DEF C, D, h
    <3>1. ExistsBijection(C, D)
      BY <2>2 DEF ExistsBijection
    <3> QED BY <3>1, <2>1, FS_Bijection
  <2>4. A \cap D = {}
    BY <1>2, <2>0 DEF Rows, Slots
  <2>5. B = A \cup D
    <3>1. ASSUME NEW r \in Procs, NEW d \in FDs
          PROVE  <<r, d>> \in B <=> <<r, d>> \in A \cup D
      <4>1. CASE r = q
        BY <4>1, <1>2, <2>0 DEF Rows, Slots
      <4>2. CASE r # q
        BY <4>2, <1>2 DEF Rows, Slots
      <4> QED BY <4>1, <4>2
    <3>2. A \cup D \subseteq Rows /\ B \subseteq Rows
      BY DEF Rows
    <3>3. \A x \in Rows : \E r \in Procs, d \in FDs : x = <<r, d>>
      BY DEF Rows
    <3>4. \A x \in Rows : x \in B <=> x \in A \cup D
      <4> HIDE DEF A, B, D
      <4> QED BY <3>1, <3>3
    <3> HIDE DEF A, B, D
    <3> QED BY <3>2, <3>4
  <2>6. Count(Rows, Slots(ofile'), f) = Cardinality(B)
        /\ Count(Rows, Slots(ofile), f) = Cardinality(A)
    BY DEF Count
  <2> HIDE DEF A, B, C, D, h
  <2>7. Cardinality(B) = Cardinality(A) + Cardinality(C)
    <3>1. Cardinality(A \cup D) = Cardinality(A) + Cardinality(D)
      BY <2>1, <2>3, <2>4, DisjointUnion
    <3> QED BY <3>1, <2>3, <2>5, Zenon
  <2>8. Cardinality(C) \in Nat
    BY <2>1, FS_CardinalityType
  <2>9. Cardinality({d \in FDs : ofile[p][d] = f}) = Cardinality(C)
    BY DEF C
  <2> QED BY <2>6, <2>7, <2>8, <2>9
<1>4. /\ \A f \in Files : fref'[f] = Count(Rows, Slots(ofile'), f)
      /\ \A f \in Files : fref'[f] \in Nat /\ (fref'[f] = 0 => fref[f] = 0)
      /\ \A f \in Files : fref[f] = 0 => fref'[f] = 0
  <2>1. ASSUME NEW f \in Files
        PROVE  fref'[f] = fref[f] + Cardinality({d \in FDs : ofile[p][d] = f})
    BY DEF ForkFiles
  <2>2. \A f \in Files : fref[f] = Count(Rows, Slots(ofile), f) /\ fref[f] \in Nat
    BY RefsAre DEF FInv, FTypes
  <2>3. ASSUME NEW f \in Files, fref[f] = 0
        PROVE  Cardinality({d \in FDs : ofile[p][d] = f}) = 0
    <3>1. \A d \in FDs : ofile[p][d] # f
      <4>1. 0 \notin Files
        BY DEF Files
      <4>2. ASSUME NEW d \in FDs, ofile[p][d] = f
            PROVE  FALSE
        BY <4>1, <4>2, <2>3, DescriptorCounted
      <4> QED BY <4>2
    <3>2. {d \in FDs : ofile[p][d] = f} = {}
      BY <3>1
    <3> QED BY <3>2, FS_EmptySet, Zenon
  <2>4. ASSUME NEW f \in Files
        PROVE  /\ fref'[f] = Count(Rows, Slots(ofile'), f)
               /\ fref'[f] \in Nat /\ (fref'[f] = 0 <=> fref[f] = 0)
    <3> DEFINE c == Cardinality({d \in FDs : ofile[p][d] = f})
    <3>1. fref'[f] = fref[f] + c /\ (fref[f] = 0 => c = 0)
      BY <2>1, <2>3
    <3>2. c \in Nat /\ Count(Rows, Slots(ofile'), f) = Count(Rows, Slots(ofile), f) + c
      BY <1>3
    <3>3. fref[f] = Count(Rows, Slots(ofile), f) /\ fref[f] \in Nat
      BY <2>2
    <3> HIDE DEF c
    <3> QED BY <3>1, <3>2, <3>3
  <2> QED BY <2>4
<1>5. FTypes'
  <2>1. fref' \in [Files -> Nat]
    <3>1. fref' = [f \in Files |-> fref'[f]]
      BY DEF ForkFiles
    <3> QED BY <3>1, <1>4
  <2> QED BY <2>1, <1>1, <1>2 DEF FInv, FTypes
<1>6. Others(p) /\ t'[p] = t[p]
  BY <1>1 DEF Others, Agree
<1>7. RefsPass(p)
  <2>1. ref \in [Inums -> Nat] /\ (\A i \in Inums : OpenOn(fip, i) \in Nat)
    BY RefsAre DEF FInv, FTypes
  <2> QED BY <2>1, <1>1, OwnTypes DEF RefsPass
<1>8. RefsCounted'
  BY <1>4, <1>6, <1>7, RefsPassStep
<1>9. FilesRight'
  BY <1>1, <1>4 DEF FInv, FilesRight
<1>10. /\ ShapeRight' /\ LocksRight' /\ LinksRight' /\ CoreRight' /\ AliveRight'
       /\ FreeingRight' /\ UnlinkRight' /\ CreateRight'
  BY <1>1 DEF FInv, ShapeRight, LocksRight, LinksRight, CoreRight, AliveRight,
       AliveOf, FreeingRight, UnlinkRight, CreateRight
<1> QED BY <1>5, <1>8, <1>9, <1>10 DEF FInv

LEMMA CreatePanicKeeps ==
    ASSUME FInv, NEW p \in Procs, CreatePanic(p)
    PROVE  FInv'
<1>1. UNCHANGED <<disk, dir, core, ref, holder, fref, fip, ofile, t>>
  BY DEF CreatePanic
<1>2. FTypes' /\ FilesRight'
  BY <1>1 DEF FInv, FTypes, FilesRight
<1>3. RefsCounted'
  BY <1>1 DEF FInv, RefsCounted, Pointers
<1>4. /\ ShapeRight' /\ LocksRight' /\ LinksRight' /\ CoreRight' /\ AliveRight'
      /\ FreeingRight' /\ UnlinkRight' /\ CreateRight'
  BY <1>1 DEF FInv, ShapeRight, LocksRight, LinksRight, CoreRight, AliveRight,
       AliveOf, FreeingRight, UnlinkRight, CreateRight
<1> QED BY <1>2, <1>3, <1>4 DEF FInv

-----------------------------------------------------------------------------
(* The steps that write inodes and directories.                            *)

\* Inodes go from the cache to the disk, or are allocated there.
CoreWritten ==
    \A i \in Inums :
        \/ core'[i] = core[i] /\ (disk'[i] = disk[i] \/ disk[i].type = "free")
        \/ core'[i] = disk'[i] /\ disk[i].type # "free"

LEMMA CoreWrite ==
    ASSUME FInv, NEW p \in Procs, Others(p), t[p].pc # "ifreed", TypesKept, CoreWritten
    PROVE  CoreRight'
<1>1. \A q \in Procs : q # p => t'[q] = t[q]
  BY DEF Others, Agree
<1>2. ASSUME NEW i \in Inums, core'[i] # NotValid
      PROVE  \/ core'[i] = disk'[i] /\ disk'[i].type # "free"
             \/ \E q \in Procs : t'[q].pc = "ifreed" /\ t'[q].put = i
  <2>1. CASE core'[i] = core[i] /\ (disk'[i] = disk[i] \/ disk[i].type = "free")
    <3>1. CASE core[i] = disk[i] /\ disk[i].type # "free"
      BY <3>1, <2>1
    <3>2. CASE \E q \in Procs : t[q].pc = "ifreed" /\ t[q].put = i
      <4>1. PICK q \in Procs : t[q].pc = "ifreed" /\ t[q].put = i
        BY <3>2
      <4> QED BY <4>1, <1>1
    <3> QED BY <3>1, <3>2, <1>2, <2>1 DEF FInv, CoreRight
  <2>2. CASE core'[i] = disk'[i] /\ disk[i].type # "free"
    BY <2>2 DEF TypesKept
  <2> QED BY <2>1, <2>2 DEF CoreWritten
<1> QED BY <1>2 DEF CoreRight

\* The directories in a directory are counted by the types of its entries.
SameKinds(dd, dk, dl, i) ==
    \A n \in Names : dd[i][n] # 0 =>
        (dl[dd[i][n]].type = "DIR" <=> dk[dd[i][n]].type = "DIR")

LEMMA KidsSame ==
    ASSUME NEW dd, NEW dk, NEW dl, NEW i, SameKinds(dd, dk, dl, i)
    PROVE  Kids(dd, dl, i) = Kids(dd, dk, i)
<1>1. {n \in Names : KindIn(dd, dl, i)[n] = "DIR"}
        = {n \in Names : KindIn(dd, dk, i)[n] = "DIR"}
  BY DEF KindIn, SameKinds
<1> QED BY <1>1, Zenon DEF Kids, Count

LEMMA KidsKept ==
    ASSUME FInv, TypesKept, NEW i \in Inums
    PROVE  Kids(dir, disk', i) = Kids(dir, disk, i)
<1>1. ASSUME NEW n \in Names, dir[i][n] # 0
      PROVE  disk'[dir[i][n]].type = disk[dir[i][n]].type
  <2>1. dir[i][n] \in Inums
    BY <1>1 DEF FInv, FTypes, Refs
  <2>2. disk[dir[i][n]].type # "free"
    BY <2>1, LinksBound DEF FInv
  <2> QED BY <2>1, <2>2 DEF TypesKept
<1>2. SameKinds(dir, disk, disk', i)
  BY <1>1 DEF SameKinds
<1> QED BY <1>2, KidsSame

\* One entry changes.
OneEntry(dd, ee, d, n) ==
    \A c \in Inums, m \in Names : <<c, m>> # <<d, n>> => ee[c][m] = dd[c][m]

Kind(dd, dk, d, n) == dd[d][n] # 0 /\ dk[dd[d][n]].type = "DIR"

LEMMA EntryChange ==
    \A d \in Inums, n \in Names : \A dd, ee, dk : OneEntry(dd, ee, d, n) =>
        \A i \in Inums :
            /\ Named(ee, i) = Named(dd, i) - One(dd[d][n] = i) + One(ee[d][n] = i)
            /\ Kids(ee, dk, i) = Kids(dd, dk, i) - One(i = d /\ Kind(dd, dk, d, n))
                                    + One(i = d /\ Kind(ee, dk, d, n))
<1> SUFFICES ASSUME NEW d \in Inums, NEW n \in Names, NEW dd, NEW ee, NEW dk,
                    OneEntry(dd, ee, d, n), NEW i \in Inums
             PROVE  /\ Named(ee, i) = Named(dd, i) - One(dd[d][n] = i)
                            + One(ee[d][n] = i)
                    /\ Kids(ee, dk, i) = Kids(dd, dk, i)
                            - One(i = d /\ Kind(dd, dk, d, n))
                            + One(i = d /\ Kind(ee, dk, d, n))
  OBVIOUS
<1>0. IsFiniteSet(Names) /\ IsFiniteSet(Inums \X Names)
  BY FilesAssumption, FS_Product
<1>1. Named(ee, i) = Named(dd, i) - One(dd[d][n] = i) + One(ee[d][n] = i)
  <2>1. <<d, n>> \in Inums \X Names
    OBVIOUS
  <2>2. Agree(Inums \X Names, Entries(dd), Entries(ee), <<d, n>>)
    BY DEF Agree, Entries, OneEntry
  <2>3. Entries(dd)[<<d, n>>] = dd[d][n] /\ Entries(ee)[<<d, n>>] = ee[d][n]
    BY DEF Entries
  <2> QED BY <1>0, <2>1, <2>2, <2>3, CountChange DEF Named
<1>2. CASE i = d
  <2>1. Agree(Names, KindIn(dd, dk, d), KindIn(ee, dk, d), n)
    BY DEF Agree, KindIn, OneEntry
  <2>2. /\ KindIn(dd, dk, d)[n] = "DIR" <=> Kind(dd, dk, d, n)
        /\ KindIn(ee, dk, d)[n] = "DIR" <=> Kind(ee, dk, d, n)
    BY DEF KindIn, Kind
  <2>3. Kids(ee, dk, d) = Kids(dd, dk, d) - One(KindIn(dd, dk, d)[n] = "DIR")
                                        + One(KindIn(ee, dk, d)[n] = "DIR")
    BY <1>0, <2>1, CountChange DEF Kids
  <2>4. /\ One(KindIn(dd, dk, d)[n] = "DIR") = One(i = d /\ Kind(dd, dk, d, n))
        /\ One(KindIn(ee, dk, d)[n] = "DIR") = One(i = d /\ Kind(ee, dk, d, n))
    BY <1>2, <2>2 DEF One
  <2> QED BY <1>1, <1>2, <2>3, <2>4
<1>3. CASE i # d
  <2>1. KindIn(ee, dk, i) = KindIn(dd, dk, i)
    BY <1>3 DEF KindIn, OneEntry
  <2>2. Kids(ee, dk, i) = Kids(dd, dk, i)
    BY <2>1, Zenon DEF Kids
  <2>3. Kids(dd, dk, i) \in Nat
    BY LinkCounts
  <2> QED BY <1>1, <1>3, <2>2, <2>3 DEF One
<1> QED BY <1>2, <1>3

LEMMA PendingChange ==
    ASSUME NEW p \in Procs, NEW tt, NEW uu, Agree(Procs, tt, uu, p), NEW i
    PROVE  Pending(uu, i)
            = Pending(tt, i) - One(PendingOf(tt[p]) = i) + One(PendingOf(uu[p]) = i)
<1> DEFINE g == [q \in Procs |-> PendingOf(tt[q])]
           h == [q \in Procs |-> PendingOf(uu[q])]
<1>1. \A q \in Procs : q # p => uu[q] = tt[q]
  BY DEF Agree
<1>2. \A q \in Procs : q # p => PendingOf(uu[q]) = PendingOf(tt[q])
  BY <1>1, Zenon
<1>3. Agree(Procs, g, h, p) /\ g[p] = PendingOf(tt[p]) /\ h[p] = PendingOf(uu[p])
  BY <1>2 DEF Agree
<1>4. Pending(uu, i) = Count(Procs, h, i) /\ Pending(tt, i) = Count(Procs, g, i)
  BY DEF Pending
<1> HIDE DEF g, h
<1> QED BY <1>3, <1>4, CountChange, FilesAssumption

\* nlink moves with the links that are pending.
LinkMove(p) ==
    \A i \in Inums :
        /\ disk'[i].nlink + One(PendingOf(t[p]) = i)
                >= disk[i].nlink + One(PendingOf(t'[p]) = i)
        /\ disk'[i].type = "free" => disk'[i].nlink = 0

LEMMA LinksMove ==
    ASSUME FInv, FTypes', NEW p \in Procs, Others(p), TypesKept, LinkMove(p),
           UNCHANGED dir
    PROVE  LinksRight'
<1>1. ASSUME NEW i \in Inums
      PROVE  disk'[i].nlink >= Named(dir', i) + Kids(dir', disk', i) + Pending(t', i)
  <2>1. disk[i].nlink \in Nat /\ disk'[i].nlink \in Nat
    BY DEF FInv, FTypes, Dinodes
  <2>2. /\ disk[i].nlink >= Named(dir, i) + Kids(dir, disk, i) + Pending(t, i)
        /\ Named(dir, i) \in Nat /\ Kids(dir, disk, i) \in Nat /\ Pending(t, i) \in Nat
    BY LinkCounts DEF FInv, LinksRight
  <2>3. Pending(t', i) = Pending(t, i) - One(PendingOf(t[p]) = i)
                            + One(PendingOf(t'[p]) = i)
    BY PendingChange DEF Others
  <2>4. Named(dir', i) = Named(dir, i) /\ Kids(dir', disk', i) = Kids(dir, disk, i)
    BY KidsKept
  <2>5. disk'[i].nlink + One(PendingOf(t[p]) = i)
            >= disk[i].nlink + One(PendingOf(t'[p]) = i)
    BY DEF LinkMove
  <2> QED BY <2>1, <2>2, <2>3, <2>4, <2>5 DEF One
<1>2. \A i \in Inums : disk'[i].type = "free" => disk'[i].nlink = 0
  BY DEF LinkMove
<1> QED BY <1>1, <1>2 DEF LinksRight

\* The same when the entry n of directory d changes.
EntryMove(p, d, n) ==
    \A i \in Inums :
        /\ disk'[i].nlink + One(PendingOf(t[p]) = i) + One(dir[d][n] = i)
                + One(i = d /\ Kind(dir, disk', d, n))
            >= disk[i].nlink + One(PendingOf(t'[p]) = i) + One(dir'[d][n] = i)
                + One(i = d /\ Kind(dir', disk', d, n))
        /\ disk'[i].type = "free" => disk'[i].nlink = 0

LEMMA LinksEntry ==
    ASSUME FInv, FTypes', NEW p \in Procs, Others(p), TypesKept,
           NEW d \in Inums, NEW n \in Names, OneEntry(dir, dir', d, n),
           EntryMove(p, d, n)
    PROVE  LinksRight'
<1>1. ASSUME NEW i \in Inums
      PROVE  disk'[i].nlink >= Named(dir', i) + Kids(dir', disk', i) + Pending(t', i)
  <2>1. disk[i].nlink \in Nat /\ disk'[i].nlink \in Nat
    BY DEF FInv, FTypes, Dinodes
  <2>2. /\ disk[i].nlink >= Named(dir, i) + Kids(dir, disk, i) + Pending(t, i)
        /\ Named(dir, i) \in Nat /\ Kids(dir, disk, i) \in Nat /\ Pending(t, i) \in Nat
    BY LinkCounts DEF FInv, LinksRight
  <2>3. Pending(t', i) = Pending(t, i) - One(PendingOf(t[p]) = i)
                            + One(PendingOf(t'[p]) = i)
    BY PendingChange DEF Others
  <2>4. /\ Named(dir', i) = Named(dir, i) - One(dir[d][n] = i) + One(dir'[d][n] = i)
        /\ Kids(dir', disk', i) = Kids(dir, disk', i)
                - One(i = d /\ Kind(dir, disk', d, n))
                + One(i = d /\ Kind(dir', disk', d, n))
    BY EntryChange
  <2>5. Kids(dir, disk', i) = Kids(dir, disk, i)
    BY KidsKept
  <2>6. disk'[i].nlink + One(PendingOf(t[p]) = i) + One(dir[d][n] = i)
                + One(i = d /\ Kind(dir, disk', d, n))
            >= disk[i].nlink + One(PendingOf(t'[p]) = i) + One(dir'[d][n] = i)
                + One(i = d /\ Kind(dir', disk', d, n))
    BY DEF EntryMove
  <2>7. \A b : One(b) \in Nat
    BY DEF One
  <2> QED BY <2>1, <2>2, <2>3, <2>4, <2>5, <2>6, <2>7
<1>2. \A i \in Inums : disk'[i].type = "free" => disk'[i].nlink = 0
  BY DEF EntryMove
<1> QED BY <1>1, <1>2 DEF LinksRight

\* A step that writes inodes and leaves their types alone, but of a free one.
LEMMA WriteStep ==
    ASSUME FInv, FTypes', NEW p \in Procs, Others(p), ShapeOf(t'[p]), LocksMove(p),
           RefsMove(p), PointersMove(p), TypesKept, CoreWritten, DiskMove(p),
           DirMove(p), LinksRight', UNCHANGED <<fref, fip, ofile>>,
           t[p].pc # "ifreed", t'[p].pc \notin {"ifree", "unlink2"},
           t'[p].pc = "create3" => CreateOf(p)'
    PROVE  FInv'
<1>1. ShapeRight' /\ LocksRight' /\ RefsCounted'
  BY ShapeStep, LocksStep, RefsStep
<1>2. FilesMove(p)
  BY DEF FilesMove
<1>3. CoreRight' /\ AliveRight' /\ FreeingRight'
  BY <1>2, CoreWrite, AliveMove, FreeingMove
<1>4. UnlinkRight' /\ CreateRight'
  BY <1>2, UnlinkMove, CreateMove
<1>5. FilesRight'
  BY DEF FInv, FilesRight
<1> QED BY <1>1, <1>3, <1>4, <1>5 DEF FInv

\* The inodes of S are written, and p points to them.
Written(p, S) ==
    \A j \in Inums :
        IF j \in S
        THEN /\ Known(t[p], j)
             /\ disk'[j].type = disk[j].type /\ core'[j] = disk'[j]
        ELSE disk'[j] = disk[j] /\ core'[j] = core[j]

LEMMA WrittenMoves ==
    ASSUME FInv, NEW p \in Procs, NEW S, Written(p, S)
    PROVE  TypesKept /\ CoreWritten /\ DiskMove(p)
<1>1. \A j \in S \cap Inums : disk[j].type # "free"
  BY KnownAlive DEF Written
<1> QED BY <1>1 DEF Written, TypesKept, CoreWritten, DiskMove

\* The fields of an inode that is written.
LEMMA LinksAre ==
    ASSUME FInv, NEW i \in Inums, In(i) = disk[i]
    PROVE  /\ disk[i] \in Dinodes
           /\ \A e \in {1, -1} : /\ Links(i, e).type = disk[i].type
                                 /\ Links(i, e).nlink = disk[i].nlink + e
                                 /\ disk[i].nlink + e \in Nat => Links(i, e) \in Dinodes
<1>1. disk[i] \in Dinodes
  BY DEF FInv, FTypes
<1> QED BY <1>1 DEF Links, Dinodes

LEMMA UnlinkEndKeeps ==
    ASSUME FInv, NEW p \in Procs, UnlinkEnd(p)
    PROVE  FInv'
<1>1. t[p] \in ThreadStates /\ ShapeOf(t[p]) /\ AliveOf(t[p])
  BY ThreadKnown
<1>2. t[p].pc = "unlink3" /\ t[p].ip \in Inums
  BY <1>1 DEF UnlinkEnd, CanLock, ThreadStates, Refs, ShapeOf, At, InIput
<1>v. LastPut(t[p].ip) \in ThreadStates
  BY <1>1, <1>2, ThreadTyped, PlacesAre DEF ThreadStates, UnlinkEnd
<1>3. Others(p) /\ t' \in [Procs -> ThreadStates]
  BY <1>v DEF UnlinkEnd, Others, Agree, FInv, FTypes
<1>4. /\ t'[p].pc = "iput" /\ t'[p].call = "none"
      /\ t'[p].path = <<>> /\ t'[p].new = <<>>
      /\ t'[p].ip = 0 /\ t'[p].dp = 0
      /\ t'[p].old = 0 /\ t'[p].put = t[p].ip
      /\ t'[p].after = "idle"
  BY <1>1, <1>2 DEF UnlinkEnd, Thread, Puts, LastPut, FInv, FTypes, ThreadStates
<1>i. In(t[p].ip) = disk[t[p].ip] /\ Known(t[p], t[p].ip)
  <2>1. holder[t[p].ip] = p
    BY <1>1, <1>2, ThreadKnown DEF UnlinkEnd, CanLock, Holds, At, InIput
  <2> QED BY <2>1, <1>2, InHeld DEF Known
<1>k. disk[t[p].ip].nlink >= 1
  <2>1. PendingOf(t[p]) = t[p].ip
    BY <1>1, <1>2, FilesAssumption DEF PendingOf, ShapeOf, At, InIput
  <2> QED BY <2>1, <1>2, LinksBound DEF FInv
<1>d. /\ disk[t[p].ip].nlink \in Nat
      /\ Links(t[p].ip, -1) \in Dinodes
      /\ Links(t[p].ip, -1).type = disk[t[p].ip].type
      /\ Links(t[p].ip, -1).nlink = disk[t[p].ip].nlink - 1
  BY <1>2, <1>i, <1>k, LinksAre DEF Dinodes
<1>u. /\ disk' = [j \in Inums |-> IF j = t[p].ip THEN Links(t[p].ip, -1) ELSE disk[j]]
      /\ core' = [j \in Inums |-> IF j = t[p].ip THEN Links(t[p].ip, -1) ELSE core[j]]
      /\ dir' = dir
  BY <1>2 DEF UnlinkEnd, IUpdate
<1>w. Written(p, {t[p].ip})
  BY <1>2, <1>i, <1>d, <1>u DEF Written
<1>5. FTypes'
  <2>1. disk' \in [Inums -> Dinodes] /\ core' \in [Inums -> Dinodes \cup {NotValid}]
    BY <1>2, <1>d, <1>u DEF FInv, FTypes
  <2> QED BY <2>1, <1>2, <1>3, <1>u, FilesAssumption DEF UnlinkEnd, FInv, FTypes, IGet, ROOTINO
<1>6. ShapeOf(t'[p])
  BY <1>1, <1>2, <1>4, FilesAssumption DEF UnlinkEnd, ShapeOf, At, InIput, Afters
<1>7. LocksMove(p)
  <2>1. \A i \in Inums : holder[i] = p <=> Holds(t[p], i)
    BY ThreadKnown
  <2>2. Nobody \notin Procs /\ 0 \notin Inums
    BY FilesAssumption
  <2>3. holder \in [Inums -> Procs \cup {Nobody}]
    BY DEF FInv, FTypes
  <2> QED BY <2>1, <2>2, <2>3, <1>1, <1>2, <1>4 DEF UnlinkEnd, LocksMove, Holds, ShapeOf, At, InIput, CanLock
<1>8. RefsMove(p)
  <2>1. ref \in [Inums -> Nat] /\ 0 \notin Inums
    BY FilesAssumption DEF FInv, FTypes
  <2>2. ref' = ref
    BY DEF UnlinkEnd
  <2>3. \A i \in Inums : Own(t'[p], i) = Own(t[p], i)
    BY <2>1, <1>1, <1>2, <1>4 DEF Own, One, ShapeOf, At, InIput
  <2> QED BY <2>1, <2>2, <2>3, OwnTypes DEF RefsMove
<1>10. PointersMove(p)
  BY <1>1, <1>2, <1>4 DEF UnlinkEnd, PointersMove, Source, Known
<1>13. UNCHANGED <<fref, fip, ofile>> /\ t[p].pc # "ifreed"
      /\ t'[p].pc \notin {"ifree", "create3", "unlink2"}
  BY <1>2, <1>4 DEF UnlinkEnd
<1>14. TypesKept /\ CoreWritten /\ DiskMove(p)
  BY <1>w, WrittenMoves
<1>15. DirMove(p)
  BY <1>u DEF DirMove
<1>16. LinkMove(p)
  <2>1. disk[t[p].ip].type # "free"
    BY <1>2, <1>i, KnownAlive
  <2>2. PendingOf(t[p]) = t[p].ip /\ PendingOf(t'[p]) = 0
    BY <1>1, <1>2, <1>4, FilesAssumption DEF PendingOf, ShapeOf, At, InIput
  <2>3. ASSUME NEW j \in Inums
        PROVE  /\ disk'[j].nlink + One(PendingOf(t[p]) = j)
                        >= disk[j].nlink + One(PendingOf(t'[p]) = j)
               /\ disk'[j].type = "free" => disk'[j].nlink = 0
    <3>1. j # 0 /\ disk[j].nlink \in Nat
      BY FilesAssumption DEF FInv, FTypes, Dinodes
    <3>2. CASE j = t[p].ip
      BY <3>1, <3>2, <2>1, <2>2, <1>d, <1>u DEF One
    <3>3. CASE j # t[p].ip
      <4>1. disk'[j] = disk[j]
        BY <3>3, <1>u
      <4>2. disk[j].type = "free" => disk[j].nlink = 0
        BY DEF FInv, LinksRight
      <4> QED BY <4>1, <4>2, <3>1, <3>3, <2>2 DEF One
    <3> QED BY <3>2, <3>3
  <2> QED BY <2>3 DEF LinkMove
<1>17. LinksRight'
  BY <1>3, <1>5, <1>14, <1>16, <1>u, LinksMove
<1> QED BY <1>3, <1>5, <1>6, <1>7, <1>8, <1>10, <1>13, <1>14, <1>15, <1>17, WriteStep

LEMMA LinkBadKeeps ==
    ASSUME FInv, NEW p \in Procs, LinkBad(p)
    PROVE  FInv'
<1>1. t[p] \in ThreadStates /\ ShapeOf(t[p]) /\ AliveOf(t[p])
  BY ThreadKnown
<1>2. t[p].pc = "linkbad" /\ t[p].old \in Inums
  BY <1>1 DEF LinkBad, CanLock, ThreadStates, Refs, ShapeOf, At, InIput
<1>v. LastPut(t[p].old) \in ThreadStates
  BY <1>1, <1>2, ThreadTyped, PlacesAre DEF ThreadStates, LinkBad
<1>3. Others(p) /\ t' \in [Procs -> ThreadStates]
  BY <1>v DEF LinkBad, Others, Agree, FInv, FTypes
<1>4. /\ t'[p].pc = "iput" /\ t'[p].call = "none"
      /\ t'[p].path = <<>> /\ t'[p].new = <<>>
      /\ t'[p].ip = 0 /\ t'[p].dp = 0
      /\ t'[p].old = 0 /\ t'[p].put = t[p].old
      /\ t'[p].after = "idle"
  BY <1>1, <1>2 DEF LinkBad, Thread, Puts, LastPut, FInv, FTypes, ThreadStates
<1>i. In(t[p].old) = disk[t[p].old] /\ Known(t[p], t[p].old)
  <2>1. holder[t[p].old] = Nobody
    BY <1>1, <1>2 DEF LinkBad, CanLock
  <2> QED BY <2>1, <1>2, InRight DEF Known
<1>k. disk[t[p].old].nlink >= 1
  <2>1. PendingOf(t[p]) = t[p].old
    BY <1>1, <1>2, FilesAssumption DEF PendingOf, ShapeOf, At, InIput
  <2> QED BY <2>1, <1>2, LinksBound DEF FInv
<1>d. /\ disk[t[p].old].nlink \in Nat
      /\ Links(t[p].old, -1) \in Dinodes
      /\ Links(t[p].old, -1).type = disk[t[p].old].type
      /\ Links(t[p].old, -1).nlink = disk[t[p].old].nlink - 1
  BY <1>2, <1>i, <1>k, LinksAre DEF Dinodes
<1>u. /\ disk' = [j \in Inums |-> IF j = t[p].old THEN Links(t[p].old, -1) ELSE disk[j]]
      /\ core' = [j \in Inums |-> IF j = t[p].old THEN Links(t[p].old, -1) ELSE core[j]]
      /\ dir' = dir
  BY <1>2 DEF LinkBad, IUpdate
<1>w. Written(p, {t[p].old})
  BY <1>2, <1>i, <1>d, <1>u DEF Written
<1>5. FTypes'
  <2>1. disk' \in [Inums -> Dinodes] /\ core' \in [Inums -> Dinodes \cup {NotValid}]
    BY <1>2, <1>d, <1>u DEF FInv, FTypes
  <2> QED BY <2>1, <1>2, <1>3, <1>u, FilesAssumption DEF LinkBad, FInv, FTypes, IGet, ROOTINO
<1>6. ShapeOf(t'[p])
  BY <1>1, <1>2, <1>4, FilesAssumption DEF LinkBad, ShapeOf, At, InIput, Afters
<1>7. LocksMove(p)
  <2>1. \A i \in Inums : holder[i] = p <=> Holds(t[p], i)
    BY ThreadKnown
  <2>2. Nobody \notin Procs /\ 0 \notin Inums
    BY FilesAssumption
  <2>3. holder \in [Inums -> Procs \cup {Nobody}]
    BY DEF FInv, FTypes
  <2> QED BY <2>1, <2>2, <2>3, <1>1, <1>2, <1>4 DEF LinkBad, LocksMove, Holds, ShapeOf, At, InIput, CanLock
<1>8. RefsMove(p)
  <2>1. ref \in [Inums -> Nat] /\ 0 \notin Inums
    BY FilesAssumption DEF FInv, FTypes
  <2>2. ref' = ref
    BY DEF LinkBad
  <2>3. \A i \in Inums : Own(t'[p], i) = Own(t[p], i)
    BY <2>1, <1>1, <1>2, <1>4 DEF Own, One, ShapeOf, At, InIput
  <2> QED BY <2>1, <2>2, <2>3, OwnTypes DEF RefsMove
<1>10. PointersMove(p)
  BY <1>1, <1>2, <1>4 DEF LinkBad, PointersMove, Source, Known
<1>13. UNCHANGED <<fref, fip, ofile>> /\ t[p].pc # "ifreed"
      /\ t'[p].pc \notin {"ifree", "create3", "unlink2"}
  BY <1>2, <1>4 DEF LinkBad
<1>14. TypesKept /\ CoreWritten /\ DiskMove(p)
  BY <1>w, WrittenMoves
<1>15. DirMove(p)
  BY <1>u DEF DirMove
<1>16. LinkMove(p)
  <2>1. disk[t[p].old].type # "free"
    BY <1>2, <1>i, KnownAlive
  <2>2. PendingOf(t[p]) = t[p].old /\ PendingOf(t'[p]) = 0
    BY <1>1, <1>2, <1>4, FilesAssumption DEF PendingOf, ShapeOf, At, InIput
  <2>3. ASSUME NEW j \in Inums
        PROVE  /\ disk'[j].nlink + One(PendingOf(t[p]) = j)
                        >= disk[j].nlink + One(PendingOf(t'[p]) = j)
               /\ disk'[j].type = "free" => disk'[j].nlink = 0
    <3>1. j # 0 /\ disk[j].nlink \in Nat
      BY FilesAssumption DEF FInv, FTypes, Dinodes
    <3>2. CASE j = t[p].old
      BY <3>1, <3>2, <2>1, <2>2, <1>d, <1>u DEF One
    <3>3. CASE j # t[p].old
      <4>1. disk'[j] = disk[j]
        BY <3>3, <1>u
      <4>2. disk[j].type = "free" => disk[j].nlink = 0
        BY DEF FInv, LinksRight
      <4> QED BY <4>1, <4>2, <3>1, <3>3, <2>2 DEF One
    <3> QED BY <3>2, <3>3
  <2> QED BY <2>3 DEF LinkMove
<1>17. LinksRight'
  BY <1>3, <1>5, <1>14, <1>16, <1>u, LinksMove
<1> QED BY <1>3, <1>5, <1>6, <1>7, <1>8, <1>10, <1>13, <1>14, <1>15, <1>17, WriteStep

LEMMA LinkCountFileKeeps ==
    ASSUME FInv, NEW p \in Procs, LinkCount(p), In(t[p].ip).type # "DIR"
    PROVE  FInv'
<1>1. t[p] \in ThreadStates /\ ShapeOf(t[p]) /\ AliveOf(t[p])
  BY ThreadKnown
<1>2. t[p].pc = "link1" /\ t[p].ip \in Inums
  BY <1>1 DEF LinkCount, CanLock, ThreadStates, Refs, ShapeOf, At, InIput
<1>v. [t[p] EXCEPT !.pc = "walk", !.path = t[p].new, !.new = <<>>, !.old = t[p].ip, !.ip = ROOTINO] \in ThreadStates
  BY <1>1, <1>2, PlacesAre, FilesAssumption DEF ThreadStates, ROOTINO
<1>t. t' = [t EXCEPT ![p] = [t[p] EXCEPT !.pc = "walk", !.path = t[p].new, !.new = <<>>, !.old = t[p].ip, !.ip = ROOTINO]]
  BY DEF LinkCount
<1>3. Others(p) /\ t' \in [Procs -> ThreadStates]
  BY <1>t, <1>v DEF Others, Agree, FInv, FTypes
<1>4. /\ t'[p].pc = "walk" /\ t'[p].call = t[p].call
      /\ t'[p].path = t[p].new /\ t'[p].new = <<>>
      /\ t'[p].ip = ROOTINO /\ t'[p].dp = t[p].dp
      /\ t'[p].old = t[p].ip /\ t'[p].put = t[p].put
      /\ t'[p].after = t[p].after
  BY <1>t, <1>1, <1>2 DEF Thread, Puts, LastPut, FInv, FTypes, ThreadStates
<1>i. In(t[p].ip) = disk[t[p].ip] /\ Known(t[p], t[p].ip)
  <2>1. holder[t[p].ip] = Nobody
    BY <1>1, <1>2 DEF LinkCount, CanLock
  <2> QED BY <2>1, <1>2, InRight DEF Known
<1>d. /\ disk[t[p].ip].nlink \in Nat
      /\ Links(t[p].ip, 1) \in Dinodes
      /\ Links(t[p].ip, 1).type = disk[t[p].ip].type
      /\ Links(t[p].ip, 1).nlink = disk[t[p].ip].nlink + 1
  BY <1>2, <1>i, LinksAre DEF Dinodes
<1>u. /\ disk' = [j \in Inums |-> IF j = t[p].ip THEN Links(t[p].ip, 1) ELSE disk[j]]
      /\ core' = [j \in Inums |-> IF j = t[p].ip THEN Links(t[p].ip, 1) ELSE core[j]]
      /\ dir' = dir
  BY DEF LinkCount, IUpdate
<1>w. Written(p, {t[p].ip})
  BY <1>2, <1>i, <1>d, <1>u DEF Written
<1>f. In(t[p].ip).type # "DIR" /\ ref' = [ref EXCEPT ![ROOTINO] = @ + 1]
  BY DEF LinkCount, IGet
<1>g. UNCHANGED <<holder, fref, fip, ofile>>
  BY DEF LinkCount
<1>k. disk[t[p].ip].type = "FILE"
  <2>1. disk[t[p].ip].type \in {"free", "DIR", "FILE"}
    BY <1>2 DEF FInv, FTypes, Dinodes
  <2> QED BY <2>1, <1>2, <1>i, <1>f, KnownAlive
<1>5. FTypes'
  <2>1. disk' \in [Inums -> Dinodes] /\ core' \in [Inums -> Dinodes \cup {NotValid}]
    BY <1>2, <1>d, <1>u DEF FInv, FTypes
  <2> QED BY <2>1, <1>2, <1>3, <1>u, <1>f, <1>g, FilesAssumption DEF FInv, FTypes, ROOTINO
<1>6. ShapeOf(t'[p])
  BY <1>1, <1>2, <1>4, <1>f, FilesAssumption DEF LinkCount, ShapeOf, At, InIput, Afters, ROOTINO
<1>7. LocksMove(p)
  <2>1. \A i \in Inums : holder[i] = p <=> Holds(t[p], i)
    BY ThreadKnown
  <2>2. Nobody \notin Procs /\ 0 \notin Inums
    BY FilesAssumption
  <2>3. holder \in [Inums -> Procs \cup {Nobody}]
    BY DEF FInv, FTypes
  <2> QED BY <2>1, <2>2, <2>3, <1>1, <1>2, <1>4, <1>f DEF LinkCount, LocksMove, Holds, ShapeOf, At, InIput, CanLock, ROOTINO
<1>8. RefsMove(p)
  <2>1. ref \in [Inums -> Nat] /\ 0 \notin Inums /\ ROOTINO \in Inums
    BY FilesAssumption DEF FInv, FTypes, ROOTINO
  <2> QED BY <2>1, <1>1, <1>2, <1>4, <1>f DEF LinkCount, RefsMove, Own, One, IGet, ShapeOf, At, InIput
<1>10. PointersMove(p)
  BY <1>1, <1>2, <1>4, <1>f, <1>k, <1>i DEF LinkCount, PointersMove, Source, Known
<1>13. UNCHANGED <<fref, fip, ofile>> /\ t[p].pc # "ifreed"
      /\ t'[p].pc \notin {"ifree", "create3", "unlink2"}
  BY <1>2, <1>4 DEF LinkCount
<1>14. TypesKept /\ CoreWritten /\ DiskMove(p)
  BY <1>w, WrittenMoves
<1>15. DirMove(p)
  BY <1>u DEF DirMove
<1>16. LinkMove(p)
  <2>1. disk[t[p].ip].type # "free"
    BY <1>2, <1>i, KnownAlive
  <2>2. PendingOf(t[p]) = 0 /\ PendingOf(t'[p]) = t[p].ip
    BY <1>1, <1>2, <1>4, FilesAssumption DEF PendingOf, ShapeOf, At, InIput
  <2>3. ASSUME NEW j \in Inums
        PROVE  /\ disk'[j].nlink + One(PendingOf(t[p]) = j)
                        >= disk[j].nlink + One(PendingOf(t'[p]) = j)
               /\ disk'[j].type = "free" => disk'[j].nlink = 0
    <3>1. j # 0 /\ disk[j].nlink \in Nat
      BY FilesAssumption DEF FInv, FTypes, Dinodes
    <3>2. CASE j = t[p].ip
      BY <3>1, <3>2, <2>1, <2>2, <1>d, <1>u DEF One
    <3>3. CASE j # t[p].ip
      <4>1. disk'[j] = disk[j]
        BY <3>3, <1>u
      <4>2. disk[j].type = "free" => disk[j].nlink = 0
        BY DEF FInv, LinksRight
      <4> QED BY <4>1, <4>2, <3>1, <3>3, <2>2 DEF One
    <3> QED BY <3>2, <3>3
  <2> QED BY <2>3 DEF LinkMove
<1>17. LinksRight'
  BY <1>3, <1>5, <1>14, <1>16, <1>u, LinksMove
<1> QED BY <1>3, <1>5, <1>6, <1>7, <1>8, <1>10, <1>13, <1>14, <1>15, <1>17, WriteStep

LEMMA LinkMadeKeeps ==
    ASSUME FInv, NEW p \in Procs, LinkMade(p)
    PROVE  FInv'
<1>1. t[p] \in ThreadStates /\ ShapeOf(t[p]) /\ AliveOf(t[p])
  BY ThreadKnown
<1>2. t[p].pc = "parent" /\ t[p].dp \in Inums /\ t[p].old \in Inums
  BY <1>1 DEF LinkMade, CanLock, ThreadStates, Refs, ShapeOf, At, InIput
<1>v. Puts([Thread EXCEPT !.old = t[p].old], t[p].dp, "linkend") \in ThreadStates
  <2>1. [Thread EXCEPT !.old = t[p].old] \in ThreadStates
    BY <1>1, ThreadTyped DEF ThreadStates
  <2> QED BY <2>1, <1>2, ThreadTyped, PlacesAre
<1>3. Others(p) /\ t' \in [Procs -> ThreadStates]
  BY <1>v DEF LinkMade, Others, Agree, FInv, FTypes
<1>4. /\ t'[p].pc = "iput" /\ t'[p].call = "none"
      /\ t'[p].path = <<>> /\ t'[p].new = <<>>
      /\ t'[p].ip = 0 /\ t'[p].dp = 0
      /\ t'[p].old = t[p].old /\ t'[p].put = t[p].dp
      /\ t'[p].after = "linkend"
  BY <1>1, <1>2 DEF LinkMade, Thread, Puts, LastPut, FInv, FTypes, ThreadStates
<1> DEFINE nm == Name(p)
<1>n. nm \in Names
  <2>1. t[p].path \in Seq(Names) /\ t[p].path # <<>>
    BY <1>1, <1>2 DEF ThreadStates, ShapeOf, At, InIput
  <2> QED BY <2>1 DEF Name
<1>i. /\ holder[t[p].dp] = Nobody /\ In(t[p].dp) = disk[t[p].dp]
      /\ Known(t[p], t[p].dp) /\ disk[t[p].old].type = "FILE"
  <2>1. holder[t[p].dp] = Nobody
    BY <1>1, <1>2 DEF LinkMade, CanLock
  <2>2. t[p].old # 0
    BY <1>2, FilesAssumption
  <2> QED BY <2>1, <2>2, <1>1, <1>2, InRight DEF Known, AliveOf
<1>e. dir' = [dir EXCEPT ![t[p].dp][nm] = t[p].old] /\ dir[t[p].dp][nm] = 0
  BY DEF LinkMade
<1>u. /\ disk' = disk
      /\ core' = [j \in Inums |-> IF j = t[p].dp THEN disk[j] ELSE core[j]]
  BY <1>2, <1>i DEF LinkMade, ILocked
<1> HIDE DEF nm
<1>w. Written(p, {t[p].dp})
  BY <1>2, <1>i, <1>u DEF Written
<1>5. FTypes'
  <2>1. core' \in [Inums -> Dinodes \cup {NotValid}]
    BY <1>2, <1>u DEF FInv, FTypes
  <2>2. dir' \in [Inums -> [Names -> Refs]]
    BY <1>2, <1>n, <1>e DEF FInv, FTypes, Refs
  <2> QED BY <2>1, <2>2, <1>3, <1>u DEF LinkMade, FInv, FTypes
<1>6. ShapeOf(t'[p])
  BY <1>1, <1>2, <1>4, FilesAssumption DEF LinkMade, ShapeOf, At, InIput, Afters
<1>7. LocksMove(p)
  <2>1. \A i \in Inums : holder[i] = p <=> Holds(t[p], i)
    BY ThreadKnown
  <2>2. Nobody \notin Procs /\ 0 \notin Inums
    BY FilesAssumption
  <2>3. holder \in [Inums -> Procs \cup {Nobody}]
    BY DEF FInv, FTypes
  <2> QED BY <2>1, <2>2, <2>3, <1>1, <1>2, <1>4 DEF LinkMade, LocksMove, Holds, ShapeOf, At, InIput, CanLock
<1>8. RefsMove(p)
  <2>1. ref \in [Inums -> Nat] /\ 0 \notin Inums
    BY FilesAssumption DEF FInv, FTypes
  <2>2. ref' = ref
    BY DEF LinkMade
  <2>3. \A i \in Inums : Own(t'[p], i) = Own(t[p], i)
    BY <2>1, <1>1, <1>2, <1>4 DEF Own, One, ShapeOf, At, InIput
  <2> QED BY <2>1, <2>2, <2>3, OwnTypes DEF RefsMove
<1>10. PointersMove(p)
  BY <1>1, <1>2, <1>4 DEF LinkMade, PointersMove, Source, Known
<1>13. UNCHANGED <<fref, fip, ofile>> /\ t[p].pc # "ifreed"
      /\ t'[p].pc \notin {"ifree", "create3", "unlink2"}
  BY <1>2, <1>4 DEF LinkMade
<1>14. TypesKept /\ CoreWritten /\ DiskMove(p)
  BY <1>w, WrittenMoves
<1>15. DirMove(p)
  BY <1>2, <1>i, <1>e DEF DirMove, FInv, FTypes
<1>16. OneEntry(dir, dir', t[p].dp, nm) /\ dir'[t[p].dp][nm] = t[p].old /\ dir[t[p].dp][nm] = 0
  BY <1>2, <1>n, <1>e DEF OneEntry, FInv, FTypes
<1>17. EntryMove(p, t[p].dp, nm)
  <2>1. PendingOf(t[p]) = t[p].old /\ PendingOf(t'[p]) = 0
    BY <1>1, <1>2, <1>4, FilesAssumption DEF PendingOf, ShapeOf, At, InIput
  <2>2. ~Kind(dir', disk', t[p].dp, nm)
    BY <1>i, <1>u, <1>16 DEF Kind
  <2>3. ASSUME NEW j \in Inums
        PROVE  /\ disk'[j].nlink + One(PendingOf(t[p]) = j) + One(dir[t[p].dp][nm] = j)
                        + One(j = t[p].dp /\ Kind(dir, disk', t[p].dp, nm))
                    >= disk[j].nlink + One(PendingOf(t'[p]) = j)
                        + One(dir'[t[p].dp][nm] = j)
                        + One(j = t[p].dp /\ Kind(dir', disk', t[p].dp, nm))
               /\ disk'[j].type = "free" => disk'[j].nlink = 0
    <3>1. j # 0 /\ disk[j].nlink \in Nat
      BY FilesAssumption DEF FInv, FTypes, Dinodes
    <3>2. disk'[j] = disk[j] /\ (disk[j].type = "free" => disk[j].nlink = 0)
      BY <1>u DEF FInv, LinksRight
    <3>3. /\ One(PendingOf(t[p]) = j) = One(t[p].old = j)
          /\ One(dir'[t[p].dp][nm] = j) = One(t[p].old = j)
          /\ One(PendingOf(t'[p]) = j) = 0 /\ One(dir[t[p].dp][nm] = j) = 0
          /\ One(j = t[p].dp /\ Kind(dir', disk', t[p].dp, nm)) = 0
      BY <2>1, <2>2, <3>1, <1>16 DEF One
    <3>4. \A b : One(b) \in Nat
      BY DEF One
    <3> QED BY <3>1, <3>2, <3>3, <3>4
  <2> QED BY <2>3 DEF EntryMove
<1>18. LinksRight'
  BY <1>2, <1>3, <1>5, <1>n, <1>14, <1>16, <1>17, LinksEntry
<1> QED BY <1>3, <1>5, <1>6, <1>7, <1>8, <1>10, <1>13, <1>14, <1>15, <1>18, WriteStep

LEMMA UnlinkEraseKeeps ==
    ASSUME FInv, NEW p \in Procs, UnlinkErase(p)
    PROVE  FInv'
<1>1. t[p] \in ThreadStates /\ ShapeOf(t[p]) /\ AliveOf(t[p])
  BY ThreadKnown
<1>2. t[p].pc = "unlink2" /\ t[p].ip \in Inums /\ t[p].dp \in Inums
  BY <1>1 DEF UnlinkErase, CanLock, ThreadStates, Refs, ShapeOf, At, InIput
<1>v. Puts([Thread EXCEPT !.ip = t[p].ip], t[p].dp, "unlink3") \in ThreadStates
  <2>1. [Thread EXCEPT !.ip = t[p].ip] \in ThreadStates
    BY <1>1, ThreadTyped DEF ThreadStates
  <2> QED BY <2>1, <1>2, ThreadTyped, PlacesAre
<1>3. Others(p) /\ t' \in [Procs -> ThreadStates]
  BY <1>v DEF UnlinkErase, Others, Agree, FInv, FTypes
<1>4. /\ t'[p].pc = "iput" /\ t'[p].call = "none"
      /\ t'[p].path = <<>> /\ t'[p].new = <<>>
      /\ t'[p].ip = t[p].ip /\ t'[p].dp = 0
      /\ t'[p].old = 0 /\ t'[p].put = t[p].dp
      /\ t'[p].after = "unlink3"
  BY <1>1, <1>2 DEF UnlinkErase, Thread, Puts, LastPut, FInv, FTypes, ThreadStates
<1> DEFINE nm == Name(p)
<1>n. nm \in Names
  <2>1. t[p].path \in Seq(Names) /\ t[p].path # <<>>
    BY <1>1, <1>2 DEF ThreadStates, ShapeOf, At, InIput
  <2> QED BY <2>1 DEF Name
<1>i. /\ holder[t[p].ip] = Nobody /\ holder[t[p].dp] = p /\ t[p].ip # t[p].dp
      /\ In(t[p].ip) = disk[t[p].ip] /\ In(t[p].dp) = disk[t[p].dp]
      /\ Known(t[p], t[p].ip) /\ Known(t[p], t[p].dp)
  <2>1. holder[t[p].ip] = Nobody
    BY <1>1, <1>2 DEF UnlinkErase, CanLock
  <2>2. holder[t[p].dp] = p
    BY <1>1, <1>2, ThreadKnown DEF Holds, At, InIput
  <2> QED BY <2>1, <2>2, <1>2, InRight, InHeld, FilesAssumption DEF Known
<1>e. /\ dir' = [dir EXCEPT ![t[p].dp][nm] = 0]
      /\ dir[t[p].dp][nm] = t[p].ip
  BY <1>2 DEF UnlinkErase, FInv, UnlinkRight, Name
<1>k. disk[t[p].ip].type = "DIR" => disk[t[p].dp].nlink >= 1
  BY <1>2, <1>n, <1>e, LinksBound, FilesAssumption DEF FInv
<1> DEFINE vi == disk[t[p].ip]
           vd == IF disk[t[p].ip].type = "DIR" THEN Links(t[p].dp, -1) ELSE disk[t[p].dp]
<1>v1. /\ vi \in Dinodes /\ vd \in Dinodes
       /\ vi.type = disk[t[p].ip].type /\ vd.type = disk[t[p].dp].type
       /\ vi.nlink = disk[t[p].ip].nlink
       /\ disk[t[p].ip].type = "DIR" => vd.nlink = disk[t[p].dp].nlink - 1
       /\ disk[t[p].ip].type # "DIR" => vd.nlink = disk[t[p].dp].nlink
  <2>1. disk[t[p].ip] \in Dinodes /\ disk[t[p].dp] \in Dinodes
    BY <1>2, <1>i, LinksAre
  <2>2. CASE disk[t[p].ip].type = "DIR"
    <3>1. disk[t[p].dp].nlink + (-1) \in Nat
      BY <2>1, <2>2, <1>k DEF Dinodes
    <3>2. /\ Links(t[p].dp, -1) \in Dinodes
          /\ Links(t[p].dp, -1).type = disk[t[p].dp].type
          /\ Links(t[p].dp, -1).nlink = disk[t[p].dp].nlink + (-1)
      BY <3>1, <1>2, <1>i, LinksAre
    <3> QED BY <2>1, <2>2, <3>2 DEF Dinodes
  <2>3. CASE disk[t[p].ip].type # "DIR"
    BY <2>1, <2>3
  <2> QED BY <2>2, <2>3
<1>v2. /\ vi.nlink = disk[t[p].ip].nlink
       /\ disk[t[p].ip].type = "DIR" => vd.nlink = disk[t[p].dp].nlink - 1
       /\ disk[t[p].ip].type # "DIR" => vd.nlink = disk[t[p].dp].nlink
  BY <1>v1
<1>u. /\ disk' = [j \in Inums |-> IF j = t[p].ip THEN vi ELSE IF j = t[p].dp THEN vd
                                 ELSE disk[j]]
      /\ core' = [j \in Inums |-> IF j = t[p].ip THEN vi ELSE IF j = t[p].dp THEN vd
                                 ELSE core[j]]
  BY <1>2, <1>i DEF UnlinkErase, IUpdate
<1> HIDE DEF nm, vi, vd
<1>w. Written(p, {t[p].ip, t[p].dp})
  BY <1>2, <1>i, <1>v1, <1>u DEF Written
<1>5. FTypes'
  <2>1. /\ disk' \in [Inums -> Dinodes]
        /\ core' \in [Inums -> Dinodes \cup {NotValid}]
    BY <1>2, <1>u, <1>v1 DEF FInv, FTypes
  <2>2. dir' \in [Inums -> [Names -> Refs]]
    BY <1>2, <1>n, <1>e DEF FInv, FTypes, Refs
  <2>3. UNCHANGED <<ref, fref, fip, ofile>>
    BY DEF UnlinkErase
  <2>4. holder' = [holder EXCEPT ![t[p].ip] = p, ![t[p].dp] = Nobody]
    BY DEF UnlinkErase
  <2>5. holder' \in [Inums -> Procs \cup {Nobody}]
    BY <2>4 DEF FInv, FTypes
  <2> QED BY <2>1, <2>2, <2>3, <2>5, <1>3 DEF FInv, FTypes
<1>6. ShapeOf(t'[p])
  BY <1>1, <1>2, <1>4, FilesAssumption DEF UnlinkErase, ShapeOf, At, InIput, Afters
<1>7. LocksMove(p)
  <2>1. \A i \in Inums : holder[i] = p <=> Holds(t[p], i)
    BY ThreadKnown
  <2>2. Nobody \notin Procs /\ 0 \notin Inums
    BY FilesAssumption
  <2>3. holder \in [Inums -> Procs \cup {Nobody}]
    BY DEF FInv, FTypes
  <2> QED BY <2>1, <2>2, <2>3, <1>1, <1>2, <1>4 DEF UnlinkErase, LocksMove, Holds, ShapeOf, At, InIput, CanLock
<1>8. RefsMove(p)
  <2>1. ref \in [Inums -> Nat] /\ 0 \notin Inums
    BY FilesAssumption DEF FInv, FTypes
  <2>2. ref' = ref
    BY DEF UnlinkErase
  <2>3. \A i \in Inums : Own(t'[p], i) = Own(t[p], i)
    BY <2>1, <1>1, <1>2, <1>4 DEF Own, One, ShapeOf, At, InIput
  <2> QED BY <2>1, <2>2, <2>3, OwnTypes DEF RefsMove
<1>10. PointersMove(p)
  BY <1>1, <1>2, <1>4 DEF UnlinkErase, PointersMove, Source, Known
<1>13. UNCHANGED <<fref, fip, ofile>> /\ t[p].pc # "ifreed"
      /\ t'[p].pc \notin {"ifree", "create3", "unlink2"}
  BY <1>2, <1>4 DEF UnlinkErase
<1>14. TypesKept /\ CoreWritten /\ DiskMove(p)
  BY <1>w, WrittenMoves
<1>15. DirMove(p)
  BY <1>2, <1>i, <1>e DEF DirMove, FInv, FTypes
<1>16. OneEntry(dir, dir', t[p].dp, nm) /\ dir'[t[p].dp][nm] = 0 /\ dir[t[p].dp][nm] = t[p].ip
  BY <1>2, <1>n, <1>e DEF OneEntry, FInv, FTypes
<1>17. EntryMove(p, t[p].dp, nm)
  <2>1. PendingOf(t[p]) = 0 /\ PendingOf(t'[p]) = t[p].ip
    BY <1>1, <1>2, <1>4, FilesAssumption DEF PendingOf, ShapeOf, At, InIput
  <2>2. /\ Kind(dir, disk', t[p].dp, nm) <=> disk[t[p].ip].type = "DIR"
        /\ Kind(dir', disk', t[p].dp, nm) <=> FALSE
    BY <1>2, <1>u, <1>v1, <1>16, FilesAssumption DEF Kind
  <2>3. ASSUME NEW j \in Inums
        PROVE  /\ disk'[j].nlink + One(PendingOf(t[p]) = j) + One(dir[t[p].dp][nm] = j)
                        + One(j = t[p].dp /\ Kind(dir, disk', t[p].dp, nm))
                    >= disk[j].nlink + One(PendingOf(t'[p]) = j)
                        + One(dir'[t[p].dp][nm] = j)
                        + One(j = t[p].dp /\ Kind(dir', disk', t[p].dp, nm))
               /\ disk'[j].type = "free" => disk'[j].nlink = 0
    <3>1. j # 0 /\ disk[j].nlink \in Nat
      BY FilesAssumption DEF FInv, FTypes, Dinodes
    <3>2. CASE j = t[p].ip
      <4>1. disk'[j] = vi /\ disk'[j].type # "free" /\ j # t[p].dp
        BY <3>2, <1>2, <1>i, <1>u, <1>v1, KnownAlive
      <4> QED BY <3>1, <3>2, <4>1, <2>1, <2>2, <1>16, <1>v2 DEF One
    <3>3. CASE j = t[p].dp
      <4>1. disk'[j] = vd /\ disk'[j].type # "free" /\ j # t[p].ip
        BY <3>3, <1>2, <1>i, <1>u, <1>v1, KnownAlive
      <4> QED BY <3>1, <3>3, <4>1, <2>1, <2>2, <1>16, <1>v2 DEF One
    <3>4. CASE j # t[p].ip /\ j # t[p].dp
      <4>1. disk'[j] = disk[j] /\ (disk[j].type = "free" => disk[j].nlink = 0)
        BY <3>4, <1>u DEF FInv, LinksRight
      <4> QED BY <3>1, <3>4, <4>1, <2>1, <1>16 DEF One
    <3> QED BY <3>2, <3>3, <3>4
  <2> QED BY <2>3 DEF EntryMove
<1>18. LinksRight'
  BY <1>2, <1>3, <1>5, <1>n, <1>14, <1>16, <1>17, LinksEntry
<1> QED BY <1>3, <1>5, <1>6, <1>7, <1>8, <1>10, <1>13, <1>14, <1>15, <1>18, WriteStep

LEMMA CreateLinkKeeps ==
    ASSUME FInv, NEW p \in Procs, CreateLink(p)
    PROVE  FInv'
<1>1. t[p] \in ThreadStates /\ ShapeOf(t[p]) /\ AliveOf(t[p])
  BY ThreadKnown
<1>2. t[p].pc = "create3" /\ t[p].ip \in Inums /\ t[p].dp \in Inums
  BY <1>1 DEF CreateLink, CanLock, ThreadStates, Refs, ShapeOf, At, InIput
<1>v. Puts([Thread EXCEPT !.ip = t[p].ip, !.call = t[p].call], t[p].dp, "created") \in ThreadStates
  <2>1. [Thread EXCEPT !.ip = t[p].ip, !.call = t[p].call] \in ThreadStates
    BY <1>1, ThreadTyped DEF ThreadStates
  <2> QED BY <2>1, <1>2, ThreadTyped, PlacesAre
<1>3. Others(p) /\ t' \in [Procs -> ThreadStates]
  BY <1>v DEF CreateLink, Others, Agree, FInv, FTypes
<1>4. /\ t'[p].pc = "iput" /\ t'[p].call = t[p].call
      /\ t'[p].path = <<>> /\ t'[p].new = <<>>
      /\ t'[p].ip = t[p].ip /\ t'[p].dp = 0
      /\ t'[p].old = 0 /\ t'[p].put = t[p].dp
      /\ t'[p].after = "created"
  BY <1>1, <1>2 DEF CreateLink, Thread, Puts, LastPut, FInv, FTypes, ThreadStates
<1> DEFINE nm == Name(p)
<1>n. nm \in Names
  <2>1. t[p].path \in Seq(Names) /\ t[p].path # <<>>
    BY <1>1, <1>2 DEF ThreadStates, ShapeOf, At, InIput
  <2> QED BY <2>1 DEF Name
<1>i. /\ holder[t[p].ip] = Nobody /\ holder[t[p].dp] = p /\ t[p].ip # t[p].dp
      /\ In(t[p].ip) = disk[t[p].ip] /\ In(t[p].dp) = disk[t[p].dp]
      /\ Known(t[p], t[p].ip) /\ Known(t[p], t[p].dp)
  <2>1. holder[t[p].ip] = Nobody
    BY <1>1, <1>2 DEF CreateLink, CanLock
  <2>2. holder[t[p].dp] = p
    BY <1>1, <1>2, ThreadKnown DEF Holds, At, InIput
  <2> QED BY <2>1, <2>2, <1>2, InRight, InHeld, FilesAssumption DEF Known
<1>e. /\ dir' = [dir EXCEPT ![t[p].dp][nm] = t[p].ip]
      /\ dir[t[p].dp][nm] = 0 /\ disk[t[p].ip].nlink = 0
      /\ disk[t[p].ip].type = "DIR" <=> t[p].call = "mkdir"
  BY <1>2 DEF CreateLink, FInv, CreateRight, Name
<1> DEFINE vi == [disk[t[p].ip] EXCEPT !.nlink = 1]
           vd == IF t[p].call = "mkdir" THEN Links(t[p].dp, 1) ELSE disk[t[p].dp]
<1>v1. /\ vi \in Dinodes /\ vd \in Dinodes
       /\ vi.type = disk[t[p].ip].type /\ vd.type = disk[t[p].dp].type
       /\ vi.nlink = 1
       /\ t[p].call = "mkdir" => vd.nlink = disk[t[p].dp].nlink + 1
       /\ t[p].call # "mkdir" => vd.nlink = disk[t[p].dp].nlink
  <2>1. disk[t[p].ip] \in Dinodes /\ disk[t[p].dp] \in Dinodes
    BY <1>2, <1>i, LinksAre
  <2>2. /\ vi \in Dinodes /\ vi.type = disk[t[p].ip].type /\ vi.nlink = 1
    BY <2>1 DEF Dinodes
  <2>3. /\ Links(t[p].dp, 1) \in Dinodes
        /\ Links(t[p].dp, 1).type = disk[t[p].dp].type
        /\ Links(t[p].dp, 1).nlink = disk[t[p].dp].nlink + 1
    BY <2>1, <1>2, <1>i, LinksAre DEF Dinodes
  <2> HIDE DEF vi
  <2> QED BY <2>1, <2>2, <2>3
<1>v2. /\ vi.nlink = 1
       /\ t[p].call = "mkdir" => vd.nlink = disk[t[p].dp].nlink + 1
       /\ t[p].call # "mkdir" => vd.nlink = disk[t[p].dp].nlink
  BY <1>v1
<1>u. /\ disk' = [j \in Inums |-> IF j = t[p].ip THEN vi ELSE IF j = t[p].dp THEN vd
                                 ELSE disk[j]]
      /\ core' = [j \in Inums |-> IF j = t[p].ip THEN vi ELSE IF j = t[p].dp THEN vd
                                 ELSE core[j]]
  BY <1>2, <1>i DEF CreateLink, IUpdate
<1> HIDE DEF nm, vi, vd
<1>w. Written(p, {t[p].ip, t[p].dp})
  BY <1>2, <1>i, <1>v1, <1>u DEF Written
<1>5. FTypes'
  <2>1. /\ disk' \in [Inums -> Dinodes]
        /\ core' \in [Inums -> Dinodes \cup {NotValid}]
    BY <1>2, <1>u, <1>v1 DEF FInv, FTypes
  <2>2. dir' \in [Inums -> [Names -> Refs]]
    BY <1>2, <1>n, <1>e DEF FInv, FTypes, Refs
  <2>3. UNCHANGED <<ref, fref, fip, ofile>>
    BY DEF CreateLink
  <2>4. holder' = [holder EXCEPT ![t[p].ip] = p, ![t[p].dp] = Nobody]
    BY DEF CreateLink
  <2>5. holder' \in [Inums -> Procs \cup {Nobody}]
    BY <2>4 DEF FInv, FTypes
  <2> QED BY <2>1, <2>2, <2>3, <2>5, <1>3 DEF FInv, FTypes
<1>6. ShapeOf(t'[p])
  BY <1>1, <1>2, <1>4, FilesAssumption DEF CreateLink, ShapeOf, At, InIput, Afters
<1>7. LocksMove(p)
  <2>1. \A i \in Inums : holder[i] = p <=> Holds(t[p], i)
    BY ThreadKnown
  <2>2. Nobody \notin Procs /\ 0 \notin Inums
    BY FilesAssumption
  <2>3. holder \in [Inums -> Procs \cup {Nobody}]
    BY DEF FInv, FTypes
  <2> QED BY <2>1, <2>2, <2>3, <1>1, <1>2, <1>4 DEF CreateLink, LocksMove, Holds, ShapeOf, At, InIput, CanLock
<1>8. RefsMove(p)
  <2>1. ref \in [Inums -> Nat] /\ 0 \notin Inums
    BY FilesAssumption DEF FInv, FTypes
  <2>2. ref' = ref
    BY DEF CreateLink
  <2>3. \A i \in Inums : Own(t'[p], i) = Own(t[p], i)
    BY <2>1, <1>1, <1>2, <1>4 DEF Own, One, ShapeOf, At, InIput
  <2> QED BY <2>1, <2>2, <2>3, OwnTypes DEF RefsMove
<1>10. PointersMove(p)
  BY <1>1, <1>2, <1>4 DEF CreateLink, PointersMove, Source, Known
<1>13. UNCHANGED <<fref, fip, ofile>> /\ t[p].pc # "ifreed"
      /\ t'[p].pc \notin {"ifree", "create3", "unlink2"}
  BY <1>2, <1>4 DEF CreateLink
<1>14. TypesKept /\ CoreWritten /\ DiskMove(p)
  BY <1>w, WrittenMoves
<1>15. DirMove(p)
  BY <1>2, <1>i, <1>e DEF DirMove, FInv, FTypes
<1>16. OneEntry(dir, dir', t[p].dp, nm) /\ dir'[t[p].dp][nm] = t[p].ip /\ dir[t[p].dp][nm] = 0
  BY <1>2, <1>n, <1>e DEF OneEntry, FInv, FTypes
<1>17. EntryMove(p, t[p].dp, nm)
  <2>1. PendingOf(t[p]) = 0 /\ PendingOf(t'[p]) = 0
    BY <1>1, <1>2, <1>4, FilesAssumption DEF PendingOf, ShapeOf, At, InIput
  <2>2. /\ Kind(dir, disk', t[p].dp, nm) <=> FALSE
        /\ Kind(dir', disk', t[p].dp, nm) <=> t[p].call = "mkdir"
    BY <1>2, <1>u, <1>v1, <1>16, <1>e, FilesAssumption DEF Kind
  <2>3. ASSUME NEW j \in Inums
        PROVE  /\ disk'[j].nlink + One(PendingOf(t[p]) = j) + One(dir[t[p].dp][nm] = j)
                        + One(j = t[p].dp /\ Kind(dir, disk', t[p].dp, nm))
                    >= disk[j].nlink + One(PendingOf(t'[p]) = j)
                        + One(dir'[t[p].dp][nm] = j)
                        + One(j = t[p].dp /\ Kind(dir', disk', t[p].dp, nm))
               /\ disk'[j].type = "free" => disk'[j].nlink = 0
    <3>1. j # 0 /\ disk[j].nlink \in Nat
      BY FilesAssumption DEF FInv, FTypes, Dinodes
    <3>2. CASE j = t[p].ip
      <4>1. disk'[j] = vi /\ disk'[j].type # "free" /\ j # t[p].dp
        BY <3>2, <1>2, <1>i, <1>u, <1>v1, KnownAlive
      <4> QED BY <3>1, <3>2, <4>1, <2>1, <2>2, <1>16, <1>v2, <1>e DEF One
    <3>3. CASE j = t[p].dp
      <4>1. disk'[j] = vd /\ disk'[j].type # "free" /\ j # t[p].ip
        BY <3>3, <1>2, <1>i, <1>u, <1>v1, KnownAlive
      <4> QED BY <3>1, <3>3, <4>1, <2>1, <2>2, <1>16, <1>v2, <1>e DEF One
    <3>4. CASE j # t[p].ip /\ j # t[p].dp
      <4>1. disk'[j] = disk[j] /\ (disk[j].type = "free" => disk[j].nlink = 0)
        BY <3>4, <1>u DEF FInv, LinksRight
      <4> QED BY <3>1, <3>4, <4>1, <2>1, <1>16 DEF One
    <3> QED BY <3>2, <3>3, <3>4
  <2> QED BY <2>3 DEF EntryMove
<1>18. LinksRight'
  BY <1>2, <1>3, <1>5, <1>n, <1>14, <1>16, <1>17, LinksEntry
<1> QED BY <1>3, <1>5, <1>6, <1>7, <1>8, <1>10, <1>13, <1>14, <1>15, <1>18, WriteStep

LEMMA CreateAllocKeeps ==
    ASSUME FInv, NEW p \in Procs, NEW i \in Inums, CreateAlloc(p, i)
    PROVE  FInv'
<1>1. t[p] \in ThreadStates /\ ShapeOf(t[p]) /\ AliveOf(t[p])
  BY ThreadKnown
<1>2. t[p].pc = "parent" /\ t[p].dp \in Inums
  BY <1>1 DEF CreateAlloc, CanLock, ThreadStates, Refs, ShapeOf, At, InIput
<1>v. [t[p] EXCEPT !.pc = "create3", !.ip = i] \in ThreadStates
  BY <1>1, PlacesAre DEF ThreadStates
<1>t. t' = [t EXCEPT ![p] = [t[p] EXCEPT !.pc = "create3", !.ip = i]]
  BY DEF CreateAlloc
<1>3. Others(p) /\ t' \in [Procs -> ThreadStates]
  BY <1>t, <1>v DEF Others, Agree, FInv, FTypes
<1>4. /\ t'[p].pc = "create3" /\ t'[p].call = t[p].call
      /\ t'[p].path = t[p].path /\ t'[p].new = t[p].new
      /\ t'[p].ip = i /\ t'[p].dp = t[p].dp
      /\ t'[p].old = t[p].old /\ t'[p].put = t[p].put
      /\ t'[p].after = t[p].after
  BY <1>t, <1>1, <1>2 DEF Thread, Puts, LastPut, FInv, FTypes, ThreadStates
<1>i. /\ holder[t[p].dp] = Nobody /\ In(t[p].dp) = disk[t[p].dp]
      /\ Known(t[p], t[p].dp) /\ disk[i].type = "free" /\ i # t[p].dp /\ i # ROOTINO
      /\ t[p].call \in {"create", "mkdir"} /\ t[p].old = 0
  <2>1. holder[t[p].dp] = Nobody /\ t[p].call \in {"create", "mkdir"}
    BY <1>1, <1>2 DEF CreateAlloc, CanLock
  <2>2. disk[i].type = "free"
    BY DEF CreateAlloc, IsFirstFree
  <2>3. Known(t[p], t[p].dp)
    BY <1>2 DEF Known
  <2>4. i # t[p].dp /\ i # ROOTINO
    BY <1>2, <2>2, <2>3, KnownAlive DEF Source
  <2>5. t[p].old = 0
    BY <1>1, <1>2, <2>1 DEF ShapeOf, At, InIput
  <2> QED BY <2>1, <2>2, <2>3, <2>4, <2>5, <1>2, InRight
<1> DEFINE v == [type |-> IF t[p].call = "mkdir" THEN "DIR" ELSE "FILE", nlink |-> 0]
<1>u. /\ disk' = [disk EXCEPT ![i] = v]
      /\ core' = [core EXCEPT ![t[p].dp] = disk[t[p].dp]]
      /\ ref' = [ref EXCEPT ![i] = @ + 1]
      /\ UNCHANGED <<dir, fref, fip, ofile>>
  <2>1. disk' = [disk EXCEPT ![i] = [Free EXCEPT !.type =
                    IF t[p].call = "mkdir" THEN "DIR" ELSE "FILE"]]
    BY DEF CreateAlloc
  <2>2. [Free EXCEPT !.type = IF t[p].call = "mkdir" THEN "DIR" ELSE "FILE"] = v
    BY DEF Free
  <2>3. core' = [core EXCEPT ![t[p].dp] = In(t[p].dp)]
    BY DEF CreateAlloc
  <2>4. ref' = [ref EXCEPT ![i] = @ + 1] /\ UNCHANGED <<dir, fref, fip, ofile>>
    BY DEF CreateAlloc, IGet
  <2> HIDE DEF v
  <2> QED BY <2>1, <2>2, <2>3, <2>4, <1>i
<1>v2. v \in Dinodes /\ v.type # "free" /\ v.nlink = 0
  BY DEF Dinodes
<1>v3. v.type = IF t[p].call = "mkdir" THEN "DIR" ELSE "FILE"
  OBVIOUS
<1> HIDE DEF v
<1>12. \A j \in Inums :
            /\ j # i => disk'[j] = disk[j]
            /\ j # t[p].dp => core'[j] = core[j]
  BY <1>u DEF FInv, FTypes
<1>13. disk'[i] = v /\ core'[t[p].dp] = disk[t[p].dp]
  BY <1>2, <1>u DEF FInv, FTypes
<1>f. Fresh(i)
  BY <1>i, <1>13, <1>v2 DEF Fresh
<1>5. FTypes'
  <2>1. disk' \in [Inums -> Dinodes] /\ core' \in [Inums -> Dinodes \cup {NotValid}]
    BY <1>2, <1>u, <1>v2 DEF FInv, FTypes
  <2>2. holder' \in [Inums -> Procs \cup {Nobody}]
    BY <1>2 DEF CreateAlloc, FInv, FTypes
  <2> QED BY <2>1, <2>2, <1>3, <1>u DEF FInv, FTypes
<1>6. ShapeOf(t'[p])
  BY <1>1, <1>2, <1>4, <1>i, <1>u, FilesAssumption DEF CreateAlloc, ShapeOf, At, InIput, Afters
<1>7. LocksMove(p)
  <2>1. \A j \in Inums : holder[j] = p <=> Holds(t[p], j)
    BY ThreadKnown
  <2>2. Nobody \notin Procs /\ 0 \notin Inums
    BY FilesAssumption
  <2>3. holder \in [Inums -> Procs \cup {Nobody}]
    BY DEF FInv, FTypes
  <2> QED BY <2>1, <2>2, <2>3, <1>1, <1>2, <1>4, <1>i, <1>u DEF CreateAlloc, LocksMove, Holds, ShapeOf, At, InIput, CanLock
<1>8. RefsMove(p)
  <2>1. ref \in [Inums -> Nat] /\ 0 \notin Inums /\ ROOTINO \in Inums
    BY FilesAssumption DEF FInv, FTypes, ROOTINO
  <2>2. \A j \in Inums : ref'[j] = ref[j] + (IF j = i THEN 1 ELSE 0)
    BY <2>1, <1>i, <1>u
  <2>3. \A j \in Inums : Own(t'[p], j) = Own(t[p], j) + (IF j = i THEN 1 ELSE 0)
    BY <2>1, <1>1, <1>2, <1>4, <1>i DEF Own, One, ShapeOf, At, InIput
  <2> HIDE DEF FInv
  <2> QED BY <2>1, <2>2, <2>3, OwnTypes DEF RefsMove
<1>10. PointersMove(p)
  BY <1>1, <1>2, <1>4, <1>i, <1>u, <1>f DEF CreateAlloc, PointersMove, Source, Known
<1>14. TypesKept /\ CoreWritten /\ DiskMove(p) /\ DirMove(p)
  <2>1. TypesKept
    BY <1>i, <1>12 DEF TypesKept
  <2>2. CoreWritten
    <3>1. disk[t[p].dp].type # "free"
      BY <1>2, <1>i, KnownAlive
    <3> QED BY <3>1, <1>2, <1>i, <1>12, <1>13 DEF CoreWritten
  <2>3. DiskMove(p)
    BY <1>i, <1>12 DEF DiskMove
  <2> QED BY <2>1, <2>2, <2>3, <1>u DEF DirMove
<1>15. LinkMove(p)
  <2>1. PendingOf(t[p]) = 0 /\ PendingOf(t'[p]) = 0
    BY <1>1, <1>2, <1>4, <1>i DEF PendingOf, At, InIput
  <2>4. ASSUME NEW j \in Inums
        PROVE  /\ disk'[j].nlink + One(PendingOf(t[p]) = j)
                        >= disk[j].nlink + One(PendingOf(t'[p]) = j)
               /\ disk'[j].type = "free" => disk'[j].nlink = 0
    <3>1. PendingOf(t[p]) = PendingOf(t'[p])
      BY <2>1
    <3>2. disk[j].nlink \in Nat
      BY DEF FInv, FTypes, Dinodes
    <3>4. disk[j].type = "free" => disk[j].nlink = 0
      BY DEF FInv, LinksRight
    <3>5. disk'[j].nlink = disk[j].nlink
      BY <3>4, <1>i, <1>12, <1>13, <1>v2
    <3>6. disk'[j].type = "free" => disk'[j].nlink = 0
      BY <3>4, <1>12, <1>13, <1>v2
    <3>3. One(PendingOf(t'[p]) = j) \in Nat
      BY DEF One
    <3> QED BY <3>1, <3>2, <3>3, <3>5, <3>6
  <2> QED BY <2>4 DEF LinkMove
<1>16. LinksRight'
  BY <1>3, <1>5, <1>14, <1>15, <1>u, LinksMove
<1>17. CreateOf(p)'
  <2>1. dir'[t'[p].dp][Head(t'[p].path)] = 0
    BY <1>4, <1>u DEF CreateAlloc, Name
  <2>2. t'[p].ip = i /\ i # ROOTINO /\ i # t'[p].dp
    BY <1>4, <1>i
  <2>3. /\ disk'[i].nlink = 0
        /\ disk'[i].type = IF t'[p].call = "mkdir" THEN "DIR" ELSE "FILE"
    BY <1>4, <1>13, <1>v2, <1>v3
  <2>4. ASSUME NEW q \in Procs \ {p}
        PROVE  Unknown(t'[q], i)
    <3>1. t'[q] = t[q]
      BY <1>3 DEF Others, Agree
    <3>2. ShapeOf(t[q]) /\ AliveOf(t[q]) /\ i # 0
      BY ThreadKnown, FilesAssumption
    <3> QED BY <3>1, <3>2, <1>i DEF Unknown, ShapeOf, InIput, AliveOf
  <2>5. \A f \in Files : fip'[f] # i
    BY <1>i, <1>u, FilesAssumption DEF FInv, AliveRight
  <2> QED BY <2>1, <2>2, <2>3, <2>4, <2>5 DEF CreateOf, Unknown, ROOTINO
<1>18. t[p].pc # "ifreed" /\ t'[p].pc \notin {"ifree", "unlink2"}
  BY <1>2, <1>4
<1> QED BY <1>3, <1>5, <1>6, <1>7, <1>8, <1>10, <1>14, <1>16, <1>17, <1>18, <1>u, WriteStep

LEMMA IFreeKeeps ==
    ASSUME FInv, NEW p \in Procs, IFree(p)
    PROVE  FInv'
<1> DEFINE i == t[p].put
<1>1. t[p] \in ThreadStates /\ ShapeOf(t[p]) /\ AliveOf(t[p])
  BY ThreadKnown
<1>2. t[p].pc = "ifree" /\ i \in Inums /\ i # 0 /\ i \notin {t[p].ip, t[p].dp, t[p].old}
  BY <1>1, FilesAssumption DEF IFree, ThreadStates, Refs, ShapeOf, InIput
<1>3. /\ core[i] = disk[i] /\ disk[i].nlink = 0 /\ holder[i] = p
      /\ Alone(p, i) /\ \A d \in Inums, n \in Names : dir[d][n] # i
  <2>1. holder[i] = p
    BY <1>2, ThreadKnown DEF Holds
  <2> QED BY <2>1, <1>2, FreeingAlone DEF FInv, FreeingRight
<1> DEFINE v == [disk[i] EXCEPT !.type = "free"]
<1>4. v \in Dinodes /\ v.type = "free" /\ v.nlink = 0
  <2>1. disk[i] \in Dinodes
    BY <1>2 DEF FInv, FTypes
  <2> QED BY <2>1, <1>3 DEF Dinodes
<1>5. /\ \A j \in Inums : j # i => disk'[j] = disk[j] /\ core'[j] = core[j]
      /\ disk'[i] = v /\ core'[i] = v
      /\ disk' \in [Inums -> Dinodes] /\ core' \in [Inums -> Dinodes \cup {NotValid}]
  <2>1. /\ disk' = [j \in Inums |-> IF j \in {i} THEN v ELSE disk[j]]
        /\ core' = [j \in Inums |-> IF j \in {i} THEN v ELSE core[j]]
    BY <1>3 DEF IFree, IUpdate
  <2> HIDE DEF v, i
  <2> QED BY <2>1, <1>2, <1>4 DEF FInv, FTypes
<1>6. /\ \A d \in Inums : d # i => dir'[d] = dir[d]
      /\ \A n \in Names : dir'[i][n] = 0
      /\ dir' \in [Inums -> [Names -> Refs]]
  <2>1. dir' = [dir EXCEPT ![i] = NoEntries]
    BY DEF IFree
  <2>2. NoEntries \in [Names -> Refs] /\ \A n \in Names : NoEntries[n] = 0
    BY DEF NoEntries, Refs
  <2> HIDE DEF i
  <2> QED BY <2>1, <2>2, <1>2 DEF FInv, FTypes
<1>7. t' = [t EXCEPT ![p] = [t[p] EXCEPT !.pc = "ifreed"]]
  BY DEF IFree
<1>8. [t[p] EXCEPT !.pc = "ifreed"] \in ThreadStates
  BY <1>1, PlacesAre DEF ThreadStates
<1>9. Others(p) /\ t' \in [Procs -> ThreadStates]
  BY <1>7, <1>8 DEF Others, Agree, FInv, FTypes
<1>10. /\ t'[p].pc = "ifreed" /\ t'[p].call = t[p].call
       /\ t'[p].path = t[p].path /\ t'[p].new = t[p].new
       /\ t'[p].ip = t[p].ip /\ t'[p].dp = t[p].dp /\ t'[p].old = t[p].old
       /\ t'[p].put = i /\ t'[p].after = t[p].after
  BY <1>7, <1>1 DEF FInv, FTypes, ThreadStates
<1>11. UNCHANGED <<ref, holder, fref, fip, ofile>>
  BY DEF IFree
<1> HIDE DEF i, v
<1>12. FTypes'
  BY <1>5, <1>6, <1>9, <1>11 DEF FInv, FTypes
<1>13. ShapeOf(t'[p])
  BY <1>1, <1>2, <1>10 DEF ShapeOf, At, InIput
<1>14. LocksMove(p)
  <2>1. \A j \in Inums : holder[j] = p <=> Holds(t[p], j)
    BY ThreadKnown
  <2>2. \A j \in Inums : Holds(t'[p], j) <=> Holds(t[p], j)
    BY <1>2, <1>10 DEF Holds, At, InIput, i
  <2> QED BY <2>1, <2>2, <1>11 DEF LocksMove
<1>15. RefsMove(p)
  <2>1. \A j \in Inums : Own(t'[p], j) = Own(t[p], j) /\ ref[j] \in Nat
    BY <1>10 DEF Own, i, FInv, FTypes
  <2> QED BY <2>1, <1>11, OwnTypes DEF RefsMove
<1>16. PointersMove(p)
  BY <1>10 DEF PointersMove, Known, i
<1>17. DiskMove(p) /\ DirMove(p) /\ FilesMove(p)
  BY <1>2, <1>3, <1>5, <1>6, <1>11 DEF DiskMove, DirMove, FilesMove, Known, i
<1>18. ShapeRight' /\ LocksRight' /\ RefsCounted'
  BY <1>9, <1>11, <1>13, <1>14, <1>15, ShapeStep, LocksStep, RefsStep
<1>19. FreeingRight' /\ UnlinkRight' /\ CreateRight'
  BY <1>9, <1>10, <1>13, <1>15, <1>16, <1>17, FreeingMove, UnlinkMove, CreateMove
<1>20. \A q \in Procs : q # p => t'[q] = t[q]
  BY <1>9 DEF Others, Agree
<1>21. CoreRight'
  <2>1. ASSUME NEW j \in Inums, core'[j] # NotValid
        PROVE  \/ core'[j] = disk'[j] /\ disk'[j].type # "free"
               \/ \E q \in Procs : t'[q].pc = "ifreed" /\ t'[q].put = j
    <3>1. CASE j = i
      BY <3>1, <1>10
    <3>2. CASE j # i
      <4>1. disk'[j] = disk[j] /\ core'[j] = core[j]
        BY <3>2, <1>5
      <4>2. CASE core[j] = disk[j] /\ disk[j].type # "free"
        BY <4>1, <4>2
      <4>3. CASE \E q \in Procs : t[q].pc = "ifreed" /\ t[q].put = j
        BY <4>3, <1>2, <1>20
      <4> QED BY <2>1, <4>1, <4>2, <4>3 DEF FInv, CoreRight
    <3> QED BY <3>1, <3>2
  <2> QED BY <2>1 DEF CoreRight
<1>22. AliveRight'
  <2>1. ASSUME NEW q \in Procs
        PROVE  /\ t'[q].ip # 0 => disk'[t'[q].ip].type # "free"
               /\ t'[q].dp # 0 => disk'[t'[q].dp].type # "free"
               /\ t'[q].old # 0 => disk'[t'[q].old].type = "FILE"
               /\ t'[q].pc \in {"iput", "ifree"} => disk'[t'[q].put].type # "free"
    <3>1. t[q] \in ThreadStates /\ ShapeOf(t[q]) /\ AliveOf(t[q])
      BY ThreadKnown
    <3>2. CASE q = p
      BY <3>1, <3>2, <1>2, <1>5, <1>10 DEF AliveOf, ThreadStates, Refs
    <3>3. CASE q # p
      <4>1. t[q].ip # i /\ t[q].dp # i /\ t[q].old # i /\ t[q].put # i /\ t'[q] = t[q]
        BY <3>3, <1>3, <1>20 DEF Alone
      <4> QED BY <3>1, <4>1, <1>5 DEF AliveOf, ThreadStates, Refs, ShapeOf, InIput
    <3> QED BY <3>2, <3>3
  <2>2. \A f \in Files : fip'[f] # 0 => disk'[fip'[f]].type # "free"
    BY <1>3, <1>5, <1>11 DEF Alone, FInv, FTypes, Refs, AliveRight
  <2>3. disk'[ROOTINO].type # "free"
    BY <1>3, <1>5, FilesAssumption DEF Alone, FInv, AliveRight, ROOTINO
  <2> QED BY <2>1, <2>2, <2>3 DEF AliveRight, AliveOf, ROOTINO
<1>23. LinksRight'
  <2>1. ASSUME NEW j \in Inums
        PROVE  /\ disk'[j].nlink >= Named(dir', j) + Kids(dir', disk', j) + Pending(t', j)
               /\ disk'[j].type = "free" => disk'[j].nlink = 0
    <3>1. disk'[j].nlink = disk[j].nlink /\ disk[j].nlink \in Nat
      BY <1>3, <1>4, <1>5 DEF FInv, FTypes, Dinodes
    <3>2. Pending(t', j) = Pending(t, j)
      <4>1. PendingOf(t'[p]) = PendingOf(t[p])
        BY <1>2, <1>10 DEF PendingOf, At, InIput
      <4> QED BY <4>1, <1>9, PendingSame DEF Others
    <3>3. Named(dir', j) <= Named(dir, j) /\ Named(dir', j) \in Nat
      <4>1. IsFiniteSet(Inums \X Names) /\ j # 0
        BY FilesAssumption, FS_Product
      <4>2. Fewer(Inums \X Names, Entries(dir), Entries(dir'), j)
        BY <4>1, <1>6 DEF Fewer, Entries
      <4> QED BY <4>1, <4>2, CountFewer DEF Named
    <3>4. Kids(dir', disk', j) <= Kids(dir, disk, j) /\ Kids(dir', disk', j) \in Nat
      <4>1. IsFiniteSet(Names)
        BY FilesAssumption
      <4>2. ASSUME NEW n \in Names, KindIn(dir', disk', j)[n] = "DIR"
            PROVE  KindIn(dir, disk, j)[n] = "DIR"
        <5>1. dir'[j][n] # 0 /\ disk'[dir'[j][n]].type = "DIR"
          BY <4>2 DEF KindIn
        <5>2. j # i /\ dir'[j][n] = dir[j][n] /\ dir[j][n] # i
          BY <5>1, <1>3, <1>6
        <5>3. dir[j][n] \in Inums
          BY <5>1, <5>2 DEF FInv, FTypes, Refs
        <5>4. disk'[dir[j][n]] = disk[dir[j][n]]
          BY <5>2, <5>3, <1>5
        <5> QED BY <5>1, <5>2, <5>4 DEF KindIn
      <4>3. Fewer(Names, KindIn(dir, disk, j), KindIn(dir', disk', j), "DIR")
        BY <4>2 DEF Fewer
      <4> QED BY <4>1, <4>3, CountFewer DEF Kids
    <3>5. /\ disk[j].nlink >= Named(dir, j) + Kids(dir, disk, j) + Pending(t, j)
          /\ Named(dir, j) \in Nat /\ Kids(dir, disk, j) \in Nat /\ Pending(t, j) \in Nat
      BY LinkCounts DEF FInv, LinksRight
    <3>6. disk'[j].type = "free" => disk'[j].nlink = 0
      BY <1>4, <1>5 DEF FInv, LinksRight
    <3> QED BY <3>1, <3>2, <3>3, <3>4, <3>5, <3>6
  <2> QED BY <2>1 DEF LinksRight
<1>24. FilesRight'
  BY <1>11 DEF FInv, FilesRight
<1> QED BY <1>12, <1>18, <1>19, <1>21, <1>22, <1>23, <1>24 DEF FInv

-----------------------------------------------------------------------------
(* The invariant.                                                          *)

LEMMA FInit == Init => FInv
<1> SUFFICES ASSUME Init PROVE FInv
  OBVIOUS
<1>1. /\ disk = [i \in Inums |-> IF i = ROOTINO THEN [type |-> "DIR", nlink |-> 1]
                                ELSE Free]
      /\ dir = [i \in Inums |-> NoEntries]
      /\ core = [i \in Inums |-> NotValid]
      /\ ref = [i \in Inums |-> IF i = ROOTINO THEN 1 ELSE 0]
      /\ holder = [i \in Inums |-> Nobody]
      /\ fref = [f \in Files |-> 0] /\ fip = [f \in Files |-> 0]
      /\ ofile = [p \in Procs |-> [d \in FDs |-> 0]]
      /\ t = [p \in Procs |-> Thread]
  BY DEF Init
<1>2. /\ Thread.pc = "idle" /\ Thread.ip = 0 /\ Thread.dp = 0 /\ Thread.old = 0
      /\ Thread.put = 0 /\ Thread \in ThreadStates
  BY ThreadTyped DEF Thread
<1>3. /\ 0 \notin Inums /\ 0 \notin Files /\ Nobody \notin Procs /\ ROOTINO \in Inums
      /\ IsFiniteSet(Procs) /\ IsFiniteSet(Names) /\ IsFiniteSet(Inums \X Names)
  BY FilesAssumption, FS_Product DEF Files, ROOTINO
<1>4. /\ \A i \in Inums, n \in Names : dir[i][n] = 0
      /\ \A i \in Inums : disk[i].type = "free" => disk[i].nlink = 0
      /\ \A i \in Inums : disk[i].nlink \in Nat
      /\ disk[ROOTINO].type = "DIR"
  BY <1>1, <1>3 DEF NoEntries, Free
<1>5. FTypes
  <2>1. disk \in [Inums -> Dinodes]
    BY <1>1 DEF Free, Dinodes
  <2>2. dir \in [Inums -> [Names -> Refs]]
    BY <1>1 DEF NoEntries, Refs
  <2>3. t \in [Procs -> ThreadStates]
    BY <1>1, <1>2
  <2> QED BY <2>1, <2>2, <2>3, <1>1 DEF FTypes, Refs
<1>6. ShapeRight /\ LocksRight /\ FilesRight
  <2>1. \A p \in Procs : t[p] = Thread
    BY <1>1
  <2>2. ShapeOf(Thread) /\ \A i : ~Holds(Thread, i)
    BY <1>2 DEF ShapeOf, Holds, At, InIput
  <2>3. ShapeRight
    BY <2>1, <2>2, Zenon DEF ShapeRight
  <2>4. ASSUME NEW p \in Procs, NEW i \in Inums
        PROVE  holder[i] = p <=> Holds(t[p], i)
    BY <2>1, <2>2, <1>1, <1>3
  <2>5. FilesRight
    BY <1>1 DEF FilesRight
  <2> QED BY <2>3, <2>4, <2>5 DEF LocksRight
<1>7. RefsCounted
  <2>1. ASSUME NEW i \in Inums
        PROVE  ref[i] = Total(t, i) + OpenOn(fip, i) + One(i = ROOTINO)
    <3>1. \A p \in Procs : /\ Ips(t)[p] # i /\ Dps(t)[p] # i /\ Olds(t)[p] # i
                           /\ PutsOf(t)[p] # i
      BY <1>1, <1>2, <1>3 DEF Ips, Dps, Olds, PutsOf
    <3>2. /\ Count(Procs, Ips(t), i) = 0 /\ Count(Procs, Dps(t), i) = 0
          /\ Count(Procs, Olds(t), i) = 0 /\ Count(Procs, PutsOf(t), i) = 0
      BY <3>1, <1>3, CountZero
    <3>3. OpenOn(fip, i) = 0
      BY <1>1, <1>3, FinitelyMany, CountZero DEF OpenOn
    <3>4. ref[i] = One(i = ROOTINO)
      BY <1>1 DEF One
    <3>5. One(i = ROOTINO) \in Nat
      BY DEF One
    <3> QED BY <3>2, <3>3, <3>4, <3>5 DEF Total
  <2>2. ASSUME NEW f \in Files
        PROVE  fref[f] = Count(Rows, Slots(ofile), f)
    <3>1. \A x \in Rows : Slots(ofile)[x] # f
      BY <1>1, <1>3 DEF Slots, Rows
    <3> QED BY <3>1, <1>1, FinitelyMany, CountZero
  <2> QED BY <2>1, <2>2, RefsAre
<1>8. LinksRight
  <2>1. ASSUME NEW i \in Inums
        PROVE  Named(dir, i) = 0 /\ Kids(dir, disk, i) = 0 /\ Pending(t, i) = 0
    <3>1. Named(dir, i) = 0
      <4>1. \A x \in Inums \X Names : Entries(dir)[x] # i
        BY <1>3, <1>4 DEF Entries
      <4> QED BY <4>1, <1>3, CountZero DEF Named
    <3>2. Kids(dir, disk, i) = 0
      <4>1. \A n \in Names : KindIn(dir, disk, i)[n] # "DIR"
        BY <1>4 DEF KindIn
      <4> QED BY <4>1, <1>3, CountZero DEF Kids
    <3>3. Pending(t, i) = 0
      <4>1. \A p \in Procs : PendingOf(t[p]) = 0
        BY <1>1, <1>2 DEF PendingOf, At, InIput
      <4>2. \A p \in Procs : [q \in Procs |-> PendingOf(t[q])][p] # i
        BY <4>1, <1>3
      <4> QED BY <4>2, <1>3, CountZero DEF Pending
    <3> QED BY <3>1, <3>2, <3>3
  <2> QED BY <2>1, <1>4 DEF LinksRight
<1>9. CoreRight /\ FreeingRight /\ UnlinkRight /\ CreateRight
  BY <1>1, <1>2 DEF CoreRight, FreeingRight, UnlinkRight, CreateRight
<1>10. AliveRight
  BY <1>1, <1>2, <1>4 DEF AliveRight, AliveOf
<1> QED BY <1>5, <1>6, <1>7, <1>8, <1>9, <1>10 DEF FInv

\* iput(), whichever way it goes.
LEMMA IPutKeeps ==
    ASSUME FInv, NEW p \in Procs, IPut(p)
    PROVE  FInv'
<1>1. CASE IPutLock(p)
  <2>1. core[t[p].put] # NotValid /\ core[t[p].put].nlink = 0 /\ ref[t[p].put] = 1
            => FInv'
    BY <1>1, IPutLockFreeKeeps
  <2>2. ~(core[t[p].put] # NotValid /\ core[t[p].put].nlink = 0 /\ ref[t[p].put] = 1)
            => FInv'
    BY <1>1, IPutLockRefKeeps
  <2> QED BY <2>1, <2>2
<1>2. CASE IFree(p)
  BY <1>2, IFreeKeeps
<1>3. CASE IFreed(p)
  BY <1>3, IFreedKeeps
<1>4. CASE IRef(p)
  BY <1>4, IRefLastKeeps, IRefOnKeeps
<1> QED BY <1>1, <1>2, <1>3, <1>4 DEF IPut

LEMMA SysCallKeeps ==
    ASSUME FInv, NEW p \in Procs, SysCall(p)
    PROVE  FInv'
<1>1. ASSUME NEW call \in {"open", "create", "mkdir", "unlink"}, NEW path \in Paths,
             Begin(p, call, path, <<>>)
      PROVE  FInv'
  <2>1. call \in Calls \ {"none"} /\ (call = "link" => <<>> # <<>>)
    BY DEF Calls
  <2> QED BY <2>1, <1>1, BeginKeeps
<1>2. ASSUME NEW path \in Paths, NEW new \in LinkPaths, Begin(p, "link", path, new)
      PROVE  FInv'
  <2>1. "link" \in Calls \ {"none"} /\ new \in Paths /\ new # <<>>
    BY FilesAssumption DEF Calls
  <2> QED BY <2>1, <1>2, BeginKeeps
<1> QED BY <1>1, <1>2 DEF SysCall

LEMMA OpenLockKeeps ==
    ASSUME FInv, NEW p \in Procs, OpenLock(p)
    PROVE  FInv'
<1>1. \/ holder' = [holder EXCEPT ![t[p].ip] = p] /\ t' = [t EXCEPT ![p] = Opened(t[p].ip)]
      \/ UNCHANGED holder /\ t' = [t EXCEPT ![p] = LastPut(t[p].ip)]
  BY DEF OpenLock
<1> QED BY <1>1, OpenLockDoneKeeps, OpenLockRefusedKeeps

LEMMA FNext == FInv /\ [Next]_vars => FInv'
<1> SUFFICES ASSUME FInv, [Next]_vars
             PROVE  FInv'
  OBVIOUS
<1>1. ASSUME NEW p \in Procs, SysCall(p) \/ Namex(p) \/ IPut(p)
      PROVE  FInv'
  BY <1>1, SysCallKeeps, NamexFailKeeps, NamexParentKeeps, NamexNextKeeps, IPutKeeps
     DEF Namex
<1>2. ASSUME NEW p \in Procs, SysUnlink(p)
      PROVE  FInv'
  BY <1>2, UnlinkMissingKeeps, UnlinkFoundKeeps, UnlinkRefuseKeeps, UnlinkBadKeeps,
     UnlinkEraseKeeps, UnlinkEndKeeps DEF SysUnlink
<1>3. ASSUME NEW p \in Procs, Create(p)
      PROVE  FInv'
  BY <1>3, CreateFoundKeeps, CreateOpensKeeps, CreateExistsKeeps, CreateAllocKeeps,
     CreatePanicKeeps, CreateLinkKeeps, CreatedDirKeeps, CreatedFileKeeps DEF Create
<1>4. ASSUME NEW p \in Procs, SysLink(p)
      PROVE  FInv'
  BY <1>4, LinkCountDirKeeps, LinkCountFileKeeps, LinkTakenKeeps, LinkPutKeeps,
     LinkBadKeeps, LinkMadeKeeps, LinkEndKeeps DEF SysLink
<1>5. ASSUME NEW p \in Procs, SysFile(p)
      PROVE  FInv'
  BY <1>5, OpenLockKeeps, OpenFailKeeps, OpenDoneKeeps, SysCloseKeeps, ForkFilesKeeps
     DEF SysFile
<1>6. CASE UNCHANGED vars
  <2>1. UNCHANGED <<disk, dir, core, ref, holder, fref, fip, ofile, t>>
    BY <1>6 DEF vars
  <2> QED BY <2>1 DEF FInv, FTypes, ShapeRight, LocksRight, RefsCounted, Pointers,
             FilesRight, LinksRight, CoreRight, AliveRight, AliveOf, FreeingRight,
             UnlinkRight, CreateRight, Unknown
<1> QED BY <1>1, <1>2, <1>3, <1>4, <1>5, <1>6 DEF Next

-----------------------------------------------------------------------------
(* What follows from it.                                                   *)

\* LinksCounted in the terms of the invariant.
LEMMA LinksCountedRight == FInv => LinksCounted
<1> SUFFICES ASSUME FInv, NEW i \in Inums
             PROVE  LET E == {x \in Inums \X Names : dir[x[1]][x[2]] = i}
                    IN  E # {} => disk[i].type # "free" /\ disk[i].nlink >= Cardinality(E)
  BY DEF LinksCounted
<1> DEFINE E == {x \in Inums \X Names : dir[x[1]][x[2]] = i}
<1>1. Cardinality(E) = Named(dir, i)
  <2>1. E = {x \in Inums \X Names : Entries(dir)[x] = i}
    BY DEF Entries
  <2> HIDE DEF E
  <2>2. Named(dir, i) = Cardinality({x \in Inums \X Names : Entries(dir)[x] = i})
    BY DEF Named, Count
  <2> QED BY <2>1, <2>2, Zenon
<1>2. disk[i].nlink >= Cardinality(E)
  <2>1. /\ disk[i].nlink >= Named(dir, i) + Kids(dir, disk, i) + Pending(t, i)
        /\ Named(dir, i) \in Nat /\ Kids(dir, disk, i) \in Nat /\ Pending(t, i) \in Nat
    BY LinkCounts DEF FInv, LinksRight
  <2>2. disk[i].nlink \in Nat
    BY DEF FInv, FTypes, Dinodes
  <2> HIDE DEF E
  <2> QED BY <1>1, <2>1, <2>2
<1>3. E # {} => disk[i].type # "free"
  <2>1. \A d \in Inums, n \in Names : dir[d][n] = i => disk[i].type # "free"
    BY LinksBound DEF FInv
  <2> QED BY <2>1
<1> QED BY <1>2, <1>3

LEMMA FreesUnusedRight == FInv => FreesUnused
<1> SUFFICES ASSUME FInv, NEW p \in Procs, t[p].pc = "ifree"
             PROVE  /\ \A d \in Inums, n \in Names : dir[d][n] # t[p].put
                    /\ \A f \in Files : fip[f] # t[p].put
                    /\ ref[t[p].put] = 1
  BY DEF FreesUnused
<1>1. ref[t[p].put] = 1
  BY DEF FInv, FreeingRight
<1> QED BY <1>1, FreeingAlone DEF Alone

LEMMA CoherentRight == FInv => Coherent
BY InRight DEF Coherent

\* A thread that waits for a lock finds the inode allocated.
LEMMA NoPanicRight == FInv => NoPanic
<1> SUFFICES ASSUME FInv, NEW p \in Procs, Wants(p) # 0, t[p].pc # "iput",
                    holder[Wants(p)] = Nobody
             PROVE  /\ In(Wants(p)).type # "free"
                    /\ t[p].pc = "unlink2" => In(Wants(p)).nlink > 0
  BY DEF NoPanic
<1>1. t[p] \in ThreadStates /\ ShapeOf(t[p]) /\ AliveOf(t[p])
  BY ThreadKnown
<1>2. /\ t[p].pc \in {"walk", "unlink2", "create2", "create3", "open1", "link1"} =>
            Wants(p) = t[p].ip
      /\ t[p].pc = "parent" => Wants(p) = t[p].dp
      /\ t[p].pc = "linkbad" => Wants(p) = t[p].old
      /\ t[p].pc \in {"walk", "unlink2", "create2", "create3", "open1", "link1",
                      "parent", "linkbad"}
  BY DEF Wants
<1>3. Wants(p) \in Inums /\ disk[Wants(p)].type # "free"
  BY <1>1, <1>2 DEF AliveOf, ThreadStates, Refs
<1>4. In(Wants(p)) = disk[Wants(p)]
  BY <1>3, InRight
<1>5. t[p].pc = "unlink2" => disk[Wants(p)].nlink > 0
  <2> SUFFICES ASSUME t[p].pc = "unlink2"
               PROVE  disk[Wants(p)].nlink > 0
    OBVIOUS
  <2>1. dir[t[p].dp][Head(t[p].path)] = Wants(p)
    BY <1>2 DEF FInv, UnlinkRight
  <2>2. t[p].dp \in Inums /\ Head(t[p].path) \in Names
    BY <1>1 DEF ThreadStates, Refs, ShapeOf, At, InIput
  <2>3. disk[Wants(p)].nlink \in Nat /\ disk[Wants(p)].nlink >= 1
    BY <2>1, <2>2, <1>3, LinksBound DEF FInv
  <2> QED BY <2>3
<1> QED BY <1>3, <1>4, <1>5

-----------------------------------------------------------------------------
(* The invariant holds of every behaviour, with the properties.            *)

\* The inductive invariant: the locks and pointers of every call are those its
\* place asks for, and the counts, the cache and the directories fit them.
THEOREM FilesInvariant == Spec => []FInv
<1> QED BY FInit, FNext, PTL DEF Spec

\* At any place of any calls, iget() and iput() have counted every pointer to an
\* inode once, filedup() and fileclose() every descriptor, and nlink is not below
\* the number of directory entries.
THEOREM FilesCountsRight == Spec => []CountsRight
<1>1. FInv => CountsRight
  BY LinksCountedRight DEF CountsRight, FInv
<1> QED BY <1>1, FilesInvariant, PTL

\* When iput() frees an inode no directory names it and no file or call has it.
THEOREM FilesFreesUnused == Spec => []FreesUnused
<1> QED BY FreesUnusedRight, FilesInvariant, PTL

\* The valid fields of an unlocked inode are those on the disk, also while
\* ialloc() takes an inode that iput() has just freed.
THEOREM FilesCoherent == Spec => []Coherent
<1> QED BY CoherentRight, FilesInvariant, PTL

\* No ilock() panics for an inode freed under it, and no sys_unlink() for one
\* without links.
THEOREM FilesNoPanic == Spec => []NoPanic
<1> QED BY NoPanicRight, FilesInvariant, PTL

=============================================================================

------------------------------- MODULE UserHeap ------------------------------
(***************************************************************************)
(* malloc() and free() of the user library (umalloc.c): a ring of free     *)
(* blocks sorted by address, searched first fit from freep.  The allocator *)
(* has no lock and a process has one thread, so a call is one step.        *)
(*                                                                         *)
(* Addresses are counted in headers.  Address 0 is the static header base, *)
(* below the heap; the heap starts at 1 and grows by sbrk(), which may     *)
(* fail, and which the program may also call for itself.                   *)
(***************************************************************************)
EXTENDS Integers, FiniteSets

CONSTANTS
    HeaderSize,         \* sizeof(Header)
    MinUnits,           \* the 4096 of morecore()
    MaxBreak,           \* where sbrk() always fails
    Requests,           \* arguments of malloc(), in bytes
    Gaps                \* arguments of the program's own sbrk(), in headers

Base == 0
Null == -1
Units == 0..MaxBreak

ASSUME UserHeapAssumption ==
    /\ {HeaderSize, MinUnits, MaxBreak} \subseteq Nat \ {0}
    /\ Requests \subseteq Nat /\ Gaps \subseteq Nat \ {0}

VARIABLES
    ring,           \* the headers [ptr, size] and freep
    brk,            \* the end of the heap
    core,           \* the units morecore() was given
    lent            \* the blocks the program has, each by its header

heapVars == <<ring, brk, core, lent>>

HeapInit ==
    /\ ring = [ptr |-> [a \in Units |-> Base], size |-> [a \in Units |-> 0],
               freep |-> Null]
    /\ brk = 1
    /\ core = {}
    /\ lent = {}

\* The block reached from freep by following k pointers.
Nth(r) ==
    LET at[k \in 0..(MaxBreak + 1)] ==
            IF k = 0 THEN r.freep ELSE r.ptr[at[k - 1]]
    IN  at

\* The first k from lo on for which P holds.
FirstFrom(lo, P(_)) ==
    CHOOSE k \in lo..(MaxBreak + 1) :
        P(k) /\ \A j \in lo..(k - 1) : ~P(j)

\* Mutant: the block above is not joined.
JoinedAboveNever(r, bp, p) == [r EXCEPT !.ptr[bp] = r.ptr[p]]

JoinedAbove(r, bp, p) ==
    IF bp + r.size[bp] = r.ptr[p]
    THEN [r EXCEPT !.size[bp] = @ + r.size[r.ptr[p]],
                   !.ptr[bp] = r.ptr[r.ptr[p]]]
    ELSE [r EXCEPT !.ptr[bp] = r.ptr[p]]

JoinedBelow(r, bp, p) ==
    IF p + r.size[p] = bp
    THEN [r EXCEPT !.size[p] = @ + r.size[bp], !.ptr[p] = r.ptr[bp]]
    ELSE [r EXCEPT !.ptr[p] = bp]

\* free() of the block whose header is bp: the place p of the ring it goes
\* after is the first where it fits or where the ring turns over.
Freed(r, bp) ==
    LET Fits(k) == LET p == Nth(r)[k]
                       q == r.ptr[p]
                   IN  \/ bp > p /\ bp < q
                       \/ p >= q /\ (bp > p \/ bp < q)
        p == Nth(r)[FirstFrom(0, Fits)]
    IN  [JoinedBelow(JoinedAbove(r, bp, p), bp, p) EXCEPT !.freep = p]

\* morecore(), when sbrk() gives it the units from b on.
Morecore(r, nu, b) == Freed([r EXCEPT !.size[b] = nu], b)
CoreUnits(nunits) == IF nunits < MinUnits THEN MinUnits ELSE nunits

Started(r) == IF r.freep # Null THEN r
              ELSE [r EXCEPT !.ptr[Base] = Base, !.size[Base] = 0,
                             !.freep = Base]

\* One turn around the ring: k = 1 .. the one that comes back to freep.
Turn(r) ==
    1..FirstFrom(1, LAMBDA k : Nth(r)[k] = r.freep)
HasFit(r, n) == \E k \in Turn(r) : r.size[Nth(r)[k]] >= n

\* The first block of enough units: taken out, or its end cut off.
Carved(r, n) ==
    LET k == FirstFrom(1, LAMBDA j : r.size[Nth(r)[j]] >= n)
        p == Nth(r)[k]
        prevp == Nth(r)[k - 1]
        rest == r.size[p] - n
    IN  IF rest = 0
        THEN [ring |-> [r EXCEPT !.ptr[prevp] = r.ptr[p], !.freep = prevp],
              block |-> p]
        ELSE [ring |-> [r EXCEPT !.size[p] = rest, !.size[p + rest] = n,
                                 !.freep = prevp],
              block |-> p + rest]

\* What was a header and now lies inside a block is memory of that block: the
\* pointer of a lent block and the header of a joined one are forgotten.
Tidy(r, out) ==
    LET free == {Nth(r)[k] : k \in Turn(r)} IN
    [r EXCEPT !.ptr = [a \in Units |-> IF a \in free THEN @[a] ELSE Base],
              !.size = [a \in Units |-> IF a \in free \cup out THEN @[a]
                                        ELSE 0]]

Nunits(nbytes) == (nbytes + HeaderSize - 1) \div HeaderSize + 1

Malloc(nbytes) ==
    LET n == Nunits(nbytes)
        r == Started(ring)
        nu == CoreUnits(n)
    IN  \/ /\ HasFit(r, n)
           /\ lent' = lent \cup {Carved(r, n).block}
           /\ ring' = Tidy(Carved(r, n).ring, lent')
           /\ UNCHANGED <<brk, core>>
        \/ /\ ~HasFit(r, n)
           /\ brk + nu <= MaxBreak
           /\ LET c == Carved(Morecore(r, nu, brk), n) IN
                /\ lent' = lent \cup {c.block}
                /\ ring' = Tidy(c.ring, lent')
           /\ brk' = brk + nu
           /\ core' = core \cup brk..(brk + nu - 1)
        \/ /\ ~HasFit(r, n)         \* sbrk() fails, here or earlier
           /\ ring' = r
           /\ UNCHANGED <<brk, core, lent>>

Free(bp) ==
    /\ bp \in lent
    /\ lent' = lent \ {bp}
    /\ ring' = Tidy(Freed(ring, bp), lent')
    /\ UNCHANGED <<brk, core>>

\* The program's own sbrk() leaves a gap in what morecore() gets.
OwnSbrk(n) ==
    /\ brk + n <= MaxBreak
    /\ brk' = brk + n
    /\ UNCHANGED <<ring, core, lent>>

HeapNext ==
    \/ \E nbytes \in Requests : Malloc(nbytes)
    \/ \E bp \in lent : Free(bp)
    \/ \E n \in Gaps : OwnSbrk(n)

-----------------------------------------------------------------------------
UnitsOf(a) == a..(a + ring.size[a] - 1)

\* Over any sequence of calls, failed sbrk() calls and gaps the free blocks
\* form one ring in address order with a gap between any two of them (all
\* neighbours joined), and the free and the lent blocks divide up exactly
\* what morecore() got: nothing overlaps and nothing is lost.
HeapSound ==
    LET r == Started(ring)
        free == {Nth(r)[k] : k \in Turn(r)}
        blocks == (free \cup lent) \ {Base}
    IN  /\ Base \in free
        /\ free \cap lent = {}
        /\ \A a \in free : a + r.size[a] < r.ptr[a] \/ r.ptr[a] = Base
        /\ UNION {UnitsOf(a) : a \in blocks} = core
        /\ \A a, b \in blocks : a # b => UnitsOf(a) \cap UnitsOf(b) = {}
=============================================================================

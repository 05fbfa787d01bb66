---------------------------------- MODULE VM ---------------------------------
(***************************************************************************)
(* Physical pages and address spaces (kalloc.c, vm.c, exec.c, growproc()   *)
(* and the memory part of fork() and wait()).                              *)
(*                                                                         *)
(* A page table belongs to one process, and the free list is locked around *)
(* each kalloc() and kfree(), so calls of different processes meet only in *)
(* how many pages are left.  A call is one step, then, with a budget: what *)
(* it finds on the free list before the calls of others have taken the     *)
(* rest.  The free list is kept as the number of times each page is on it, *)
(* so that a page freed twice shows; kalloc() takes the least page (which  *)
(* page is the head of the list makes no difference to the properties).    *)
(* One page stands for the tables of the kernel's half of an address       *)
(* space.  Sizes are counted in words, addresses wrap at Modulus, and what *)
(* a page holds is left out.                                               *)
(***************************************************************************)
EXTENDS Integers, Sequences, FiniteSets, SequencesExt

CONSTANTS
    Procs, InitProc,        \* slots of the process table, the first process
    NPAGES,                 \* physical pages after the kernel's end
    PGSIZE, NPTENTRIES,     \* words in a page, entries in a page table
    KERNBASE,               \* words of user space: a number of whole tables
    Modulus,                \* 2^32
    Budgets,                \* pages a call may find, at least
    ExecCalls,              \* [segs, args]: the program headers, each a
                            \* [vaddr, filesz, memsz, short], and the lengths
                            \* of what is pushed: strings, then ustack
    MAXARG,
    Increments              \* arguments of sbrk()

Pages == 1..NPAGES
NoPage == 0
VPNs == 0..(KERNBASE \div PGSIZE - 1)
PDX(v) == v \div NPTENTRIES
Tables == {PDX(v) : v \in VPNs}
PageOf(a) == a \div PGSIZE
PGROUNDUP(a) == ((a + PGSIZE - 1) \div PGSIZE) * PGSIZE

ASSUME VMAssumption ==
    /\ InitProc \in Procs
    /\ {NPAGES, PGSIZE, NPTENTRIES} \subseteq Nat \ {0}
    /\ KERNBASE % (PGSIZE * NPTENTRIES) = 0
    /\ Modulus > KERNBASE

VARIABLES
    freelist,       \* how often a page is on kmem.freelist
    space,          \* p->pgdir and the tables below it
    sz, kstack,     \* fields of struct proc
    slot,           \* "unused", "used" or "zombie"
    kpgdir,         \* the kernel's own page table
    panicked

vmVars == <<freelist, space, sz, kstack, slot, kpgdir, panicked>>

NoSpace == [dir |-> NoPage, ktab |-> NoPage,
            tab |-> [t \in Tables |-> NoPage],
            pte |-> [v \in VPNs |-> NoPage],
            user |-> {}]

-----------------------------------------------------------------------------
(* The functions of vm.c act on a memory m: the free list and what is left *)
(* of the budget, one address space, the size they return (0 for failure). *)

Memory(f, b, s, n) ==
    [free |-> f, left |-> b, space |-> s, size |-> n,
     ok |-> TRUE, panic |-> FALSE]
Failed(m) == [m EXCEPT !.ok = FALSE, !.size = 0]

Kalloc(m) == IF m.left = 0 \/ \A q \in Pages : m.free[q] = 0 THEN NoPage
             ELSE CHOOSE q \in Pages : /\ m.free[q] > 0
                                       /\ \A r \in 1..(q - 1) : m.free[r] = 0
Taken(m, q) == [m EXCEPT !.free[q] = @ - 1, !.left = @ - 1]
Kfree(m, q) == [m EXCEPT !.free[q] = @ + 1]

\* The free list f with the pages at[x] of every x in S put back.
KfreeAll(f, S, at) ==
    [q \in Pages |-> f[q] + Cardinality({x \in S : at[x] = q})]

\* walkpgdir() with alloc: the page table that holds the entry of v.
Walkpgdir(m, v) ==
    CASE m.space.tab[PDX(v)] # NoPage -> m
      [] m.space.tab[PDX(v)] = NoPage /\ Kalloc(m) = NoPage -> Failed(m)
      [] OTHER -> [Taken(m, Kalloc(m)) EXCEPT !.space.tab[PDX(v)] = Kalloc(m)]

\* mappages() of one page, once the table is there.
Entered(m, v, q, flags) ==
    CASE ~m.ok -> m
      [] m.ok /\ m.space.pte[v] # NoPage -> [m EXCEPT !.panic = TRUE]
      [] OTHER -> [m EXCEPT !.space.pte[v] = q, !.space.user = @ \cup flags]
Mappages(m, v, q, flags) == Entered(Walkpgdir(m, v), v, q, flags)

\* Mutant: the page itself is not freed when its table cannot be had.
UnlessMappedLeak(m, q) == m

UnlessMapped(m, q) == IF m.ok THEN m ELSE Kfree(m, q)

\* One turn of the loops of allocuvm() and copyuvm().
AddPage(m, v, flags) ==
    IF ~m.ok \/ Kalloc(m) = NoPage THEN Failed(m)
    ELSE UnlessMapped(Mappages(Taken(m, Kalloc(m)), v, Kalloc(m), flags),
                      Kalloc(m))

\* The page numbers of the addresses from, from + PGSIZE, ... below to.
Span(from, to) ==
    [i \in 1..PageOf(PGROUNDUP(to) - from) |-> PageOf(from) + i - 1]

Deallocuvm(m, oldsz, newsz) ==
    IF newsz >= oldsz THEN [m EXCEPT !.size = oldsz]
    ELSE LET gone == {v \in VPNs : /\ v * PGSIZE >= PGROUNDUP(newsz)
                                   /\ v * PGSIZE < oldsz}
         IN  [m EXCEPT
                !.free = KfreeAll(@, gone, m.space.pte),
                !.space.pte = [v \in VPNs |-> IF v \in gone THEN NoPage
                                              ELSE @[v]],
                !.space.user = @ \ gone,
                !.size = newsz]

Undone(m, oldsz, newsz) ==
    IF m.ok THEN [m EXCEPT !.size = newsz]
    ELSE Failed(Deallocuvm(m, newsz, oldsz))

Allocuvm(m, oldsz, newsz) ==
    CASE newsz >= KERNBASE -> Failed(m)
      [] newsz < oldsz -> [m EXCEPT !.size = oldsz]
      [] OTHER -> Undone(FoldLeft(LAMBDA n, v : AddPage(n, v, {v}), m,
                                  Span(PGROUNDUP(oldsz), newsz)),
                         oldsz, newsz)

TablesFreed(m) ==
    [m EXCEPT !.free = KfreeAll(KfreeAll(@, Tables, m.space.tab),
                                {"dir", "ktab"}, m.space),
              !.space = NoSpace]
Freevm(m) == TablesFreed(Deallocuvm(m, KERNBASE, 0))

\* setupkvm(): the directory, then the tables of the kernel's half.
WithKernel(m) ==
    IF Kalloc(m) = NoPage THEN Failed(Freevm(m))
    ELSE [Taken(m, Kalloc(m)) EXCEPT !.space.ktab = Kalloc(m)]
WithDir(m) ==
    IF Kalloc(m) = NoPage THEN Failed(m)
    ELSE WithKernel([Taken(m, Kalloc(m)) EXCEPT !.space.dir = Kalloc(m)])
Setupkvm(f, b) == WithDir(Memory(f, b, NoSpace, 0))

\* copyuvm() keeps the flags: the page below the stack stays inaccessible.
FreedUnlessOk(m) == IF m.ok THEN m ELSE Failed(Freevm(m))
CopyPages(d, s, n) ==
    CASE ~d.ok -> d
      [] d.ok /\ \E v \in VPNs : v * PGSIZE < n /\ s.pte[v] = NoPage ->
            [d EXCEPT !.panic = TRUE]
      [] OTHER ->
            FreedUnlessOk(FoldLeft(LAMBDA m, v : AddPage(m, v, {v} \cap s.user),
                                   d, Span(0, n)))
Copyuvm(f, b, s, n) == CopyPages(Setupkvm(f, b), s, n)

Clearpteu(m, v) ==
    IF m.space.tab[PDX(v)] = NoPage THEN [m EXCEPT !.panic = TRUE]
    ELSE [m EXCEPT !.space.user = @ \ {v}]

\* copyout() to the n words at va, page by page; a wrapped va is above
\* KERNBASE.
Copyout(s, va, n) ==
    \A a \in va..(va + n - 1) : a >= 0 /\ PageOf(a) \in s.user

-----------------------------------------------------------------------------
\* kinit2(), kvmalloc() and userinit(): kpgdir and the first process.
VMInit ==
    \E k \in {Setupkvm([q \in Pages |-> 1], NPAGES)} :
    \E m \in {AddPage(Setupkvm(Taken(k, Kalloc(k)).free, NPAGES), 0, {0})} :
        /\ freelist = m.free
        /\ kpgdir = k.space
        /\ space = [p \in Procs |-> IF p = InitProc THEN m.space ELSE NoSpace]
        /\ sz = [p \in Procs |-> IF p = InitProc THEN PGSIZE ELSE 0]
        /\ kstack = [p \in Procs |-> IF p = InitProc THEN Kalloc(k) ELSE NoPage]
        /\ slot = [p \in Procs |-> IF p = InitProc THEN "used" ELSE "unused"]
        /\ panicked = FALSE

\* A process that has no memory left can only fault.
CanCall(p) == slot[p] = "used" /\ \E v \in VPNs : space[p].pte[v] # NoPage

\* fork(): a stack from allocproc(), then copyuvm() or all of it undone.
VMFork(p, q, b) ==
    /\ CanCall(p) /\ slot[q] = "unused"
    /\ \E t \in {Memory(freelist, b, NoSpace, 0)} :
       \E stack \in {Kalloc(t)} \ {NoPage} :
       \E m \in {Copyuvm(Taken(t, stack).free, b - 1, space[p], sz[p])} :
        /\ freelist' = IF m.ok THEN m.free ELSE Kfree(m, stack).free
        /\ space' = [space EXCEPT ![q] = IF m.ok THEN m.space ELSE @]
        /\ sz' = [sz EXCEPT ![q] = IF m.ok THEN sz[p] ELSE @]
        /\ kstack' = [kstack EXCEPT ![q] = IF m.ok THEN stack ELSE @]
        /\ slot' = [slot EXCEPT ![q] = IF m.ok THEN "used" ELSE @]
        /\ panicked' = m.panic
    /\ UNCHANGED kpgdir

\* sbrk(n).  A shrink to exactly nothing is reported as a failure, with the
\* old size, although the memory is gone.
Growproc(p, n, b) ==
    LET m0 == Memory(freelist, b, space[p], sz[p])
        new == (sz[p] + n) % Modulus
    IN  /\ CanCall(p)
        /\ \E m \in {IF n > 0 THEN Allocuvm(m0, sz[p], new)
                     ELSE Deallocuvm(m0, sz[p], new)} :
            /\ freelist' = m.free
            /\ space' = [space EXCEPT ![p] = m.space]
            /\ sz' = [sz EXCEPT ![p] = IF m.size = 0 THEN @ ELSE m.size]
            /\ panicked' = m.panic
        /\ UNCHANGED <<kstack, slot, kpgdir>>

\* What exec() refuses in a program header before it allocates.
SegmentBad(seg) ==
    \/ seg.memsz < seg.filesz
    \/ (seg.vaddr + seg.memsz) % Modulus < seg.vaddr

\* One turn of exec()'s loop: allocuvm(), then loaduvm(), which panics on a
\* page that is not mapped and fails when the file is short.
Loaded(m, seg) ==
    CASE m.size = 0 \/ seg.vaddr % PGSIZE # 0 -> Failed(m)
      [] m.size # 0 /\ seg.vaddr % PGSIZE = 0
         /\ \E a \in seg.vaddr..(seg.vaddr + seg.filesz - 1) :
                m.space.pte[PageOf(a)] = NoPage -> [m EXCEPT !.panic = TRUE]
      [] OTHER -> IF seg.short THEN Failed(m) ELSE m
LoadSegment(m, seg) ==
    IF ~m.ok \/ SegmentBad(seg) THEN Failed(m)
    ELSE Loaded(Allocuvm(m, m.size, (seg.vaddr + seg.memsz) % Modulus), seg)

\* The arguments go on the stack, above the page made inaccessible.
Pushed(m, args) ==
    LET sp(i) == m.size - FoldLeft(+, 0, SubSeq(args, 1, i)) IN
    IF /\ Len(args) - 1 <= MAXARG
       /\ \A i \in 1..Len(args) : Copyout(m.space, sp(i), args[i])
    THEN m ELSE Failed(m)
Guarded(m, args) ==
    IF m.size = 0 THEN Failed(m)
    ELSE Pushed(Clearpteu(m, PageOf(m.size) - 2), args)
PushStack(m, args) ==
    IF ~m.ok THEN m
    ELSE Guarded(Allocuvm(m, PGROUNDUP(m.size),
                          PGROUNDUP(m.size) + 2 * PGSIZE), args)

\* exec(): the old address space is freed once the new one is in use.
VMExec(p, call, b) ==
    /\ CanCall(p)
    /\ \E m \in {PushStack(FoldLeft(LoadSegment, Setupkvm(freelist, b),
                                     call.segs), call.args)} :
        /\ panicked' = m.panic
        /\ \/ /\ ~m.ok                  \* the label bad
              /\ freelist' = Freevm(m).free
              /\ UNCHANGED <<space, sz>>
           \/ /\ m.ok
              /\ freelist' = Freevm([m EXCEPT !.space = space[p]]).free
              /\ space' = [space EXCEPT ![p] = m.space]
              /\ sz' = [sz EXCEPT ![p] = m.size]
    /\ UNCHANGED <<kstack, slot, kpgdir>>

\* exit(), by a call or after a fault: the memory stays for wait().
VMExit(p) ==
    /\ slot[p] = "used" /\ p # InitProc
    /\ slot' = [slot EXCEPT ![p] = "zombie"]
    /\ UNCHANGED <<freelist, space, sz, kstack, kpgdir, panicked>>

\* wait() in the parent, whoever that is.
VMReap(q) ==
    /\ slot[q] = "zombie"
    /\ freelist' = Kfree(Freevm(Memory(freelist, 0, space[q], 0)),
                         kstack[q]).free
    /\ space' = [space EXCEPT ![q] = NoSpace]
    /\ kstack' = [kstack EXCEPT ![q] = NoPage]
    /\ slot' = [slot EXCEPT ![q] = "unused"]
    /\ UNCHANGED <<sz, kpgdir, panicked>>

-----------------------------------------------------------------------------
(* syscall.c: the arguments a call accepts from a process of n words.  An  *)
(* int is one word; addresses and sums are unsigned.                       *)

Fetchint(n, addr) == addr < n /\ (addr + 1) % Modulus <= n

\* The words fetchstr() may look at before it finds a 0.
Fetchstr(n, addr) == addr..(n - 1)

Argptr(n, i, size) == size >= 0 /\ i < n /\ (i + size) % Modulus <= n

VMNext ==
    /\ ~panicked
    /\ \E p \in Procs :
        \/ \E b \in Budgets :
            \/ \E q \in Procs : VMFork(p, q, b)
            \/ \E n \in Increments : Growproc(p, n, b)
            \/ \E call \in ExecCalls : VMExec(p, call, b)
        \/ VMExit(p) \/ VMReap(p)

-----------------------------------------------------------------------------
Uses(s, q) ==
    Cardinality({v \in VPNs : s.pte[v] = q})
    + Cardinality({t \in Tables : s.tab[t] = q})
    + Cardinality({x \in {"dir", "ktab"} : s[x] = q})

\* Every physical page is in one place: free, a stack, or one entry of one
\* address space.  So no call of vm.c, on any path where the memory runs out
\* half way, loses a page, frees it twice or shares it between processes.
PagesOwned ==
    \A q \in Pages :
        freelist[q] + Uses(kpgdir, q)
        + Cardinality({p \in Procs : kstack[p] = q})
        + FoldFunction(+, 0, [p \in Procs |-> Uses(space[p], q)])
        = 1

\* The pages of a process are exactly those below p->sz, whatever sbrk(),
\* fork() and exec() did, unless it gave them all up and can only fault: so
\* the panics of mappages(), copyuvm(), loaduvm() and clearpteu() never fire.
SizeMapped ==
    /\ ~panicked
    /\ \A p \in Procs :
        LET mapped == {v \in VPNs : space[p].pte[v] # NoPage} IN
        /\ mapped # {} => mapped = {v \in VPNs : v * PGSIZE < sz[p]}
        /\ space[p].user \subseteq mapped

\* What syscall.c lets the kernel read or write on behalf of a process is
\* mapped, for every address and every signed size that can be passed, those
\* whose sum wraps around included.
Mapped(p, S) == \A a \in S : PageOf(a) \in VPNs /\ space[p].pte[PageOf(a)] # NoPage
ArgsMapped ==
    \A p \in {q \in Procs : CanCall(q)} : \A a \in 0..(Modulus - 1) :
        /\ Fetchint(sz[p], a) => Mapped(p, {a})
        /\ Mapped(p, Fetchstr(sz[p], a))
        /\ \A n \in (-Modulus \div 2)..(Modulus \div 2 - 1) :
            Argptr(sz[p], a, n) => Mapped(p, a..(a + n - 1))

\* Memory is sound: no page is lost or shared, sizes tell what is mapped, and
\* the kernel uses nothing else of a process.
MemorySound == PagesOwned /\ SizeMapped /\ ArgsMapped
=============================================================================

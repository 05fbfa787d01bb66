------------------------------- MODULE FileData ------------------------------
(***************************************************************************)
(* The contents of files (fs.c: balloc, bfree, bmap, itrunc, readi and     *)
(* writei; file.c: the loop of filewrite), on an image made by mkfs.c.     *)
(*                                                                         *)
(* A block is an array of words, and the words of an indirect block are    *)
(* block numbers, so a block that is not cleared before it is used is seen *)
(* as garbage.  The caller holds the lock of its inode over a whole        *)
(* readi(), writei() or itrunc(); calls on different files meet in the     *)
(* bitmap, so a step is one look at the bitmap, one block cleared or one   *)
(* block copied.  An inode that nobody has locked may be dropped from the  *)
(* cache and read again.  Transactions are module Log's.                   *)
(***************************************************************************)
EXTENDS Integers, Sequences, FiniteSets

CONSTANTS
    Writers,                \* processes
    Root, Inodes,           \* the root directory and the other files
    NBlocks, ImageBlocks,   \* data blocks; those mkfs may use
    BSIZE,                  \* words in a block, so also NINDIRECT
    NDIRECT,
    MaxWrite,               \* the largest part filewrite() gives to writei()
    Words, ImageWord,       \* what is written to files, by mkfs to begin with
    Offsets, Lengths,       \* the offset and n of a call, in words
    MaxCalls,               \* bound on the calls of the processes together
    NoOne

Data == 1..NBlocks
All == {Root} \cup Inodes
NINDIRECT == BSIZE
MAXFILE == NDIRECT + NINDIRECT
Least(S) == CHOOSE x \in S : \A y \in S : x <= y

ASSUME FileDataAssumption ==
    /\ {NBlocks, BSIZE, NDIRECT, MaxWrite} \subseteq Nat \ {0}
    /\ ImageBlocks \in 0..NBlocks
    /\ Offsets \subseteq Nat /\ Lengths \subseteq Nat \ {0}
    /\ Root \notin Inodes /\ NoOne \notin Writers

VARIABLES
    phase, freeblock,       \* mkfs: "mkfs", then "run"; its counter
    bitmap, block,          \* the blocks in use, the words of each
    inode, dinode,          \* [addrs, size] in the cache and on the disk
    iholder,                \* who holds the lock of an inode
    job,                    \* the call a process is in
    calls,
    text,                   \* what a reader of the file expects
    fdPanic

fdVars == <<phase, freeblock, bitmap, block, inode, dinode, iholder, job,
            calls, text, fdPanic>>
mkfsVars == <<phase, freeblock>>

NoJob == [kind |-> "none", f |-> Root, off |-> 0, end |-> 0, rest |-> 0,
          word |-> 0, fresh |-> 0]
Empty == [addrs |-> [i \in 0..NDIRECT |-> 0], size |-> 0]
Zeroes == [w \in 0..(BSIZE - 1) |-> 0]

FDInit ==
    /\ phase = "mkfs" /\ freeblock = 1
    /\ bitmap = {}
    /\ block = [b \in Data |-> Zeroes]
    /\ inode = [f \in All |-> Empty]
    /\ dinode = [f \in All |-> Empty]
    /\ iholder = [f \in All |-> NoOne]
    /\ job = [p \in Writers |-> NoJob]
    /\ calls = 0
    /\ text = [f \in All |-> <<>>]
    /\ fdPanic = FALSE

-----------------------------------------------------------------------------
(* Block numbers.                                                          *)

\* The block of inode ip that holds its n-th block, or 0.
Lookup(ip, n) ==
    IF n < NDIRECT THEN ip.addrs[n]
    ELSE IF ip.addrs[NDIRECT] = 0 THEN 0
    ELSE block[ip.addrs[NDIRECT]][n - NDIRECT]

\* bmap() has to allocate the indirect block before the block itself.
NeedsIndirect(ip, n) == n >= NDIRECT /\ ip.addrs[NDIRECT] = 0

\* text with its words from off on replaced by m times word.
Overwritten(s, off, m, word) ==
    [i \in 1..(IF off + m > Len(s) THEN off + m ELSE Len(s)) |->
        IF i > off /\ i <= off + m THEN word ELSE s[i]]

\* The part of a copy from off to end that lies in the block of off.
PartLen(off, end) ==
    LET room == BSIZE - (off % BSIZE) IN
    IF end - off < room THEN end - off ELSE room
Copied(w, off, m, word) ==
    [i \in DOMAIN w |->
        IF i >= off % BSIZE /\ i < (off % BSIZE) + m THEN word ELSE w[i]]

-----------------------------------------------------------------------------
(* mkfs.c: one process, and blocks are handed out in order.                *)

\* iappend() of n words that lie in one block.
Iappend(f, n, word) ==
    LET off == dinode[f].size
        bn == off \div BSIZE
        ind == NeedsIndirect(dinode[f], bn)
        new == Lookup(dinode[f], bn) = 0
        x == IF new THEN freeblock + (IF ind THEN 1 ELSE 0)
             ELSE Lookup(dinode[f], bn)
        table == IF ind THEN freeblock ELSE dinode[f].addrs[NDIRECT]
    IN  /\ phase = "mkfs"
        /\ bn < MAXFILE /\ n = PartLen(off, off + n)
        /\ x <= ImageBlocks
        /\ freeblock' = freeblock + (IF ind THEN 1 ELSE 0) + (IF new THEN 1 ELSE 0)
        /\ block' = [b \in Data |->
            CASE b = x -> Copied(block[x], off, n, word)
              [] b = table /\ bn >= NDIRECT ->
                    [block[b] EXCEPT ![bn - NDIRECT] = x]
              [] OTHER -> block[b]]
        /\ dinode' = [dinode EXCEPT ![f] =
            [addrs |-> IF bn < NDIRECT THEN [@.addrs EXCEPT ![bn] = x]
                       ELSE [@.addrs EXCEPT ![NDIRECT] = table],
             size |-> off + n]]
        /\ inode' = dinode'
        /\ text' = [text EXCEPT ![f] = Overwritten(@, off, n, word)]
        /\ UNCHANGED <<phase, bitmap, iholder, job, calls, fdPanic>>

\* Mutant: the last block given out is not marked.
MarkedOneLess == 1..(freeblock - 2)

Marked == 1..(freeblock - 1)

\* The end of main(): the size of the root is rounded up past a whole block,
\* and balloc() writes the bitmap.  The root of the image the Makefile builds
\* does not end at the end of a block: were it to, the block added here would
\* not exist.
MkfsEnd ==
    /\ phase = "mkfs" /\ dinode[Root].size % BSIZE # 0
    /\ phase' = "run"
    /\ bitmap' = Marked
    /\ dinode' = [dinode EXCEPT ![Root].size = (@ \div BSIZE + 1) * BSIZE]
    /\ inode' = dinode'
    /\ text' = [text EXCEPT ![Root] =
        [i \in 1..dinode'[Root].size |-> IF i <= Len(@) THEN @[i] ELSE 0]]
    /\ UNCHANGED <<freeblock, block, iholder, job, calls, fdPanic>>

-----------------------------------------------------------------------------
(* Calls.                                                                  *)

\* fileread() and filewrite() with the offset of some open file; the last
\* iput() of a file without links.
StartCall(p, kind, f, off, n, word) ==
    /\ phase = "run" /\ job[p].kind = "none"
    /\ calls < MaxCalls /\ calls' = calls + 1
    /\ kind = "trunc" => f # Root
    /\ job' = [job EXCEPT ![p] =
        [kind |-> kind, f |-> f, off |-> off, end |-> off, rest |-> n,
         word |-> word, fresh |-> 0]]
    /\ UNCHANGED <<mkfsVars, bitmap, block, inode, dinode, iholder, text,
                   fdPanic>>

\* ilock() and the checks at the head of readi() and writei(); filewrite()
\* gives up what does not fit, and otherwise writes the next part.
LockFile(p) ==
    LET j == job[p]
        size == inode[j.f].size
        n == IF j.rest > MaxWrite THEN MaxWrite ELSE j.rest
        bad == j.off > size \/ j.off + n > MAXFILE * BSIZE
        most == IF j.off + j.rest > size THEN size ELSE j.off + j.rest
    IN  /\ j.kind # "none" /\ iholder[j.f] = NoOne
        /\ \/ /\ j.kind = "write" /\ bad
              /\ job' = [job EXCEPT ![p] = NoJob]
              /\ UNCHANGED iholder
           \/ /\ j.kind = "write" /\ ~bad
              /\ job' = [job EXCEPT ![p].end = j.off + n,
                                    ![p].rest = j.rest - n]
              /\ iholder' = [iholder EXCEPT ![j.f] = p]
           \/ /\ j.kind = "read" /\ j.off <= size
              /\ job' = [job EXCEPT ![p].end = most, ![p].rest = 0]
              /\ iholder' = [iholder EXCEPT ![j.f] = p]
           \/ /\ j.kind = "trunc"
              /\ job' = [job EXCEPT ![p].off = 0]
              /\ iholder' = [iholder EXCEPT ![j.f] = p]
    /\ UNCHANGED <<mkfsVars, bitmap, block, inode, dinode, calls, text,
                   fdPanic>>

Working(p) == /\ job[p].kind \in {"read", "write"}
              /\ iholder[job[p].f] = p /\ job[p].off < job[p].end
Bn(p) == job[p].off \div BSIZE
Missing(p) == Lookup(inode[job[p].f], Bn(p)) = 0

\* balloc(): the first block that is not marked.
Balloc(p) ==
    /\ Working(p) /\ Missing(p) /\ job[p].fresh = 0
    /\ Data \ bitmap # {}
    /\ bitmap' = bitmap \cup {Least(Data \ bitmap)}
    /\ job' = [job EXCEPT ![p].fresh = Least(Data \ bitmap)]
    /\ UNCHANGED <<mkfsVars, block, inode, dinode, iholder, calls, text,
                   fdPanic>>

BallocFull(p) ==
    /\ Working(p) /\ Missing(p) /\ job[p].fresh = 0
    /\ Data \subseteq bitmap
    /\ fdPanic' = TRUE
    /\ UNCHANGED <<mkfsVars, bitmap, block, inode, dinode, iholder, job,
                   calls, text>>

\* Mutant: the block is used as it was left.
ZeroedNever(b) == block

Zeroed(b) == [block EXCEPT ![b] = Zeroes]

\* bzero(), and bmap() enters the block where it was missing.
Bzero(p) ==
    LET f == job[p].f
        b == job[p].fresh
        ip == inode[f]
        at == IF Bn(p) < NDIRECT THEN Bn(p) ELSE NDIRECT
    IN  /\ Working(p) /\ b # 0
        /\ IF Bn(p) < NDIRECT \/ NeedsIndirect(ip, Bn(p))
           THEN /\ block' = Zeroed(b)
                /\ inode' = [inode EXCEPT ![f].addrs[at] = b]
           ELSE /\ block' = [Zeroed(b) EXCEPT
                                ![ip.addrs[NDIRECT]][Bn(p) - NDIRECT] = b]
                /\ UNCHANGED inode
        /\ job' = [job EXCEPT ![p].fresh = 0]
        /\ UNCHANGED <<mkfsVars, bitmap, dinode, iholder, calls, text, fdPanic>>

\* memmove() of the part in this block, to or from the file.
CopyPart(p) ==
    LET j == job[p]
        m == PartLen(j.off, j.end)
        b == Lookup(inode[j.f], Bn(p))
    IN  /\ Working(p) /\ ~Missing(p)
        /\ job' = [job EXCEPT ![p].off = @ + m]
        /\ IF j.kind = "write"
           THEN /\ block' = [block EXCEPT ![b] = Copied(@, j.off, m, j.word)]
                /\ text' = [text EXCEPT ![j.f] =
                                Overwritten(@, j.off, m, j.word)]
           ELSE UNCHANGED <<block, text>>
        /\ UNCHANGED <<mkfsVars, bitmap, inode, dinode, iholder, calls,
                       fdPanic>>

\* writei() updates the inode only when the file has grown.
Grown(f, off) ==
    /\ inode' = [inode EXCEPT ![f].size = IF off > @ THEN off ELSE @]
    /\ dinode' = IF off > inode[f].size
                 THEN [dinode EXCEPT ![f] = inode'[f]] ELSE dinode

\* The end of readi() or writei(), and iunlock().
UnlockFile(p) ==
    LET j == job[p] IN
    /\ j.kind \in {"read", "write"} /\ iholder[j.f] = p /\ j.off = j.end
    /\ IF j.kind = "write" THEN Grown(j.f, j.off)
       ELSE UNCHANGED <<inode, dinode>>
    /\ iholder' = [iholder EXCEPT ![j.f] = NoOne]
    /\ job' = [job EXCEPT ![p] = IF j.rest = 0 THEN NoJob ELSE @]
    /\ UNCHANGED <<mkfsVars, bitmap, block, calls, text, fdPanic>>

-----------------------------------------------------------------------------
(* itrunc(): the direct blocks, those of the indirect block, then itself.  *)

TruncBlock(ip, k) ==
    IF k < MAXFILE THEN Lookup(ip, k) ELSE ip.addrs[NDIRECT]

Truncating(p) == job[p].kind = "trunc" /\ iholder[job[p].f] = p

\* bfree()
Bfree(p) ==
    LET j == job[p]
        b == TruncBlock(inode[j.f], j.off)
        i == IF j.off < NDIRECT THEN j.off ELSE NDIRECT
    IN  /\ Truncating(p) /\ j.off <= MAXFILE
        /\ bitmap' = bitmap \ {b}
        /\ fdPanic' = (b # 0 /\ b \notin bitmap)
        /\ inode' = IF j.off < NDIRECT \/ j.off = MAXFILE
                    THEN [inode EXCEPT ![j.f].addrs[i] = 0] ELSE inode
        /\ job' = [job EXCEPT ![p].off = @ + 1]
        /\ UNCHANGED <<mkfsVars, block, dinode, iholder, calls, text>>

TruncEnd(p) ==
    LET f == job[p].f IN
    /\ Truncating(p) /\ job[p].off > MAXFILE
    /\ inode' = [inode EXCEPT ![f].size = 0]
    /\ dinode' = [dinode EXCEPT ![f] = inode'[f]]
    /\ text' = [text EXCEPT ![f] = <<>>]
    /\ iholder' = [iholder EXCEPT ![f] = NoOne]
    /\ job' = [job EXCEPT ![p] = NoJob]
    /\ UNCHANGED <<mkfsVars, bitmap, block, calls, fdPanic>>

\* The inode leaves the cache and is read again by the next ilock().
Evict(f) ==
    /\ phase = "run" /\ iholder[f] = NoOne
    /\ inode' = [inode EXCEPT ![f] = dinode[f]]
    /\ UNCHANGED <<mkfsVars, bitmap, block, dinode, iholder, job, calls, text,
                   fdPanic>>

FDNext ==
    /\ ~fdPanic
    /\ \/ Iappend(Root, 1, ImageWord)
       \/ \E f \in Inodes, n \in 1..BSIZE : Iappend(f, n, ImageWord)
       \/ MkfsEnd
       \/ \E p \in Writers :
            \/ \E f \in All :
                \/ \E off \in Offsets \cup {inode[f].size}, n \in Lengths,
                      word \in Words : StartCall(p, "write", f, off, n, word)
                \/ \E n \in Lengths : StartCall(p, "read", f, 0, n, 0)
                \/ StartCall(p, "trunc", f, 0, 0, 0)
            \/ LockFile(p) \/ Balloc(p) \/ BallocFull(p) \/ Bzero(p)
            \/ CopyPart(p) \/ UnlockFile(p) \/ Bfree(p) \/ TruncEnd(p)
       \/ \E f \in All : Evict(f)

FDSpec == FDInit /\ [][FDNext]_fdVars

-----------------------------------------------------------------------------
\* The entries of the indirect block of f that itrunc() has freed already.
Released(f) ==
    UNION {0..(job[p].off - NDIRECT - 1) :
                p \in {q \in Writers : Truncating(q) /\ job[q].f = f}}

Entries(f) ==
    {i \in 0..NDIRECT : inode[f].addrs[i] # 0}
    \cup {NDIRECT + 1 + i : i \in
            IF inode[f].addrs[NDIRECT] = 0 THEN {}
            ELSE {w \in 0..(NINDIRECT - 1) \ Released(f) :
                    block[inode[f].addrs[NDIRECT]][w] # 0}}

Entry(f, i) ==
    IF i <= NDIRECT THEN inode[f].addrs[i]
    ELSE block[inode[f].addrs[NDIRECT]][i - NDIRECT - 1]

Owners(b) ==
    {e \in All \X (0..MAXFILE) : e[2] \in Entries(e[1]) /\ Entry(e[1], e[2]) = b}
    \cup {<<p, "fresh">> : p \in {q \in Writers : job[q].fresh = b}}

\* A block is marked in the bitmap exactly when one place refers to it, an
\* inode, an indirect block or the call that is about to enter it: writes and
\* truncations of several files at once never share a block, free it twice or
\* lose it, also when the inode goes to the disk and back.
BlocksOwned ==
    phase = "run" =>
        \A b \in Data :
            Cardinality(Owners(b)) = (IF b \in bitmap THEN 1 ELSE 0)

\* A file reads as what was written to it, whatever the calls on other files
\* do to the blocks between, and as zero where nothing was: new blocks are
\* clear, of data as of block numbers.
ReadsBack ==
    \A f \in All : iholder[f] = NoOne =>
        /\ inode[f].size = Len(text[f])
        /\ \A off \in 0..(inode[f].size - 1) :
            LET b == Lookup(inode[f], off \div BSIZE) IN
            /\ b \in Data \cup {0}
            /\ (IF b = 0 THEN 0 ELSE block[b][off % BSIZE]) = text[f][off + 1]
=============================================================================

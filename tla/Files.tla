-------------------------------- MODULE Files --------------------------------
(***************************************************************************)
(* Inodes, directories and open files of xv6: the inode cache and path     *)
(* lookup of fs.c, the file table of file.c, and the system calls of       *)
(* sysfile.c that create, link, unlink, open and close by name.            *)
(*                                                                         *)
(* Grain.  A sleep lock of an inode is held over several steps only when   *)
(* its holder asks for another lock meanwhile; a section under one lock    *)
(* that does not is one step.  icache.lock and ftable.lock protect single  *)
(* steps.  begin_op() and end_op() do not exclude each other and are left  *)
(* to Log, whose commits make the writes of a call atomic on the disk.     *)
(*                                                                         *)
(* The cache has an entry for i while ref[i] > 0 (iget() searches and      *)
(* recycles under icache.lock; NINODE is not reached).  Directories hold   *)
(* the entries dir[i]; paths are absolute and without "." and "..".        *)
(***************************************************************************)
EXTENDS Integers, Sequences, FiniteSets

CONSTANTS
    Procs,
    Inums,      \* 1..sb.ninodes - 1
    Names,
    Paths,      \* the paths that programs use: nonempty sequences of names
    LinkPaths,  \* the ones they make links at
    NFILE,      \* entries of ftable
    NOFILE,     \* descriptors of a process
    MaxLinks,   \* bound on nlink
    Nobody

ASSUME FilesAssumption ==
    /\ Inums \subseteq Nat \ {0}
    /\ 1 \in Inums
    /\ Paths \subseteq Seq(Names) \ {<<>>}
    /\ LinkPaths \subseteq Paths
    /\ NFILE \in Nat
    /\ NOFILE \in Nat
    /\ MaxLinks \in Nat
    /\ Nobody \notin Procs
    /\ IsFiniteSet(Procs) /\ IsFiniteSet(Inums) /\ IsFiniteSet(Names)

VARIABLES
    disk,       \* disk[i]: type and nlink of the dinode
    dir,        \* dir[i][n]: the inode the entry n of directory i names, or 0
    core,       \* core[i]: type and nlink of the cached inode, or NotValid
    ref,        \* ip->ref
    holder,     \* the process holding ip->lock
    fref, fip,  \* f->ref and f->ip of the file table
    ofile,      \* ofile[p][d]: the file of descriptor d of p, or 0
    t,          \* the threads: where in which call, and their pointers
    panic       \* the kernel has stopped: out of inodes

vars == <<disk, dir, core, ref, holder, fref, fip, ofile, t, panic>>

ROOTINO == 1
Files == 1..NFILE
FDs == 1..NOFILE
Free == [type |-> "free", nlink |-> 0]
NotValid == [type |-> "none", nlink |-> 0]
NoEntries == [n \in Names |-> 0]

Calls == {"none", "open", "create", "mkdir", "link", "unlink"}
\* pc "iput" .. "iref": inside iput(put), to go on at "after".
Places == {"idle", "walk", "parent", "unlink2", "unlink3", "unlinkbad",
           "create2", "create3", "created", "open1", "opened", "link1",
           "linkend", "linkput", "linkbad", "iput", "ifree", "ifreed", "iref"}

\* ip, dp, old: the locals of the calls, 0 when they own no reference.
Thread == [pc |-> "idle", call |-> "none", path |-> <<>>, new |-> <<>>,
           ip |-> 0, dp |-> 0, old |-> 0, put |-> 0, after |-> "idle"]

\* mkfs and userinit(): an empty root, referenced by the cwd of the processes.
Init ==
    /\ disk = [i \in Inums |->
                    IF i = ROOTINO THEN [type |-> "DIR", nlink |-> 1]
                    ELSE Free]
    /\ dir = [i \in Inums |-> NoEntries]
    /\ core = [i \in Inums |-> NotValid]
    /\ ref = [i \in Inums |-> IF i = ROOTINO THEN 1 ELSE 0]
    /\ holder = [i \in Inums |-> Nobody]
    /\ fref = [f \in Files |-> 0]
    /\ fip = [f \in Files |-> 0]
    /\ ofile = [p \in Procs |-> [d \in FDs |-> 0]]
    /\ t = [p \in Procs |-> Thread]
    /\ panic = FALSE

-----------------------------------------------------------------------------
(* Locking.                                                                *)

\* The inode whose sleep lock the next step of p takes, or 0.
Wants(p) ==
    CASE t[p].pc \in {"walk", "unlink2", "create2", "create3", "open1",
                      "link1"} -> t[p].ip
      [] t[p].pc = "parent" -> t[p].dp
      [] t[p].pc = "linkbad" -> t[p].old
      [] t[p].pc = "iput" -> t[p].put
      [] OTHER -> 0

\* The fields of inode i as ilock() leaves them.
In(i) == IF core[i] = NotValid THEN disk[i] ELSE core[i]

\* p is at place and can take the lock of i; a free one panics (NoPanic).
CanLock(p, place, i) ==
    /\ ~panic
    /\ t[p].pc = place
    /\ holder[i] = Nobody
    /\ In(i).type # "free"

\* iget(i): one more reference.
IGet(i) == ref' = [ref EXCEPT ![i] = @ + 1]

\* ilock() read the inodes of S into the cache; they are not changed.
ILocked(S) ==
    /\ core' = [i \in Inums |-> IF i \in S THEN In(i) ELSE core[i]]
    /\ UNCHANGED disk

\* ilock() of the inodes in the domain of u, whose new fields go to disk with
\* iupdate().
IUpdate(u) ==
    /\ core' = [i \in Inums |-> IF i \in DOMAIN u THEN u[i] ELSE core[i]]
    /\ disk' = [i \in Inums |-> IF i \in DOMAIN u THEN u[i] ELSE disk[i]]

\* The fields of i with its nlink changed by d \in {1, -1}.
Links(i, d) == [In(i) EXCEPT !.nlink = @ + d]

-----------------------------------------------------------------------------
(* iput(): the caller has set put and after.                               *)

\* Mutant: the other references are not looked at.
IPutLockAny(p) ==
    LET i == t[p].put
        free == core[i] # NotValid /\ core[i].nlink = 0
    IN  /\ ~panic
        /\ t[p].pc = "iput"
        /\ holder[i] = Nobody
        /\ holder' = IF free THEN [holder EXCEPT ![i] = p] ELSE holder
        /\ t' = [t EXCEPT ![p].pc = IF free THEN "ifree" ELSE "iref"]
        /\ UNCHANGED <<disk, dir, core, ref, fref, fip, ofile, panic>>

IPutLock(p) ==
    LET i == t[p].put
        free == core[i] # NotValid /\ core[i].nlink = 0 /\ ref[i] = 1
    IN  /\ ~panic
        /\ t[p].pc = "iput"
        /\ holder[i] = Nobody
        /\ holder' = IF free THEN [holder EXCEPT ![i] = p] ELSE holder
        /\ t' = [t EXCEPT ![p].pc = IF free THEN "ifree" ELSE "iref"]
        /\ UNCHANGED <<disk, dir, core, ref, fref, fip, ofile, panic>>

\* itrunc() and type 0 on the disk.
IFree(p) ==
    LET i == t[p].put
    IN  /\ ~panic
        /\ t[p].pc = "ifree"
        /\ dir' = [dir EXCEPT ![i] = NoEntries]
        /\ IUpdate([j \in {i} |-> [core[i] EXCEPT !.type = "free"]])
        /\ t' = [t EXCEPT ![p].pc = "ifreed"]
        /\ UNCHANGED <<ref, holder, fref, fip, ofile, panic>>

\* Mutant: valid is not cleared.
IFreedValid(p) ==
    LET i == t[p].put
    IN  /\ ~panic
        /\ t[p].pc = "ifreed"
        /\ holder' = [holder EXCEPT ![i] = Nobody]
        /\ t' = [t EXCEPT ![p].pc = "iref"]
        /\ UNCHANGED <<disk, dir, core, ref, fref, fip, ofile, panic>>

IFreed(p) ==
    LET i == t[p].put
    IN  /\ ~panic
        /\ t[p].pc = "ifreed"
        /\ core' = [core EXCEPT ![i] = NotValid]
        /\ holder' = [holder EXCEPT ![i] = Nobody]
        /\ t' = [t EXCEPT ![p].pc = "iref"]
        /\ UNCHANGED <<disk, dir, ref, fref, fip, ofile, panic>>

\* "ip->ref--".  The next iget() of an entry without references starts with
\* valid = 0, so its fields are dropped here.
IRef(p) ==
    LET i == t[p].put
    IN  /\ ~panic
        /\ t[p].pc = "iref"
        /\ ref' = [ref EXCEPT ![i] = @ - 1]
        /\ core' = IF ref[i] = 1 THEN [core EXCEPT ![i] = NotValid] ELSE core
        /\ t' = [t EXCEPT ![p] =
                    IF @.after = "idle" THEN Thread
                    ELSE [@ EXCEPT !.pc = t[p].after, !.put = 0,
                                   !.after = "idle"]]
        /\ UNCHANGED <<disk, dir, holder, fref, fip, ofile, panic>>

IPut(p) == IPutLock(p) \/ IFree(p) \/ IFreed(p) \/ IRef(p)

\* iunlockput(i) or iput(i), then on to place: the thread as it enters iput().
Puts(th, i, place) == [th EXCEPT !.pc = "iput", !.put = i, !.after = place]

\* The same as the last thing a call does.
LastPut(i) == Puts(Thread, i, "idle")

-----------------------------------------------------------------------------
(* namex()                                                                 *)

\* A system call with its path; link has a second one.
Begin(p, call, path, new) ==
    /\ ~panic
    /\ t[p].pc = "idle"
    /\ IGet(ROOTINO)
    /\ t' = [t EXCEPT ![p] = [Thread EXCEPT !.pc = "walk", !.call = call,
                                            !.path = path, !.new = new,
                                            !.ip = ROOTINO]]
    /\ UNCHANGED <<disk, dir, core, holder, fref, fip, ofile, panic>>

\* Whether the lookup under way is a nameiparent().
IsParentLookup(p) ==
    t[p].call \in {"create", "mkdir", "unlink"} \/ t[p].old # 0

\* Mutant: the inode is not put.
NotFoundKept(p) ==
    IF t[p].old # 0
    THEN [Thread EXCEPT !.pc = "linkbad", !.old = t[p].old]
    ELSE Thread

\* The lookup puts its inode and returns 0; link() takes back its count.
NotFound(p) ==
    IF t[p].old # 0
    THEN Puts([Thread EXCEPT !.old = t[p].old], t[p].ip, "linkbad")
    ELSE LastPut(t[p].ip)

NamexFail(p) ==
    LET i == t[p].ip
    IN  /\ CanLock(p, "walk", i)
        /\ \/ In(i).type # "DIR"
           \/ /\ ~(IsParentLookup(p) /\ Len(t[p].path) = 1)
              /\ dir[i][Head(t[p].path)] = 0
        /\ ILocked({i})
        /\ t' = [t EXCEPT ![p] = NotFound(p)]
        /\ UNCHANGED <<dir, ref, holder, fref, fip, ofile, panic>>

\* nameiparent stops one level early, with the inode unlocked.
NamexParent(p) ==
    LET i == t[p].ip
    IN  /\ Len(t[p].path) = 1
        /\ CanLock(p, "walk", i)
        /\ IsParentLookup(p)
        /\ In(i).type = "DIR"
        /\ ILocked({i})
        /\ t' = [t EXCEPT ![p].pc = "parent", ![p].dp = i, ![p].ip = 0]
        /\ UNCHANGED <<dir, ref, holder, fref, fip, ofile, panic>>

\* Where namei() returns to.
Found(p) == IF t[p].call = "link" THEN "link1" ELSE "open1"

\* dirlookup() and iget() of the next inode, iunlockput() of this one.
NamexNext(p) ==
    LET i == t[p].ip
        next == dir[i][Head(t[p].path)]
    IN  /\ CanLock(p, "walk", i)
        /\ ~(IsParentLookup(p) /\ Len(t[p].path) = 1)
        /\ In(i).type = "DIR"
        /\ next # 0
        /\ ILocked({i})
        /\ IGet(next)
        /\ t' = [t EXCEPT ![p] = Puts([@ EXCEPT !.ip = next,
                                                !.path = Tail(t[p].path)],
                                      i, IF Len(t[p].path) > 1 THEN "walk"
                                         ELSE Found(p))]
        /\ UNCHANGED <<dir, holder, fref, fip, ofile, panic>>

Namex(p) == NamexFail(p) \/ NamexParent(p) \/ NamexNext(p)

\* The last element of the path, once nameiparent() has returned.
Name(p) == Head(t[p].path)

-----------------------------------------------------------------------------
(* sys_unlink()                                                            *)

\* ilock(dp) and dirlookup(): not there ...
UnlinkMissing(p) ==
    LET d == t[p].dp
    IN  /\ CanLock(p, "parent", d)
        /\ t[p].call = "unlink"
        /\ dir[d][Name(p)] = 0
        /\ ILocked({d})
        /\ t' = [t EXCEPT ![p] = LastPut(d)]
        /\ UNCHANGED <<dir, ref, holder, fref, fip, ofile, panic>>

\* Mutant: dp is unlocked before ip is locked.
UnlinkFoundOpen(p) ==
    LET d == t[p].dp
        i == dir[d][Name(p)]
    IN  /\ CanLock(p, "parent", d)
        /\ t[p].call = "unlink"
        /\ i # 0
        /\ ILocked({d})
        /\ IGet(i)
        /\ t' = [t EXCEPT ![p].pc = "unlink2", ![p].ip = i]
        /\ UNCHANGED <<dir, holder, fref, fip, ofile, panic>>

\* ... or found: dp stays locked while ip is locked next.
UnlinkFound(p) ==
    LET d == t[p].dp
        i == dir[d][Name(p)]
    IN  /\ CanLock(p, "parent", d)
        /\ t[p].call = "unlink"
        /\ i # 0
        /\ ILocked({d})
        /\ IGet(i)
        /\ holder' = [holder EXCEPT ![d] = p]
        /\ t' = [t EXCEPT ![p].pc = "unlink2", ![p].ip = i]
        /\ UNCHANGED <<dir, fref, fip, ofile, panic>>

\* A directory that is not empty.
UnlinkRefuse(p) ==
    LET i == t[p].ip
    IN  /\ CanLock(p, "unlink2", i)
        /\ In(i).nlink > 0
        /\ In(i).type = "DIR"
        /\ dir[i] # NoEntries
        /\ ILocked({i})
        /\ t' = [t EXCEPT ![p] = Puts([@ EXCEPT !.ip = 0], i, "unlinkbad")]
        /\ UNCHANGED <<dir, ref, holder, fref, fip, ofile, panic>>

UnlinkBad(p) ==
    LET d == t[p].dp
    IN  /\ ~panic
        /\ t[p].pc = "unlinkbad"
        /\ holder' = [holder EXCEPT ![d] = Nobody]
        /\ t' = [t EXCEPT ![p] = LastPut(d)]
        /\ UNCHANGED <<disk, dir, core, ref, fref, fip, ofile, panic>>

\* The entry is erased and dp unlocked and put, with ip still locked.
UnlinkErase(p) ==
    LET i == t[p].ip
        d == t[p].dp
    IN  /\ CanLock(p, "unlink2", i)
        /\ In(i).nlink > 0
        /\ In(i).type = "DIR" => dir[i] = NoEntries
        /\ dir' = [dir EXCEPT ![d][Name(p)] = 0]
        /\ IUpdate([j \in {i, d} |->
                        IF j = d /\ In(i).type = "DIR" THEN Links(d, -1)
                        ELSE In(j)])
        /\ holder' = [holder EXCEPT ![i] = p, ![d] = Nobody]
        /\ t' = [t EXCEPT ![p] = Puts([Thread EXCEPT !.ip = i], d, "unlink3")]
        /\ UNCHANGED <<ref, fref, fip, ofile, panic>>

UnlinkEnd(p) ==
    LET i == t[p].ip
    IN  /\ ~panic
        /\ t[p].pc = "unlink3"
        /\ IUpdate([j \in {i} |-> Links(i, -1)])
        /\ holder' = [holder EXCEPT ![i] = Nobody]
        /\ t' = [t EXCEPT ![p] = LastPut(i)]
        /\ UNCHANGED <<dir, ref, fref, fip, ofile, panic>>

SysUnlink(p) ==
    \/ UnlinkMissing(p) \/ UnlinkFound(p) \/ UnlinkRefuse(p)
    \/ UnlinkBad(p) \/ UnlinkErase(p) \/ UnlinkEnd(p)

-----------------------------------------------------------------------------
(* create(), for open(O_CREATE) and mkdir()                                *)

\* open() with its inode i locked.
Opened(i) == [Thread EXCEPT !.pc = "opened", !.ip = i]

\* The name exists: dp is unlocked and put before ip is locked.
CreateFound(p) ==
    LET d == t[p].dp
        i == dir[d][Name(p)]
    IN  /\ CanLock(p, "parent", d)
        /\ t[p].call \in {"create", "mkdir"}
        /\ i # 0
        /\ ILocked({d})
        /\ IGet(i)
        /\ t' = [t EXCEPT ![p] = Puts([Thread EXCEPT !.ip = i,
                                                     !.call = t[p].call],
                                      d, "create2")]
        /\ UNCHANGED <<dir, holder, fref, fip, ofile, panic>>

\* open() of an existing file goes on with ip locked; anything else fails.
CreateOpens(p) ==
    LET i == t[p].ip
    IN  /\ CanLock(p, "create2", i)
        /\ t[p].call = "create" /\ In(i).type = "FILE"
        /\ ILocked({i})
        /\ holder' = [holder EXCEPT ![i] = p]
        /\ t' = [t EXCEPT ![p] = Opened(i)]
        /\ UNCHANGED <<dir, ref, fref, fip, ofile, panic>>

CreateExists(p) ==
    LET i == t[p].ip
    IN  /\ CanLock(p, "create2", i)
        /\ ~(t[p].call = "create" /\ In(i).type = "FILE")
        /\ ILocked({i})
        /\ t' = [t EXCEPT ![p] = LastPut(i)]
        /\ UNCHANGED <<dir, ref, holder, fref, fip, ofile, panic>>

\* The first free inode on the disk is the one ialloc() takes.
IsFirstFree(i) ==
    disk[i].type = "free" /\ \A j \in Inums : j < i => disk[j].type # "free"

\* ialloc() and its iget(), dp locked.
CreateAlloc(p, i) ==
    LET d == t[p].dp
    IN  /\ CanLock(p, "parent", d)
        /\ t[p].call \in {"create", "mkdir"}
        /\ dir[d][Name(p)] = 0
        /\ t[p].call = "mkdir" => In(d).nlink < MaxLinks
        /\ IsFirstFree(i)
        /\ core' = [core EXCEPT ![d] = In(d)]
        /\ disk' = [disk EXCEPT ![i] =
                        [Free EXCEPT !.type = IF t[p].call = "mkdir" THEN "DIR"
                                              ELSE "FILE"]]
        /\ IGet(i)
        /\ holder' = [holder EXCEPT ![d] = p]
        /\ t' = [t EXCEPT ![p].pc = "create3", ![p].ip = i]
        /\ UNCHANGED <<dir, fref, fip, ofile, panic>>

\* panic("ialloc: no inodes")
CreatePanic(p) ==
    /\ CanLock(p, "parent", t[p].dp)
    /\ t[p].call \in {"create", "mkdir"}
    /\ dir[t[p].dp][Name(p)] = 0
    /\ \A i \in Inums : disk[i].type # "free"
    /\ panic' = TRUE
    /\ UNCHANGED <<disk, dir, core, ref, holder, fref, fip, ofile, t>>

\* ip locked, linked into dp, which is unlocked and put with ip still locked.
CreateLink(p) ==
    LET i == t[p].ip
        d == t[p].dp
    IN  /\ CanLock(p, "create3", i)
        /\ IUpdate([j \in {i, d} |->
                        IF j = i THEN [In(i) EXCEPT !.nlink = 1]
                        ELSE IF t[p].call = "mkdir" THEN Links(d, 1)
                        ELSE In(d)])
        /\ dir' = [dir EXCEPT ![d][Name(p)] = i]
        /\ holder' = [holder EXCEPT ![i] = p, ![d] = Nobody]
        /\ t' = [t EXCEPT ![p] = Puts([Thread EXCEPT !.ip = i,
                                                     !.call = t[p].call],
                                      d, "created")]
        /\ UNCHANGED <<ref, fref, fip, ofile, panic>>

\* create() returns ip locked: open() goes on, mkdir() puts it.
Created(p) ==
    LET i == t[p].ip
    IN  /\ ~panic
        /\ t[p].pc = "created"
        /\ IF t[p].call = "mkdir"
           THEN /\ holder' = [holder EXCEPT ![i] = Nobody]
                /\ t' = [t EXCEPT ![p] = LastPut(i)]
           ELSE /\ t' = [t EXCEPT ![p] = Opened(i)]
                /\ UNCHANGED holder
        /\ UNCHANGED <<disk, dir, core, ref, fref, fip, ofile, panic>>

Create(p) ==
    \/ CreateFound(p) \/ CreateOpens(p) \/ CreateExists(p)
    \/ \E i \in Inums : CreateAlloc(p, i)
    \/ CreatePanic(p) \/ CreateLink(p) \/ Created(p)

-----------------------------------------------------------------------------
(* sys_link()                                                              *)

\* Mutant: nlink is left alone.
LinkUncounted(p) ==
    LET i == t[p].ip
    IN  /\ CanLock(p, "link1", i)
        /\ In(i).type # "DIR"
        /\ ILocked({i})
        /\ IGet(ROOTINO)
        /\ t' = [t EXCEPT ![p].pc = "walk", ![p].path = t[p].new,
                          ![p].new = <<>>, ![p].old = i, ![p].ip = ROOTINO]
        /\ UNCHANGED <<dir, holder, fref, fip, ofile, panic>>

\* The link is counted before it is made.
LinkCount(p) ==
    LET i == t[p].ip
    IN  /\ CanLock(p, "link1", i)
        /\ IF In(i).type = "DIR"
           THEN /\ ILocked({i})
                /\ t' = [t EXCEPT ![p] = LastPut(i)]
                /\ UNCHANGED ref
           ELSE /\ In(i).nlink < MaxLinks
                /\ IUpdate([j \in {i} |-> Links(i, 1)])
                /\ IGet(ROOTINO)
                /\ t' = [t EXCEPT ![p].pc = "walk", ![p].path = t[p].new,
                                  ![p].new = <<>>, ![p].old = i,
                                  ![p].ip = ROOTINO]
        /\ UNCHANGED <<dir, holder, fref, fip, ofile, panic>>

\* dirlink() finds the name taken: its dirlookup() is put with dp locked.
LinkTaken(p) ==
    LET d == t[p].dp
        i == dir[d][Name(p)]
    IN  /\ CanLock(p, "parent", d)
        /\ t[p].call = "link"
        /\ i # 0
        /\ ILocked({d})
        /\ IGet(i)
        /\ holder' = [holder EXCEPT ![d] = p]
        /\ t' = [t EXCEPT ![p] = Puts(@, i, "linkput")]
        /\ UNCHANGED <<dir, fref, fip, ofile, panic>>

LinkPut(p) ==
    LET d == t[p].dp
    IN  /\ ~panic
        /\ t[p].pc = "linkput"
        /\ holder' = [holder EXCEPT ![d] = Nobody]
        /\ t' = [t EXCEPT ![p] = Puts([Thread EXCEPT !.old = t[p].old], d,
                                      "linkbad")]
        /\ UNCHANGED <<disk, dir, core, ref, fref, fip, ofile, panic>>

\* bad: the count is taken back.
LinkBad(p) ==
    LET i == t[p].old
    IN  /\ CanLock(p, "linkbad", i)
        /\ IUpdate([j \in {i} |-> Links(i, -1)])
        /\ t' = [t EXCEPT ![p] = LastPut(i)]
        /\ UNCHANGED <<dir, ref, holder, fref, fip, ofile, panic>>

LinkMade(p) ==
    LET d == t[p].dp
    IN  /\ CanLock(p, "parent", d)
        /\ t[p].call = "link"
        /\ dir[d][Name(p)] = 0
        /\ ILocked({d})
        /\ dir' = [dir EXCEPT ![d][Name(p)] = t[p].old]
        /\ t' = [t EXCEPT ![p] = Puts([Thread EXCEPT !.old = t[p].old], d,
                                      "linkend")]
        /\ UNCHANGED <<ref, holder, fref, fip, ofile, panic>>

LinkEnd(p) ==
    /\ ~panic
    /\ t[p].pc = "linkend"
    /\ t' = [t EXCEPT ![p] = LastPut(t[p].old)]
    /\ UNCHANGED <<disk, dir, core, ref, holder, fref, fip, ofile, panic>>

SysLink(p) ==
    \/ LinkCount(p) \/ LinkTaken(p) \/ LinkPut(p) \/ LinkBad(p)
    \/ LinkMade(p) \/ LinkEnd(p)

-----------------------------------------------------------------------------
(* sys_open(), sys_close() and the files fork() shares                      *)

\* open() without O_CREATE: refused for a directory that is not only read.
OpenLock(p) ==
    LET i == t[p].ip
    IN  /\ CanLock(p, "open1", i)
        /\ ILocked({i})
        /\ \/ /\ holder' = [holder EXCEPT ![i] = p]
              /\ t' = [t EXCEPT ![p] = Opened(i)]
           \/ /\ In(i).type = "DIR"
              /\ t' = [t EXCEPT ![p] = LastPut(i)]
              /\ UNCHANGED holder
        /\ UNCHANGED <<dir, ref, fref, fip, ofile, panic>>

IsFreeFile(f) == fref[f] = 0 /\ \A g \in Files : g < f => fref[g] # 0

IsFreeFD(p, d) == ofile[p][d] = 0 /\ \A e \in FDs : e < d => ofile[p][e] # 0

\* filealloc() and fdalloc() succeed; the file takes over the reference.
OpenDone(p, f, d) ==
    LET i == t[p].ip
    IN  /\ ~panic
        /\ t[p].pc = "opened"
        /\ IsFreeFile(f)
        /\ IsFreeFD(p, d)
        /\ fref' = [fref EXCEPT ![f] = 1]
        /\ fip' = [fip EXCEPT ![f] = i]
        /\ ofile' = [ofile EXCEPT ![p][d] = f]
        /\ holder' = [holder EXCEPT ![i] = Nobody]
        /\ t' = [t EXCEPT ![p] = Thread]
        /\ UNCHANGED <<disk, dir, core, ref, panic>>

OpenFail(p) ==
    LET i == t[p].ip
    IN  /\ ~panic
        /\ t[p].pc = "opened"
        /\ \/ \A f \in Files : fref[f] # 0
           \/ \A d \in FDs : ofile[p][d] # 0
        /\ holder' = [holder EXCEPT ![i] = Nobody]
        /\ t' = [t EXCEPT ![p] = LastPut(i)]
        /\ UNCHANGED <<disk, dir, core, ref, fref, fip, ofile, panic>>

\* fileclose(): the last descriptor frees the file and puts the inode.
SysClose(p, d) ==
    LET f == ofile[p][d]
    IN  /\ ~panic
        /\ t[p].pc = "idle"
        /\ f # 0
        /\ ofile' = [ofile EXCEPT ![p][d] = 0]
        /\ fref' = [fref EXCEPT ![f] = @ - 1]
        /\ IF fref[f] > 1 THEN UNCHANGED <<fip, t>>
           ELSE /\ fip' = [fip EXCEPT ![f] = 0]
                /\ t' = [t EXCEPT ![p] = LastPut(fip[f])]
        /\ UNCHANGED <<disk, dir, core, ref, holder, panic>>

\* fork(): the child q, a process with nothing open, shares the files of p.
ForkFiles(p, q) ==
    /\ ~panic
    /\ t[p].pc = "idle" /\ t[q].pc = "idle"
    /\ \E d \in FDs : ofile[p][d] # 0
    /\ \A d \in FDs : ofile[q][d] = 0
    /\ ofile' = [ofile EXCEPT ![q] = ofile[p]]
    /\ fref' = [f \in Files |->
                    fref[f] + Cardinality({d \in FDs : ofile[p][d] = f})]
    /\ UNCHANGED <<disk, dir, core, ref, holder, fip, t, panic>>

SysFile(p) ==
    \/ OpenLock(p) \/ OpenFail(p)
    \/ \E f \in Files, d \in FDs : OpenDone(p, f, d)
    \/ \E d \in FDs : SysClose(p, d)
    \/ \E q \in Procs : ForkFiles(p, q)

SysCall(p) ==
    \/ \E call \in {"open", "create", "mkdir", "unlink"}, path \in Paths :
            Begin(p, call, path, <<>>)
    \/ \E path \in Paths, new \in LinkPaths : Begin(p, "link", path, new)

Next ==
    \E p \in Procs :
        \/ SysCall(p) \/ Namex(p) \/ SysUnlink(p) \/ Create(p) \/ SysLink(p)
        \/ SysFile(p) \/ IPut(p)

Spec == Init /\ [][Next]_vars

-----------------------------------------------------------------------------
Refs == {0} \cup Inums
Dinodes == [type : {"free", "DIR", "FILE"}, nlink : Nat]

TypeOK ==
    /\ disk \in [Inums -> Dinodes]
    /\ dir \in [Inums -> [Names -> Refs]]
    /\ core \in [Inums -> Dinodes \cup {NotValid}]
    /\ ref \in [Inums -> Nat]
    /\ holder \in [Inums -> Procs \cup {Nobody}]
    /\ fref \in [Files -> Nat]
    /\ fip \in [Files -> Refs]
    /\ ofile \in [Procs -> [FDs -> {0} \cup Files]]
    /\ panic \in BOOLEAN
    /\ \A p \in Procs :
        /\ t[p].pc \in Places /\ t[p].after \in Places
        /\ t[p].call \in Calls
        /\ {t[p].ip, t[p].dp, t[p].old, t[p].put} \subseteq Refs

\* The locals of the calls that point to inode i.
Pointers(i) ==
    {x \in {"ip", "dp", "old", "put"} \X Procs : t[x[2]][x[1]] = i}

\* ip->ref is the number of pointers to the inode (locals, open files, and the
\* cwd of the processes for the root), over every failure path of
\* every call: none is dropped twice, none is lost.  Likewise f->ref is the
\* number of descriptors, over open, close and fork.
RefsCounted ==
    /\ \A i \in Inums :
        ref[i] = Cardinality(Pointers(i))
                    + Cardinality({f \in Files : fip[f] = i})
                    + (IF i = ROOTINO THEN 1 ELSE 0)
    /\ \A f \in Files :
        fref[f] = Cardinality({x \in Procs \X FDs : ofile[x[1]][x[2]] = f})

\* An inode is freed on the disk only when nothing can reach it: no directory
\* names it and no open file or other call points to it.
FreesUnused ==
    \A p \in Procs : t[p].pc = "ifree" =>
        /\ \A d \in Inums, n \in Names : dir[d][n] # t[p].put
        /\ \A f \in Files : fip[f] # t[p].put
        /\ ref[t[p].put] = 1

\* nlink is never below the number of entries that name the inode, and what an
\* entry names is allocated: the count goes up before the link is made, and
\* down after it is gone.
LinksCounted ==
    \A i \in Inums :
        LET E == {x \in Inums \X Names : dir[x[1]][x[2]] = i}
        IN  E # {} => disk[i].type # "free" /\ disk[i].nlink >= Cardinality(E)

\* The counts on which iput() and fileclose() free something are right after
\* every step of every call, its failures included: the references in memory
\* are exact, the links on the disk never too few.
CountsRight == RefsCounted /\ LinksCounted

\* The valid fields of an unlocked inode are those on the disk, although
\* ialloc() writes the disk without the lock and may do so while iput() is
\* still busy freeing the same inode.
Coherent ==
    \A i \in Inums :
        holder[i] = Nobody /\ core[i] # NotValid => core[i] = disk[i]

\* No process comes to panic("ilock: no type") or panic("unlink: nlink < 1"):
\* an inode somebody is about to lock has not been freed under it, and one
\* about to be unlinked has a link left.
NoPanic ==
    \A p \in Procs :
        Wants(p) # 0 /\ t[p].pc # "iput" /\ holder[Wants(p)] = Nobody =>
            /\ In(Wants(p)).type # "free"
            /\ t[p].pc = "unlink2" => In(Wants(p)).nlink > 0

\* No set of processes waits for sleep locks that its members hold.
NoDeadlock ==
    \A S \in SUBSET Procs \ {{}} :
        \E p \in S : Wants(p) = 0 \/ holder[Wants(p)] \notin S
=============================================================================

------------------------------ MODULE AtomicDisk -----------------------------
(***************************************************************************)
(* What the logging layer promises to the file system: the writes of an    *)
(* operation become durable all together or not at all.  The disk moves    *)
(* only when no operation is under way, and then takes everything written  *)
(* so far; a crash takes memory back to the disk.                          *)
(***************************************************************************)
EXTENDS FiniteSets

CONSTANTS Op, Block, Val

VARIABLES
    mem,        \* the blocks as operations see them
    durable,    \* the blocks as the next boot will see them
    active      \* the operations under way

diskVars == <<mem, durable, active>>

DInit ==
    /\ mem \in [Block -> Val]
    /\ durable = mem
    /\ active = {}

Begin(o) ==
    /\ o \notin active
    /\ active' = active \cup {o}
    /\ UNCHANGED <<mem, durable>>

Write(o, b, v) ==
    /\ o \in active
    /\ mem' = [mem EXCEPT ![b] = v]
    /\ UNCHANGED <<durable, active>>

End(o) ==
    /\ o \in active
    /\ active' = active \ {o}
    /\ UNCHANGED <<mem, durable>>

Commit ==
    /\ active = {}
    /\ durable' = mem
    /\ UNCHANGED <<mem, active>>

Crash ==
    /\ mem' = durable
    /\ active' = {}
    /\ UNCHANGED durable

DNext ==
    \/ \E o \in Op : Begin(o) \/ End(o)
    \/ \E o \in Op, b \in Block, v \in Val : Write(o, b, v)
    \/ Commit
    \/ Crash

DSpec == DInit /\ [][DNext]_diskVars
=============================================================================

------------------------------ MODULE ByteQueue ------------------------------
(***************************************************************************)
(* What a pipe promises: a bounded first-in first-out queue of bytes, a    *)
(* write end and a read end that are closed once and for all, and nothing  *)
(* left to use once both are.                                              *)
(***************************************************************************)
EXTENDS Naturals, Sequences

CONSTANTS Size, Byte

VARIABLES
    q,              \* the bytes in transit
    readopen,       \* the read end is open
    writeopen       \* the write end is open

queueVars == <<q, readopen, writeopen>>

QInit == q = <<>> /\ readopen = TRUE /\ writeopen = TRUE

Put(b) ==
    /\ writeopen
    /\ Len(q) < Size
    /\ q' = Append(q, b)
    /\ UNCHANGED <<readopen, writeopen>>

Get ==
    /\ readopen
    /\ q # <<>>
    /\ q' = Tail(q)
    /\ UNCHANGED <<readopen, writeopen>>

CloseWrite == writeopen = TRUE /\ writeopen' = FALSE /\ UNCHANGED <<q, readopen>>

CloseRead == readopen = TRUE /\ readopen' = FALSE /\ UNCHANGED <<q, writeopen>>

QNext == (\E b \in Byte : Put(b)) \/ Get \/ CloseWrite \/ CloseRead

QSpec == QInit /\ [][QNext]_queueVars
=============================================================================

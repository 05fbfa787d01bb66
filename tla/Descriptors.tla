----------------------------- MODULE Descriptors -----------------------------
(***************************************************************************)
(* The descriptors of a process, as the two shells use them: a function f  *)
(* from numbers to files.  A call on a number that is not open fails and   *)
(* changes nothing; open(), dup() and pipe() take the lowest numbers.  The *)
(* calls are those of sysfile.c; dup2() exists only on the system that the *)
(* shell of assignment 3 runs on.                                          *)
(***************************************************************************)
EXTENDS Integers, FiniteSets

Closed == <<0, "closed">>
Terminal == <<0, "terminal">>
AFile == <<0, "file">>

IsOpen(f, n) == n \in DOMAIN f /\ f[n] # Closed
Lowest(f) ==
    LET S == {n \in DOMAIN f : f[n] = Closed}
    IN  IF S = {} THEN -1 ELSE CHOOSE n \in S : \A k \in S : n <= k
Opened(f, file) == IF Lowest(f) = -1 THEN f ELSE [f EXCEPT ![Lowest(f)] = file]
Close(f, n) == IF IsOpen(f, n) THEN [f EXCEPT ![n] = Closed] ELSE f
Dup(f, n) == IF IsOpen(f, n) THEN Opened(f, f[n]) ELSE f
Dup2(f, n, m) == IF IsOpen(f, n) THEN [f EXCEPT ![m] = f[n]] ELSE f
MovedTo(f, n, m) == Close(Dup2(f, n, m), n)     \* dup2(n, m); close(n)

\* The ends of pipe k are <<k, "r">> and <<k, "w">>; pipe() opens both.
IsEnd(file) == file[1] > 0
PipeEnds(f) == <<Lowest(f), Lowest(Opened(f, AFile))>>
Piped(f, k) == Opened(Opened(f, <<k, "r">>), <<k, "w">>)
EndsOf(f) == {<<n, f[n]>> : n \in {k \in DOMAIN f : IsEnd(f[k])}}
=============================================================================

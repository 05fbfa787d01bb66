------------------------------- MODULE MCFiles -------------------------------
(* Two processes in a root and one directory below it.                     *)
EXTENDS Files, TLC

PathSet == {<<"a">>, <<"b">>, <<"a", "b">>}
LinkSet == {<<"b">>}
MCSymmetry == Permutations(Procs)
=============================================================================

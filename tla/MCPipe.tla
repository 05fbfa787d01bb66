------------------------------- MODULE MCPipe -------------------------------
(* Interchangeable writers and readers.                                    *)
EXTENDS Pipe, TLC

Symmetry == Permutations(Writers) \cup Permutations(Readers)
=============================================================================

------------------------------- MODULE MCProc -------------------------------
(* Proc on a table small enough to run full, with two CPUs.                *)
EXTENDS Proc
=============================================================================

------------------------------- MODULE MCMLFQ -------------------------------
(* Two levels, and aging after one or two ticks.                           *)
EXTENDS MLFQ
=============================================================================

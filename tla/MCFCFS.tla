------------------------------- MODULE MCFCFS -------------------------------
(* First come first served on one CPU, with enough ticks and pids for a    *)
(* slot to be reused in a later tick than its neighbour's.                 *)
EXTENDS FCFS
=============================================================================

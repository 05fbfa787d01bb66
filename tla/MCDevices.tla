------------------------------ MODULE MCDevices ------------------------------
(***************************************************************************)
(* The disk with its buffers and the console input on small instances.     *)
(* They share nothing but the process table, so a behaviour follows one of *)
(* the two: the states are those of each, not their product.               *)
(***************************************************************************)
EXTENDS BufferCache, Console

VARIABLE device             \* the device the behaviour is about

Init == BufInit /\ ConsInit /\ device \in {"disk", "console"}

Next ==
    \/ device = "disk" /\ BufNext /\ UNCHANGED <<device, consVars>>
    \/ device = "console" /\ ConsNext /\ UNCHANGED <<device, bufVars>>

Spec ==
    /\ Init /\ [][Next]_<<device, bufVars, consVars>>
    /\ (device = "disk") => BufFairness
=============================================================================

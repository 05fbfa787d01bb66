-------------------------------- MODULE MCRR --------------------------------
(***************************************************************************)
(* Round robin on one CPU, the kernel's default build.  passed[p] is the   *)
(* set of slots a scheduler has picked since p became RUNNABLE.            *)
(***************************************************************************)
EXTENDS RR

VARIABLE passed

mcVars == <<rrVars, passed>>

Picked == {q \in Slots : state[q] = "RUNNABLE" /\ state'[q] = "RUNNING"}

MCInit == RRInit /\ passed = [p \in Slots |-> {}]

MCNext ==
    /\ RRNext
    /\ passed' = [p \in Slots |->
                    IF state[p] = "RUNNABLE" /\ state'[p] = "RUNNABLE"
                    THEN passed[p] \cup Picked ELSE {}]

MCSpec == MCInit /\ [][MCNext]_mcVars /\ RRFairness

\* Bounded bypass: on one CPU, no other process is run twice while a process
\* stays RUNNABLE.  The scan goes on from the slot it left, and a new scan
\* begins only when it has passed the end of the table.
BoundedBypass ==
    [][\A p \in Slots : state[p] = "RUNNABLE" /\ state'[p] = "RUNNABLE"
            => Picked \cap passed[p] = {}]_mcVars
=============================================================================

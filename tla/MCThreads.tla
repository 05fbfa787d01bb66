------------------------------ MODULE MCThreads ------------------------------
(***************************************************************************)
(* The three concurrent programs of assignment 4 on small instances.  They *)
(* share nothing: a behaviour is one program's.                            *)
(***************************************************************************)
EXTENDS Vaccine, Concert, MergeSort

VARIABLE program

Init ==
    /\ DriveInit /\ ConcertInit /\ SortInit
    /\ program \in {"sort", "drive", "concert"}

Next ==
    \/ program = "sort" /\ SortNext /\ UNCHANGED <<program, driveVars, concertVars>>
    \/ program = "drive" /\ DriveNext /\ UNCHANGED <<program, concertVars, sortVars>>
    \/ program = "concert" /\ ConcertNext /\ UNCHANGED <<program, driveVars, sortVars>>

\* Every thread of the program that was started is scheduled.  A student spins
\* until it meets a zone whose lock is free and which has a slot left, and need
\* not be lucky; the timed waits of the concert run out.
Fairness ==
    /\ \A c \in Companies : WF_driveVars(program = "drive" /\ Company(c))
    /\ \A z \in Zones : WF_driveVars(program = "drive" /\ Zone(z))
    /\ \A s \in Students :
            WF_driveVars(program = "drive" /\ (Arrive(s) \/ StudentCheck(s)))
    /\ \A m \in Musicians : WF_concertVars(program = "concert" /\ Musician(m))

Spec == Init /\ [][Next]_<<program, driveVars, concertVars, sortVars>> /\ Fairness

\* Everybody goes home from the concert: no thread waits for ever for a stage,
\* for a coordinator or for the lock, so main() gets to "Finished".
AllGoHome == (program = "concert") => AllLeave
=============================================================================

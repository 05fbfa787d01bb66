------------------------------ MODULE MCStorage ------------------------------
(***************************************************************************)
(* The disk: the log (module Log) and the blocks of files (module          *)
(* FileData).  The log makes each operation atomic whatever its blocks     *)
(* hold, and FileData's calls never meet a crash, so a behaviour follows   *)
(* one of the two: the states are those of each, not their product.        *)
(*                                                                         *)
(* The header holds two operations' reservation, so that a third block is  *)
(* one too many.  A file may have one direct block and two of the indirect *)
(* block, and the disk fills up.                                           *)
(***************************************************************************)
EXTENDS Log, FileData

VARIABLE which              \* what the behaviour is about

storageVars == <<which, vars, fdVars>>

StorageInit ==
    /\ which \in {"log", "data"}
    /\ Init /\ FDInit
    /\ which # "log" =>
            (\A b \in Blocks : home[b] = 0) /\ (\A k \in InLog : logd[k] = 0)

StorageNext ==
    \/ which = "log" /\ Next /\ UNCHANGED <<which, fdVars>>
    \/ which = "data" /\ FDNext /\ UNCHANGED <<which, vars>>

\* Fairness of module Log, of its own behaviours.
LogFairness ==
    /\ WF_storageVars(which = "log" /\ CommitSteps /\ UNCHANGED <<which, fdVars>>)
    /\ WF_storageVars(which = "log" /\ (ReadHead \/ Boot)
                      /\ UNCHANGED <<which, fdVars>>)
    /\ \A p \in Procs :
        /\ SF_storageVars(which = "log" /\ EndOp(p) /\ UNCHANGED <<which, fdVars>>)
        /\ WF_storageVars(which = "log" /\ Proc(p) /\ UNCHANGED <<which, fdVars>>)

StorageSpec == StorageInit /\ [][StorageNext]_storageVars /\ LogFairness
=============================================================================

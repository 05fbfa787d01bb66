------------------------------ MODULE MCPolicies -----------------------------
(***************************************************************************)
(* Priority scheduling and the multi-level feedback queue on one CPU (a    *)
(* kernel is built with one of the two), and what every policy rests on:   *)
(* the spin locks and the interrupt flag, on two CPUs.  A behaviour        *)
(* follows one of the three: the states are those of each.                 *)
(*                                                                         *)
(* Two levels, aging after one or two ticks; two priorities, of which the  *)
(* default is the better one.  Two threads, that sleep and are preempted,  *)
(* move between the CPUs.                                                  *)
(***************************************************************************)
EXTENDS PBS, MLFQ, Spinlock, TLC

VARIABLE policy             \* SCHEDPOLICY of the Makefile, or "locks"

\* The CPUs and the threads of module Spinlock are alike.
Symmetry == Permutations(LkCPUs) \cup Permutations(Threads)

policyVars == <<policy, vars, priority, scan, currMinPrio, ticks, cur_q, toe,
                slice, cpu, due, lockVars>>

PolicyInit ==
    /\ policy \in {"PBS", "MLFQ", "locks"}
    /\ PBSInit /\ MLFQInit /\ LockInit

PolicyNext ==
    \/ /\ policy = "PBS" /\ PBSNext
       /\ UNCHANGED <<policy, ticks, cur_q, toe, slice, cpu, due, lockVars>>
    \/ /\ policy = "MLFQ" /\ MLFQNext
       /\ UNCHANGED <<policy, priority, scan, currMinPrio, lockVars>>
    \/ /\ policy = "locks" /\ LockNext
       /\ UNCHANGED <<policy, vars, priority, scan, currMinPrio, ticks, cur_q,
                      toe, slice, cpu, due>>

PolicySpec == PolicyInit /\ [][PolicyNext]_policyVars

\* Whatever the policy, who can run is found.  With PBS.c a scan that begins
\* with a RUNNABLE process switches to one; with MLFQ.c a process that can run
\* is in a queue, and one that runs has a slice left, at most that of its
\* level, through any sequence of demotions, agings, sleeps and reused slots.
PolicySound ==
    /\ policy = "PBS" => WorkConserving
    /\ policy = "MLFQ" => InSomeQueue /\ SliceExact
=============================================================================

---------------------------- MODULE MCScheduler ----------------------------
(***************************************************************************)
(* Small instances of Scheduler.                                           *)
(***************************************************************************)
EXTENDS Scheduler, TLC

\* Records and variables are interchangeable.
Symmetry == Permutations(Act) \cup Permutations(SV)
=============================================================================

---------------------------- MODULE MCEventQueue ----------------------------
(***************************************************************************)
(* Small instances of EventQueue.                                          *)
(***************************************************************************)
EXTENDS EventQueue, TLC

\* The heap never looks at which variable it holds.
Symmetry == Permutations(SV)
=============================================================================

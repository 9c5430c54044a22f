----------------------------- MODULE MCActQueue -----------------------------
(***************************************************************************)
(* Small instances of ActQueue.                                            *)
(***************************************************************************)
EXTENDS ActQueue, TLC

\* The heap never looks at which record it holds.
Symmetry == Permutations(Act)
=============================================================================

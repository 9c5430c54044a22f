---------------------------- MODULE MCTriggerList ----------------------------
(***************************************************************************)
(* Triggers are numbers, and the priorities of their routines.             *)
(***************************************************************************)
EXTENDS TriggerList

MCPriority == [t \in Triggers |-> t]
=============================================================================

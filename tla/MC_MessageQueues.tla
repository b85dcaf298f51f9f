-------------------------- MODULE MC_MessageQueues --------------------------
(***************************************************************************)
(* Instances of MessageQueues for TLC.                                     *)
(***************************************************************************)
EXTENDS MessageQueues

=============================================================================

---------------------------- MODULE MCPartitioner ----------------------------
(***************************************************************************)
(* Instances of Partitioner for TLC.                                       *)
(***************************************************************************)
EXTENDS Partitioner

=============================================================================

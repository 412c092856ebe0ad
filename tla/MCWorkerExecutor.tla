--------------------------- MODULE MCWorkerExecutor ---------------------------
(***************************************************************************)
(* Instances of WorkerExecutor for TLC.                                    *)
(***************************************************************************)
EXTENDS WorkerExecutor

=============================================================================

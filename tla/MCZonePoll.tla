------------------------------ MODULE MCZonePoll ------------------------------
(***************************************************************************)
(* Instances of ZonePoll for TLC.                                          *)
(***************************************************************************)
EXTENDS ZonePoll, TLC

\* The nameservers of a pool are interchangeable.
Symmetry == Permutations(Nameservers)

=============================================================================

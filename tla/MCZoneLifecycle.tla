--------------------------- MODULE MCZoneLifecycle ---------------------------
(***************************************************************************)
(* Instances of ZoneLifecycle for TLC.                                     *)
(***************************************************************************)
EXTENDS ZoneLifecycle, TLC

\* Workers are interchangeable, and so are nameservers of one pool.
Symmetry == Permutations(Jobs) \union Permutations(Nameservers)

=============================================================================

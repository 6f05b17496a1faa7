---------------------------- MODULE MCHostCounters ----------------------------
(***************************************************************************)
(* HostCounters for TLC.                                                   *)
(***************************************************************************)
EXTENDS HostCounters, TLC

\* Samples in flight are alike.
Symmetry == Permutations(Samples)

=============================================================================

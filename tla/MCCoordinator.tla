--------------------------- MODULE MCCoordinator ---------------------------
(* Small instances of Coordinator for TLC. *)
EXTENDS Coordinator, TLC

\* Tasks, calls, refreshes and polls are alike; sound for safety only.
Symmetry ==
  Permutations(Tasks) \cup Permutations(Calls) \cup Permutations(Refreshes)
    \cup Permutations(Polls)

=============================================================================

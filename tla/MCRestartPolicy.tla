--------------------------- MODULE MCRestartPolicy ---------------------------
(***************************************************************************)
(* RestartPolicy for TLC.                                                  *)
(***************************************************************************)
EXTENDS RestartPolicy, TLC

\* Actions in flight are alike.
Symmetry == Permutations(Actions)

=============================================================================

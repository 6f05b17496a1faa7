-------------------------- MODULE MCConfigEntries --------------------------
(* A small instance of ConfigEntries for TLC. *)
EXTENDS ConfigEntries, TLC

\* Flows, sensor ids and entries are alike; sound for safety only.
Symmetry == Permutations(Flows) \cup Permutations(Ids) \cup Permutations(Entries)
              \cup Permutations(Hosts)

=============================================================================

---------------------------- MODULE MCInventory ----------------------------
(* A small instance of Inventory for TLC: two container names, of the three, *)
(* and two drives, of the three, share their key.                            *)
EXTENDS Inventory

CONSTANTS a, b, c, ab, cc, d1, d2, d3, s1, s2

\* One platform of each kind at a time, or none and drives.
MCExplored == {{"switch", "sensor"}, {"button", "binary_sensor"}, {}}

MCKeyOf == [n \in Names |-> IF n = c THEN cc ELSE ab]
MCSerialOf == [d \in Drives |-> CASE d = d1 -> s1 [] d = d2 -> s2 [] d = d3 -> s2]

=============================================================================

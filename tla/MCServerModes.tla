---------------------------- MODULE MCServerModes ----------------------------
(* An instance of ServerModes for TLC. *)
EXTENDS ServerModes

CONSTANTS c1, c2

Two == {c1, c2}
Distinct == [c \in Two |-> IF c = c1 THEN 7 ELSE -8]
ThreeOne == [c \in Two |-> IF c = c1 THEN 3 ELSE 1]
==============================================================================

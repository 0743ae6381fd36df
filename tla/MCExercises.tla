----------------------------- MODULE MCExercises -----------------------------
(* Exercises with the inputs that need more than a model value.                *)
EXTENDS Exercises

AllPipelines == UNION {[1..k -> Pieces] : k \in 1..MaxPieces}
AllTexts == UNION {[1..k -> {Letter, Minus, Space, 0, 1, 3, 5}] : k \in 0..5}
SomeRegions == {Lock("F_WRLCK", 1, 2), Lock("F_RDLCK", 4, 1), Lock("F_WRLCK", 5, 1),
                Lock("F_WRLCK", 3, 0)}
==============================================================================

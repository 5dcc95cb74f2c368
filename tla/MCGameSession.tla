--------------------------- MODULE MCGameSession ---------------------------
(* Two dogs and two kinds of loot of different value.                        *)
EXTENDS GameSession, TLC

TwoValues == [t \in Types |-> IF t = 0 THEN 1 ELSE 3]

Symmetry == Permutations(DogIds)

=============================================================================

--------------------------- MODULE MCLootGenerator --------------------------
(* Two dogs and two kinds of loot of different value.                        *)
EXTENDS LootGenerator, TLC

TwoValues == [t \in Types |-> IF t = 0 THEN 1 ELSE 3]

Symmetry == Permutations(DogIds)

\* One unit of time in four brings a piece.
ThreeQuarters == <<3, 4>>

=============================================================================

------------------------------- MODULE MCApi -------------------------------
(* A small game for TLC; tokens and maps are interchangeable.               *)
EXTENDS Api, TLC

Symmetry == Permutations(Tokens) \cup Permutations(Maps)
Times == {-1, 1}

=============================================================================

--------------------------- MODULE MCApplication ---------------------------
(* A small registry for TLC.  Users and maps are interchangeable.           *)
EXTENDS Application, TLC

Symmetry == Permutations(Users) \cup Permutations(Maps)

=============================================================================

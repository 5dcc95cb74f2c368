------------------------------ MODULE MCClient ------------------------------
(* One page, one other player, two requests for the state at a time.         *)
EXTENDS Client

=============================================================================

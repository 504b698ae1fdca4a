------------------------------ MODULE MCSwiss ------------------------------
(* Instances of Swiss for TLC: up to five players. *)
EXTENDS Swiss

CONSTANTS a, b, c, d, e

\* Every other shuffle is this one with the players renamed.
OneShuffle ==
  {[p \in Player |-> CASE p = a -> 1 [] p = b -> 2 [] p = c -> 3 [] p = d -> 4 [] OTHER -> 5]}
=============================================================================

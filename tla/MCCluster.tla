----------------------------- MODULE MCCluster -----------------------------
(* Instances of Cluster for TLC: two nodes, the first with a replacement. *)
EXTENDS Cluster, TLC

CONSTANTS n1, n2, p1, p2, p3

Home1 == [p \in Proc |-> n1]
HomeX == [p \in Proc |-> IF p = p2 THEN n2 ELSE n1]
Symmetry == Permutations(Token) \cup Permutations(Session)
=============================================================================

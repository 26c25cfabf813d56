---------------------------- MODULE MCPairClient ----------------------------
(* Instances of PairClient for TLC. *)
EXTENDS PairClient

CONSTANTS p1, p2, q1, s1, s2, n1, n2, f1

=============================================================================

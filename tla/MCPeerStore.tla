----------------------------- MODULE MCPeerStore -----------------------------
(***************************************************************************)
(* Model-checking instances of PeerStore: names, node ids and targets are  *)
(* interchangeable model values.                                           *)
(***************************************************************************)
EXTENDS PeerStore, TLC

Symmetry == Permutations(Names) \cup Permutations(Nodes) \cup Permutations(Targets)
==============================================================================

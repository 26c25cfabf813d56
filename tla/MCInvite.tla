------------------------------ MODULE MCInvite ------------------------------
(***************************************************************************)
(* Instances of Invite for TLC.  The functions give every invite its name  *)
(* and every connection its invite and its node id.                        *)
(***************************************************************************)
EXTENDS Invite

CONSTANTS a1, c1, c2, n1, d1, d2, d3

OneName == [i \in Invites |-> n1]
OneInvite == [c \in Conns |-> a1]

\* Every connection comes from a client of its own; d3 is a rival's.
OwnNode == [c \in Conns |-> IF c = c1 THEN d1 ELSE d2]

=============================================================================

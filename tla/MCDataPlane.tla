---------------------------- MODULE MCDataPlane ----------------------------
(***************************************************************************)
(* Instances of DataPlane for TLC: who connects, and over which connection *)
(* a stream comes.                                                         *)
(***************************************************************************)
EXTENDS DataPlane

CONSTANTS c1, d1

\* One client connects again and again.
Redial == [c \in Conns |-> d1]

\* The streams come over one connection, the one that is replaced.
SameConn == [s \in Streams |-> c1]

=============================================================================

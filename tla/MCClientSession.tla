-------------------------- MODULE MCClientSession --------------------------
(* Instances of ClientSession for TLC. *)
EXTENDS ClientSession

CONSTANTS l1, l2

MCLocals == {l1, l2}

=============================================================================

------------------------------- MODULE MCNtfy -------------------------------
(* An instance of Ntfy for TLC: two enables that may race, next to a       *)
(* command of any other kind.                                               *)
EXTENDS Ntfy, TLC

CONSTANTS r1, r2, r3, k1

MCMethods ==
    r1 :> {"enable"} @@ r2 :> {"enable"} @@ r3 :> {"disable", "status", "test", "stop"}

=============================================================================

------------------------------- MODULE Pairing -------------------------------
(***************************************************************************)
(* What peer.invite promises, without endpoints, tasks or channels: an     *)
(* invite registers at most one of the clients that dial it, and is        *)
(* answered once; the answer "paired" names the client it registered.      *)
(* Invite.tla is shown to implement this specification.                    *)
(*                                                                         *)
(* A registration may come after the answer "unpaired": an invite can run  *)
(* out while the client it registers has not acknowledged yet.             *)
(***************************************************************************)
CONSTANTS Invites, Conns, DialsTo

VARIABLES
    registered,   \* the clients an invite registered
    reply         \* the answers given to peer.invite

vars == <<registered, reply>>

Answers == {"unpaired"} \cup Conns

Init ==
    /\ registered = [i \in Invites |-> {}]
    /\ reply = [i \in Invites |-> {}]

Register(i, c) ==
    /\ DialsTo[c] = i
    /\ registered[i] = {}
    /\ registered' = [registered EXCEPT ![i] = {c}]
    /\ UNCHANGED reply

Resolve(i, a) ==
    /\ reply[i] = {}
    /\ a # "unpaired" => a \in registered[i]
    /\ reply' = [reply EXCEPT ![i] = {a}]
    /\ UNCHANGED registered

Next ==
    \/ \E i \in Invites, c \in Conns : Register(i, c)
    \/ \E i \in Invites, a \in Answers : Resolve(i, a)

Spec == Init /\ [][Next]_vars

==============================================================================

---------------------------- MODULE InviteProofs ----------------------------
(***************************************************************************)
(* What holds of Invite for any number of invites, connections, names and  *)
(* nodes: the pair slot has one holder, an invite registers at most one    *)
(* peer, only after an accept, and its reply has its cause and is final;   *)
(* and the daemon implements Pairing.                                      *)
(***************************************************************************)
EXTENDS Invite, PeerTableProofs

USE DEF taskVars, sharedVars, connVars, adminVars

\* Phases of the serving task before its endpoint is bound, and while its
\* loop can still come back to the select!.
Early == {"none", "checked", "binding"}
Open == {"serving", "delaying", "handshaking"}

\* Before the endpoint is bound nobody has dialled and nothing happened.
QuietBefore ==
    /\ \A c \in Conns : phase[DialsTo[c]] \in Early => pc[c] = "idle"
    /\ \A i \in Invites : phase[i] \in Early => i \notin recorded

\* Once an outcome is queued, no handler gets beyond waiting until the loop
\* has taken it: the loop looks at outcomes before it looks at decisions.
NobodyPassesOutcome ==
    \A c \in Conns :
        (phase[DialsTo[c]] \in Open /\ outcomes[DialsTo[c]] # << >>) =>
            /\ pc[c] \notin {"accepted", "confirming", "failing"}
            /\ pc[c] = "waiting" => c \notin woken

\* Once an invite has its peer, no handler is woken or accepted.
NobodyAfterPeer ==
    \A c \in Conns : DialsTo[c] \in recorded =>
        /\ pc[c] # "accepted"
        /\ pc[c] = "waiting" => c \notin woken

\* Why: the handler that recorded the peer still holds the slot, or its
\* outcome is the next thing the loop takes, and wherever the loop may end
\* without taking it nobody waits to be woken.
PeerEndsLoop ==
    \A i \in recorded :
        \/ \E c \in Conns : DialsTo[c] = i /\ pc[c] = "confirming"
        \/ /\ phase[i] \in Open =>
                 outcomes[i] # << >> /\ Head(outcomes[i]).kind = "paired"
           /\ \/ phase[i] \in {"delaying", "handshaking"}
              \/ phase[i] = "ending" /\ outcome[i] \in {Rejected, Expired}
              => \A c \in Conns : DialsTo[c] = i => pc[c] \notin {"hello", "asking", "waiting"}

-----------------------------------------------------------------------------
\* Every step keeps the pair slot with exactly one handler: claim_pair_slot
\* takes it only when it is free, release gives it back on every way out.
LEMMA SlotStep ==
    ASSUME TypeOK, SlotHeldByOneHandler, [Next]_vars
    PROVE  SlotHeldByOneHandler'
<1>0. /\ pc \in [Conns -> Points] /\ DialsTo \in [Conns -> Invites]
      /\ busy \subseteq Invites
  BY InviteAssumption, Zenon DEF TypeOK
<1>u. ASSUME UNCHANGED busy,
             \A c \in Conns : pc'[c] \in Handling <=> pc[c] \in Handling
      PROVE  SlotHeldByOneHandler'
  BY <1>0, <1>u, SMTT(30) DEF SlotHeldByOneHandler
<1>1. ASSUME NEW i \in Invites, Serve(i) PROVE SlotHeldByOneHandler'
  <2>1. CASE CloseEndpoint(i)
    BY <2>1, <1>0, <1>u, SMTT(30) DEF CloseEndpoint, Rejected, Expired, Handling
  <2> QED
    BY <1>1, <1>u, <2>1, ZenonT(40) DEF Serve, InsertEntry, EndpointUp, EndpointFails, TakeOutcome,
        TakeDecide, Deadline, Flush, Finish, Leave
<1>2. ASSUME NEW c \in Conns, Accept(c) PROVE SlotHeldByOneHandler'
  <2>1. CASE TakeIncoming(c)
    BY <2>1, <1>0, <1>u, ZenonT(40) DEF TakeIncoming, Goto, Handling
  <2>2. CASE DelayOver(c)
    BY <2>2, <1>0, <1>u, SMTT(30) DEF DelayOver, Break, Expired, Goto, Handling
  <2>3. CASE Handshake(c)
    BY <2>3, <1>0, SMTT(30) DEF Handshake, Escalate, Escalated, Reset, Goto, SlotHeldByOneHandler,
        Handling
  <2> QED
    BY <1>2, <1>u, <2>1, <2>2, <2>3, ZenonT(40) DEF Accept
<1>3. ASSUME NEW c \in Conns, Handle(c) PROVE SlotHeldByOneHandler'
  <2>1. CASE RefuseBusy(c)
    BY <2>1, <1>0, <1>u, SMTT(30) DEF RefuseBusy, Goto, Handling
  <2>2. CASE HelloFails(c)
    BY <2>2, <1>0, <1>u DEF HelloFails, Goto, Handling
  <2>3. CASE HelloNameTaken(c)
    BY <2>3, <1>0, <1>u, Zenon DEF HelloNameTaken, Goto, Handling
  <2>4. CASE HelloOk(c)
    BY <2>4, <1>0, <1>u, Zenon DEF HelloOk, Goto, Handling
  <2>5. CASE Listen(c)
    BY <2>5, <1>0, <1>u, Zenon DEF Listen, Goto, Handling
  <2>6. CASE ReadDecision(c)
    BY <2>6, <1>0, <1>u, ZenonT(40) DEF ReadDecision, Goto, Handling
  <2>7. CASE ClientLeft(c)
    BY <2>7, <1>0, <1>u, SMTT(30) DEF ClientLeft, Goto, Handling
  <2>8. CASE PromptTimeout(c)
    BY <2>8, <1>0, <1>u, Zenon DEF PromptTimeout, Goto, Handling
  <2>9. CASE Denied(c)
    BY <2>9, <1>0, <1>u, Zenon DEF Denied, Goto, Handling
  <2>10. CASE RecordOk(c)
    BY <2>10, <1>0, <1>u, Zenon DEF RecordOk, Goto, Handling
  <2>11. CASE RecordFails(c)
    BY <2>11, <1>0, <1>u, Zenon DEF RecordFails, Goto, Handling
  <2>12. CASE SendOutcome(c)
    BY <2>12, <1>0, <1>u, ZenonT(40) DEF SendOutcome, Goto, Paired, Rejected, Handling
  <2>13. CASE Release(c)
    BY <2>13, <1>0 DEF Release, Goto, SlotHeldByOneHandler, Handling
  <2> QED
    BY <1>3, <1>u, <2>1, <2>2, <2>3, <2>4, <2>5, <2>6, <2>7, <2>8, <2>9, <2>10, <2>11, <2>12, <2>13, ZenonT(40) DEF
        Handle
<1>4. CASE Environment
  <2>1. ASSUME NEW c \in Conns, Dial(c) PROVE SlotHeldByOneHandler'
    BY <2>1, <1>0, <1>u, SMTT(30) DEF Dial, Goto, Handling
  <2> QED
    BY <1>4, <1>u, <2>1, Zenon DEF Environment, Vanish, CheckCreate, DeadlinePasses, IpcClose,
        Answer, Rm, Rival
<1>5. CASE UNCHANGED vars
  BY <1>5, <1>u, SMTT(30) DEF vars
<1> QED
  BY <1>1, <1>2, <1>3, <1>4, <1>5, ZenonT(40) DEF Next

\* No connection gets anywhere before its invite endpoint is bound.
LEMMA QuietStep ==
    ASSUME TypeOK, QuietBefore, [Next]_vars
    PROVE  QuietBefore'
<1>0. /\ pc \in [Conns -> Points] /\ DialsTo \in [Conns -> Invites]
      /\ phase \in [Invites -> Phases]
      /\ recorded \subseteq Invites
  BY InviteAssumption DEF TypeOK
<1>u. ASSUME UNCHANGED recorded,
             \A c \in Conns : pc[c] = "idle" => pc'[c] = "idle",
             \A i \in Invites : phase'[i] \in Early => phase[i] \in Early
      PROVE  QuietBefore'
  BY <1>0, <1>u, Zenon DEF QuietBefore
<1>1. ASSUME NEW i \in Invites, Serve(i) PROVE QuietBefore'
  <2>1. CASE InsertEntry(i)
    BY <2>1, <1>0, <1>u DEF InsertEntry, Early
  <2>2. CASE EndpointUp(i)
    BY <2>2, <1>0, <1>u, Zenon DEF EndpointUp, Early
  <2>3. CASE EndpointFails(i)
    BY <2>3, <1>0, <1>u, Zenon DEF EndpointFails, finish, Expired, Early
  <2>4. CASE TakeOutcome(i)
    BY <2>4, <1>0, <1>u, ZenonT(40) DEF TakeOutcome, Break, Early
  <2>5. CASE TakeDecide(i)
    BY <2>5, <1>0, <1>u, SMTT(30) DEF TakeDecide, Break, NotifyWaiters, Rejected, Early
  <2>6. CASE Deadline(i)
    BY <2>6, <1>0, <1>u, Zenon DEF Deadline, Break, Expired, Early
  <2>7. CASE Flush(i)
    BY <2>7, <1>0, <1>u, Zenon DEF Flush, NotifyWaiters, Rejected, Expired, Early
  <2>8. CASE CloseEndpoint(i)
    BY <2>8, <1>0, <1>u, Zenon DEF CloseEndpoint, Rejected, Expired, Early
  <2>9. CASE Finish(i)
    BY <2>9, <1>0, <1>u, Zenon DEF Finish, finish, Early
  <2>10. CASE Leave(i)
    BY <2>10, <1>0, <1>u, Zenon DEF Leave, Early
  <2> QED
    BY <1>1, <1>u, <2>1, <2>2, <2>3, <2>4, <2>5, <2>6, <2>7, <2>8, <2>9, <2>10, ZenonT(40) DEF Serve
<1>2. ASSUME NEW c \in Conns, Accept(c) PROVE QuietBefore'
  <2>1. CASE TakeIncoming(c)
    BY <2>1, <1>0, <1>u, Zenon DEF TakeIncoming, Goto, Early
  <2>2. CASE DelayOver(c)
    BY <2>2, <1>0, <1>u, SMTT(30) DEF DelayOver, Break, Expired, Goto, Early
  <2>3. CASE Handshake(c)
    BY <2>3, <1>0, <1>u DEF Handshake, Goto, Early
  <2> QED
    BY <1>2, <1>u, <2>1, <2>2, <2>3, Zenon DEF Accept
<1>3. ASSUME NEW c \in Conns, Handle(c) PROVE QuietBefore'
  <2>1. CASE RefuseBusy(c)
    BY <2>1, <1>0, <1>u DEF RefuseBusy, Goto, Early
  <2>2. CASE HelloFails(c)
    BY <2>2, <1>0, <1>u, Zenon DEF HelloFails, Goto, Early
  <2>3. CASE HelloNameTaken(c)
    BY <2>3, <1>0, <1>u, Zenon DEF HelloNameTaken, Goto, Early
  <2>4. CASE HelloOk(c)
    BY <2>4, <1>0, <1>u, Zenon DEF HelloOk, Goto, Early
  <2>5. CASE Listen(c)
    BY <2>5, <1>0, <1>u, Zenon DEF Listen, Goto, Early
  <2>6. CASE ReadDecision(c)
    BY <2>6, <1>0, <1>u, Zenon DEF ReadDecision, Goto, Early
  <2>7. CASE ClientLeft(c)
    BY <2>7, <1>0, <1>u, Zenon DEF ClientLeft, Goto, Early
  <2>8. CASE PromptTimeout(c)
    BY <2>8, <1>0, <1>u DEF PromptTimeout, Goto, Early
  <2>9. CASE Denied(c)
    BY <2>9, <1>0, <1>u, Zenon DEF Denied, Goto, Early
  <2>10. CASE RecordOk(c)
    BY <2>10, <1>0, Zenon DEF RecordOk, Reset, Goto, QuietBefore, Early
  <2>11. CASE RecordFails(c)
    BY <2>11, <1>0, <1>u, Zenon DEF RecordFails, Goto, Early
  <2>12. CASE SendOutcome(c)
    BY <2>12, <1>0, <1>u, Zenon DEF SendOutcome, Goto, Paired, Rejected, Early
  <2>13. CASE Release(c)
    BY <2>13, <1>0, <1>u, SMTT(30) DEF Release, Goto, Early
  <2> QED
    BY <1>3, <1>u, <2>1, <2>2, <2>3, <2>4, <2>5, <2>6, <2>7, <2>8, <2>9, <2>10, <2>11, <2>12, <2>13, ZenonT(40) DEF
        Handle
<1>4. CASE Environment
  <2>1. ASSUME NEW c \in Conns, Dial(c) PROVE QuietBefore'
    BY <2>1, <1>0, Zenon DEF Dial, Goto, QuietBefore, Early, Listening
  <2>2. ASSUME NEW i \in Invites, CheckCreate(i) PROVE QuietBefore'
    BY <2>2, <1>0, <1>u, Zenon DEF CheckCreate, RefuseCreate, error_code, Early
  <2> QED
    BY <1>4, <1>u, <2>1, <2>2, Zenon DEF Environment, Vanish, DeadlinePasses, IpcClose, Answer, Rm, Rival
<1>5. CASE UNCHANGED vars
  BY <1>5, <1>u DEF vars
<1> QED
  BY <1>1, <1>2, <1>3, <1>4, <1>5, Zenon DEF Next

\* The biased select! of invite_serve takes a queued outcome before it takes
\* a decision, so no waiting handler is woken in between.
LEMMA OutcomeStep ==
    ASSUME TypeOK, SlotHeldByOneHandler, QuietBefore, NobodyPassesOutcome, [Next]_vars
    PROVE  NobodyPassesOutcome'
<1>0. /\ pc \in [Conns -> Points] /\ DialsTo \in [Conns -> Invites]
      /\ phase \in [Invites -> Phases]
      /\ woken \subseteq Conns
      /\ outcomes \in [Invites -> Seq(Outcome)]
  BY InviteAssumption, Zenon DEF TypeOK
<1>x. \A c, d \in Conns :
         (DialsTo[c] = DialsTo[d] /\ pc[c] \in Handling /\ pc[d] \in Handling) => c = d
  BY InviteAssumption DEF SlotHeldByOneHandler
<1>u. ASSUME UNCHANGED outcomes,
             \A i \in Invites : phase'[i] \in Open => phase[i] \in Open,
             \A c \in Conns : pc'[c] \in {"accepted", "confirming", "failing"} =>
                \/ pc[c] \in {"accepted", "confirming", "failing"}
                \/ pc[c] = "waiting" /\ c \in woken,
             \A c \in Conns : pc'[c] = "waiting" /\ c \in woken' => pc[c] = "waiting" /\ c \in woken
      PROVE  NobodyPassesOutcome'
  BY <1>0, <1>u, Zenon DEF NobodyPassesOutcome
<1>1. ASSUME NEW i \in Invites, Serve(i) PROVE NobodyPassesOutcome'
  <2>1. CASE InsertEntry(i)
    BY <2>1, <1>0, <1>u, SMTT(30) DEF InsertEntry, Open
  <2>2. CASE EndpointUp(i)
    BY <2>2, <1>0 DEF EndpointUp, NobodyPassesOutcome, Open, QuietBefore, Early
  <2>3. CASE EndpointFails(i)
    BY <2>3, <1>0, <1>u, ZenonT(40) DEF EndpointFails, finish, Expired, Open
  <2>4. CASE TakeOutcome(i)
    BY <2>4, <1>0 DEF TakeOutcome, Break, NobodyPassesOutcome, Open
  <2>5. CASE TakeDecide(i)
    BY <2>5, <1>0, ZenonT(40) DEF TakeDecide, Break, NotifyWaiters, Rejected, NobodyPassesOutcome, Open
  <2>6. CASE Deadline(i)
    BY <2>6, <1>0, <1>u, Zenon DEF Deadline, Break, Expired, Open
  <2>7. CASE Flush(i)
    BY <2>7, <1>0, Zenon DEF Flush, NotifyWaiters, Rejected, Expired, NobodyPassesOutcome, Open
  <2>8. CASE CloseEndpoint(i)
    BY <2>8, <1>0, <1>u, ZenonT(40) DEF CloseEndpoint, Rejected, Expired, Open
  <2>9. CASE Finish(i)
    BY <2>9, <1>0, <1>u, SMTT(30) DEF Finish, finish, Open
  <2>10. CASE Leave(i)
    BY <2>10, <1>0, <1>u, SMTT(30) DEF Leave, Open
  <2> QED
    BY <1>1, <1>u, <2>1, <2>2, <2>3, <2>4, <2>5, <2>6, <2>7, <2>8, <2>9, <2>10, ZenonT(40) DEF Serve
<1>2. ASSUME NEW c \in Conns, Accept(c) PROVE NobodyPassesOutcome'
  <2>1. CASE TakeIncoming(c)
    BY <2>1, <1>0, <1>u, Zenon DEF TakeIncoming, Goto, Open
  <2>2. CASE DelayOver(c)
    BY <2>2, <1>0, <1>u DEF DelayOver, Break, Expired, Goto, Open
  <2>3. CASE Handshake(c)
    BY <2>3, <1>0, <1>u, Zenon DEF Handshake, Goto, Open
  <2> QED
    BY <1>2, <1>u, <2>1, <2>2, <2>3, Zenon DEF Accept
<1>3. ASSUME NEW c \in Conns, Handle(c) PROVE NobodyPassesOutcome'
  <2>1. CASE RefuseBusy(c)
    BY <2>1, <1>0, <1>u, Zenon DEF RefuseBusy, Goto, Open
  <2>2. CASE HelloFails(c)
    BY <2>2, <1>0, <1>u, Zenon DEF HelloFails, Goto, Open
  <2>3. CASE HelloNameTaken(c)
    BY <2>3, <1>0, <1>u, Zenon DEF HelloNameTaken, Goto, Open
  <2>4. CASE HelloOk(c)
    BY <2>4, <1>0, <1>u, Zenon DEF HelloOk, Goto, Open
  <2>5. CASE Listen(c)
    BY <2>5, <1>0, <1>u, Zenon DEF Listen, Goto, Open
  <2>6. CASE ReadDecision(c)
    BY <2>6, <1>0, <1>u, ZenonT(40) DEF ReadDecision, Goto, Open
  <2>7. CASE ClientLeft(c)
    BY <2>7, <1>0, <1>u DEF ClientLeft, Goto, Open
  <2>8. CASE PromptTimeout(c)
    BY <2>8, <1>0, <1>u, Zenon DEF PromptTimeout, Goto, Open
  <2>9. CASE Denied(c)
    BY <2>9, <1>0, <1>u, Zenon DEF Denied, Goto, Open
  <2>10. CASE RecordOk(c)
    BY <2>10, <1>0, <1>u, Zenon DEF RecordOk, Goto, Open
  <2>11. CASE RecordFails(c)
    BY <2>11, <1>0, <1>u, Zenon DEF RecordFails, Goto, Open
  <2>12. CASE SendOutcome(c)
    BY <2>12, <1>0, <1>x, Zenon DEF SendOutcome, Goto, Paired, Rejected, NobodyPassesOutcome, Open,
        Handling
  <2>13. CASE Release(c)
    BY <2>13, <1>0, <1>u DEF Release, Goto, Open
  <2> QED
    BY <1>3, <1>u, <2>1, <2>2, <2>3, <2>4, <2>5, <2>6, <2>7, <2>8, <2>9, <2>10, <2>11, <2>12, <2>13, ZenonT(40) DEF
        Handle
<1>4. CASE Environment
  <2>1. ASSUME NEW c \in Conns, Dial(c) PROVE NobodyPassesOutcome'
    BY <2>1, <1>0, <1>u, ZenonT(40) DEF Dial, Goto, Open
  <2>2. ASSUME NEW i \in Invites, CheckCreate(i) PROVE NobodyPassesOutcome'
    BY <2>2, <1>0, <1>u DEF CheckCreate, RefuseCreate, error_code, Open
  <2> QED
    BY <1>4, <1>u, <2>1, <2>2, Zenon DEF Environment, Vanish, DeadlinePasses, IpcClose, Answer, Rm, Rival
<1>5. CASE UNCHANGED vars
  BY <1>5, <1>u, Zenon DEF vars
<1> QED
  BY <1>1, <1>2, <1>3, <1>4, <1>5, Zenon DEF Next

\* After add_peer succeeded, no other handler of the invite is accepted.
LEMMA AfterPeerStep ==
    ASSUME TypeOK, SlotHeldByOneHandler, PeerEndsLoop, NobodyAfterPeer, [Next]_vars
    PROVE  NobodyAfterPeer'
<1>0. /\ pc \in [Conns -> Points] /\ DialsTo \in [Conns -> Invites]
      /\ phase \in [Invites -> Phases]
      /\ woken \subseteq Conns
      /\ recorded \subseteq Invites
      /\ outcomes \in [Invites -> Seq(Outcome)]
  BY InviteAssumption DEF TypeOK
<1>x. \A c, d \in Conns :
         (DialsTo[c] = DialsTo[d] /\ pc[c] \in Handling /\ pc[d] \in Handling) => c = d
  BY InviteAssumption DEF SlotHeldByOneHandler
<1>u. ASSUME UNCHANGED recorded,
             \A c \in Conns : pc'[c] = "accepted" => pc[c] = "accepted" \/ (pc[c] = "waiting" /\ c \in woken),
             \A c \in Conns : pc'[c] = "waiting" /\ c \in woken' => pc[c] = "waiting" /\ c \in woken
      PROVE  NobodyAfterPeer'
  BY <1>0, <1>u, Zenon DEF NobodyAfterPeer
<1>1. ASSUME NEW i \in Invites, Serve(i) PROVE NobodyAfterPeer'
  <2>1. CASE TakeDecide(i)
    BY <2>1, <1>0, <1>x DEF TakeDecide, Break, NotifyWaiters, Rejected, NobodyAfterPeer,
        PeerEndsLoop, Open, Handling
  <2>2. CASE Flush(i)
    BY <2>2, <1>0, <1>x, Zenon DEF Flush, NotifyWaiters, Rejected, Expired, NobodyAfterPeer,
        PeerEndsLoop, Handling
  <2>3. CASE CloseEndpoint(i)
    BY <2>3, <1>0, <1>u, Zenon DEF CloseEndpoint, Rejected, Expired
  <2> QED
    BY <1>1, <1>u, <2>1, <2>2, <2>3, ZenonT(40) DEF Serve, InsertEntry, EndpointUp, EndpointFails,
        TakeOutcome, Deadline, Finish, Leave
<1>2. ASSUME NEW c \in Conns, Accept(c) PROVE NobodyAfterPeer'
  <2>1. CASE TakeIncoming(c)
    BY <2>1, <1>0, <1>u, Zenon DEF TakeIncoming, Goto
  <2>2. CASE DelayOver(c)
    BY <2>2, <1>0, <1>u, SMTT(30) DEF DelayOver, Break, Expired, Goto
  <2>3. CASE Handshake(c)
    BY <2>3, <1>0, <1>u, Zenon DEF Handshake, Goto
  <2> QED
    BY <1>2, <1>u, <2>1, <2>2, <2>3, Zenon DEF Accept
<1>3. ASSUME NEW c \in Conns, Handle(c) PROVE NobodyAfterPeer'
  <2>1. CASE RefuseBusy(c)
    BY <2>1, <1>0, <1>u DEF RefuseBusy, Goto
  <2>2. CASE HelloFails(c)
    BY <2>2, <1>0, <1>u, Zenon DEF HelloFails, Goto
  <2>3. CASE HelloNameTaken(c)
    BY <2>3, <1>0, <1>u, Zenon DEF HelloNameTaken, Goto
  <2>4. CASE HelloOk(c)
    BY <2>4, <1>0, <1>u, Zenon DEF HelloOk, Goto
  <2>5. CASE Listen(c)
    BY <2>5, <1>0, <1>u, ZenonT(40) DEF Listen, Goto
  <2>6. CASE ReadDecision(c)
    BY <2>6, <1>0, <1>u DEF ReadDecision, Goto
  <2>7. CASE ClientLeft(c)
    BY <2>7, <1>0, <1>u, Zenon DEF ClientLeft, Goto
  <2>8. CASE PromptTimeout(c)
    BY <2>8, <1>0, <1>u, Zenon DEF PromptTimeout, Goto
  <2>9. CASE Denied(c)
    BY <2>9, <1>0, <1>u DEF Denied, Goto
  <2>10. CASE RecordOk(c)
    BY <2>10, <1>0, <1>x, Zenon DEF RecordOk, Reset, Goto, NobodyAfterPeer, Handling
  <2>11. CASE RecordFails(c)
    BY <2>11, <1>0, <1>u, Zenon DEF RecordFails, Goto
  <2>12. CASE SendOutcome(c)
    BY <2>12, <1>0, <1>u, Zenon DEF SendOutcome, Goto, Paired, Rejected
  <2>13. CASE Release(c)
    BY <2>13, <1>0, <1>u, Zenon DEF Release, Goto
  <2> QED
    BY <1>3, <1>u, <2>1, <2>2, <2>3, <2>4, <2>5, <2>6, <2>7, <2>8, <2>9, <2>10, <2>11, <2>12, <2>13, ZenonT(40) DEF
        Handle
<1>4. CASE Environment
  <2>1. ASSUME NEW c \in Conns, Dial(c) PROVE NobodyAfterPeer'
    BY <2>1, <1>0, <1>u, Zenon DEF Dial, Goto
  <2> QED
    BY <1>4, <1>u, <2>1, Zenon DEF Environment, Vanish, CheckCreate, DeadlinePasses, IpcClose,
        Answer, Rm, Rival
<1>5. CASE UNCHANGED vars
  BY <1>5, <1>u, Zenon DEF vars
<1> QED
  BY <1>1, <1>2, <1>3, <1>4, <1>5, Zenon DEF Next

\* Appending to an empty channel leaves the new element at its head.
LEMMA AppendToEmpty ==
    ASSUME NEW S, NEW x \in S, NEW s \in Seq(S), s = << >>
    PROVE  Append(s, x) # << >> /\ Head(Append(s, x)) = x
<1>1. Len(Append(s, x)) = 1 /\ Append(s, x)[1] = x /\ Append(s, x) \in Seq(S)
  OBVIOUS
<1>2. Append(s, x) # << >>
  BY <1>1
<1> HIDE <1>1
<1> QED
  BY <1>1, <1>2

\* A recorded peer is on its way to end the serving loop.
LEMMA PeerEndsStep ==
    ASSUME TypeOK, SlotHeldByOneHandler, QuietBefore, NobodyPassesOutcome, PeerEndsLoop,
           [Next]_vars
    PROVE  PeerEndsLoop'
<1>0. /\ pc \in [Conns -> Points] /\ DialsTo \in [Conns -> Invites]
      /\ phase \in [Invites -> Phases]
      /\ recorded \subseteq Invites
      /\ outcomes \in [Invites -> Seq(Outcome)]
      /\ outcome \in [Invites -> Outcome]
  BY InviteAssumption, Zenon DEF TypeOK
<1>x. \A c, d \in Conns :
         (DialsTo[c] = DialsTo[d] /\ pc[c] \in Handling /\ pc[d] \in Handling) => c = d
  BY InviteAssumption DEF SlotHeldByOneHandler
<1>u. ASSUME UNCHANGED <<recorded, phase, outcomes, outcome>>,
             \A c \in Conns : pc[c] = "confirming" => pc'[c] = "confirming",
             \A c \in Conns : pc'[c] \in {"hello", "asking", "waiting"} =>
                pc[c] \in {"hello", "asking", "waiting"}
      PROVE  PeerEndsLoop'
  BY <1>0, <1>u DEF PeerEndsLoop
<1>1. ASSUME NEW i \in Invites, Serve(i) PROVE PeerEndsLoop'
  <2>1. CASE InsertEntry(i)
    BY <2>1, <1>0, SMTT(30) DEF InsertEntry, PeerEndsLoop, Open
  <2>2. CASE EndpointUp(i)
    BY <2>2, <1>0, SMTT(30) DEF EndpointUp, PeerEndsLoop, Open, QuietBefore, Early
  <2>3. CASE EndpointFails(i)
    BY <2>3, <1>0, SMTT(30) DEF EndpointFails, finish, Expired, PeerEndsLoop, Open
  <2>4. CASE TakeOutcome(i)
    BY <2>4, <1>0, <1>x, SMTT(30) DEF TakeOutcome, Break, PeerEndsLoop, Open, Handling, Rejected,
        Expired
  <2>5. CASE TakeDecide(i)
    BY <2>5, <1>0, <1>x, SMTT(30) DEF TakeDecide, Break, NotifyWaiters, Rejected, PeerEndsLoop, Open,
        Handling
  <2>6. CASE Deadline(i)
    BY <2>6, <1>0, <1>x, SMTT(30) DEF Deadline, Break, Expired, PeerEndsLoop, Open, Handling
  <2>7. CASE Flush(i)
    BY <2>7, <1>0, SMTT(30) DEF Flush, NotifyWaiters, Rejected, Expired, PeerEndsLoop, Open
  <2>8. CASE CloseEndpoint(i)
    BY <2>8, <1>0 DEF CloseEndpoint, Rejected, Expired, PeerEndsLoop, Open
  <2>9. CASE Finish(i)
    BY <2>9, <1>0, ZenonT(40) DEF Finish, finish, PeerEndsLoop, Open
  <2>10. CASE Leave(i)
    BY <2>10, <1>0, ZenonT(40) DEF Leave, PeerEndsLoop, Open
  <2> QED
    BY <1>1, <1>u, <2>1, <2>2, <2>3, <2>4, <2>5, <2>6, <2>7, <2>8, <2>9, <2>10, ZenonT(40) DEF Serve
<1>2. ASSUME NEW c \in Conns, Accept(c) PROVE PeerEndsLoop'
  <2>1. CASE TakeIncoming(c)
    BY <2>1, <1>0, <1>x DEF TakeIncoming, Goto, PeerEndsLoop, Open, Handling
  <2>2. CASE DelayOver(c)
    <3> DEFINE i == DialsTo[c]
    <3>1. CASE i \in expired
      <4>1. Break(i, Expired) /\ Goto(c, "done") /\ phase[i] = "delaying" /\ pc[c] = "accepting"
        BY <2>2, <3>1, ZenonT(40) DEF DelayOver
      <4> QED
        BY <2>2, <1>0, <4>1, SMTT(30) DEF DelayOver, Break, Goto, PeerEndsLoop, Open
    <3>2. CASE i \notin expired
      <4>1. phase' = [phase EXCEPT ![i] = "handshaking"] /\ phase[i] = "delaying"
            /\ UNCHANGED <<outcome, pc>>
        BY <2>2, <3>2, Zenon DEF DelayOver
      <4> QED
        BY <2>2, <1>0, <4>1, SMTT(30) DEF DelayOver, PeerEndsLoop, Open
    <3> QED
      BY <3>1, <3>2, Zenon
  <2>3. CASE Handshake(c)
    BY <2>3, <1>0 DEF Handshake, Escalate, Escalated, Reset, Goto, PeerEndsLoop, Open
  <2> QED
    BY <1>2, <1>u, <2>1, <2>2, <2>3, ZenonT(40) DEF Accept
<1>3. ASSUME NEW c \in Conns, Handle(c) PROVE PeerEndsLoop'
  <2>1. CASE RefuseBusy(c)
    BY <2>1, <1>0, <1>u DEF RefuseBusy, Goto
  <2>2. CASE HelloFails(c)
    BY <2>2, <1>0, <1>u, Zenon DEF HelloFails, Goto
  <2>3. CASE HelloNameTaken(c)
    BY <2>3, <1>0, <1>u, Zenon DEF HelloNameTaken, Goto
  <2>4. CASE HelloOk(c)
    BY <2>4, <1>0, <1>u, Zenon DEF HelloOk, Goto
  <2>5. CASE Listen(c)
    BY <2>5, <1>0, <1>u, Zenon DEF Listen, Goto
  <2>6. CASE ReadDecision(c)
    BY <2>6, <1>0, <1>u DEF ReadDecision, Goto
  <2>7. CASE ClientLeft(c)
    BY <2>7, <1>0, <1>u, Zenon DEF ClientLeft, Goto
  <2>8. CASE PromptTimeout(c)
    BY <2>8, <1>0, <1>u DEF PromptTimeout, Goto
  <2>9. CASE Denied(c)
    BY <2>9, <1>0, <1>u, ZenonT(40) DEF Denied, Goto
  <2>10. CASE RecordOk(c)
    BY <2>10, <1>0 DEF RecordOk, Reset, Goto, PeerEndsLoop, Open
  <2>11. CASE RecordFails(c)
    BY <2>11, <1>0, <1>u, Zenon DEF RecordFails, Goto
  <2>12. CASE SendOutcome(c)
    <3> DEFINE i == DialsTo[c]
    <3>1. /\ phase' = phase /\ outcome' = outcome /\ recorded' = recorded
          /\ pc' = [pc EXCEPT ![c] = "releasing"]
          /\ \A j \in Invites \ {i} : outcomes'[j] = outcomes[j]
      BY <2>12, <1>0, ZenonT(40) DEF SendOutcome, Goto
    <3>2. \A d \in Conns : DialsTo[d] = i /\ d # c => pc[d] \notin Handling
      BY <2>12, <1>x DEF SendOutcome, Handling
    <3>3. phase[i] \in Open => outcomes[i] = << >>
      BY <2>12, <1>0, Zenon DEF SendOutcome, NobodyPassesOutcome
    <3>4. CASE pc[c] = "confirming"
      <4>1. outcomes'[i] = Append(outcomes[i], Paired(c)) /\ i \in Invites
        BY <2>12, <1>0, <3>4 DEF SendOutcome
      <4>2. Paired(c) \in Outcome /\ Paired(c).kind = "paired"
        BY Zenon DEF Paired, Outcome
      <4>3. phase[i] \in Open => outcomes'[i] # << >> /\ Head(outcomes'[i]).kind = "paired"
        BY <1>0, <3>3, <4>1, <4>2, AppendToEmpty, Zenon
      <4>4. \A d \in Conns : DialsTo[d] = i => pc'[d] \notin {"hello", "asking", "waiting"}
        BY <1>0, <3>1, <3>2, Zenon DEF Handling
      <4>5. \A d \in Conns : DialsTo[d] # i => pc'[d] = pc[d]
        BY <1>0, <3>1, ZenonT(40)
      <4> SUFFICES ASSUME NEW j \in recorded, j # i,
                          ~ \E d \in Conns : DialsTo[d] = j /\ pc'[d] = "confirming"
                   PROVE  /\ phase[j] \in Open => outcomes[j] # << >> /\ Head(outcomes[j]).kind = "paired"
                          /\ \/ phase[j] \in {"delaying", "handshaking"}
                             \/ phase[j] = "ending" /\ outcome[j] \in {Rejected, Expired}
                             => \A d \in Conns : DialsTo[d] = j => pc'[d] \notin {"hello", "asking", "waiting"}
        <5> HIDE DEF Open, Rejected, Expired
        <5> QED
          BY <1>0, <3>1, <4>3, <4>4, SMTT(30) DEF PeerEndsLoop
      <4>6. \A d \in Conns : DialsTo[d] = j => pc'[d] = pc[d]
        BY <4>5
      <4> QED
        BY <4>6, SMTT(30) DEF PeerEndsLoop
    <3>5. CASE pc[c] = "failing"
      BY <1>0, <3>1, <3>2, <3>3, <3>5, ZenonT(40) DEF PeerEndsLoop, Handling
    <3> QED
      BY <2>12, <3>4, <3>5, Zenon DEF SendOutcome
  <2>13. CASE Release(c)
    BY <2>13, <1>0, <1>u, Zenon DEF Release, Goto
  <2> QED
    BY <1>3, <1>u, <2>1, <2>2, <2>3, <2>4, <2>5, <2>6, <2>7, <2>8, <2>9, <2>10, <2>11, <2>12, <2>13, ZenonT(40) DEF
        Handle
<1>4. CASE Environment
  <2>1. ASSUME NEW c \in Conns, Dial(c) PROVE PeerEndsLoop'
    BY <2>1, <1>0, <1>u, ZenonT(40) DEF Dial, Goto
  <2>2. ASSUME NEW i \in Invites, CheckCreate(i) PROVE PeerEndsLoop'
    BY <2>2, <1>0, SMTT(30) DEF CheckCreate, RefuseCreate, error_code, PeerEndsLoop, Open
  <2> QED
    BY <1>4, <1>u, <2>1, <2>2, Zenon DEF Environment, Vanish, DeadlinePasses, IpcClose, Answer, Rm, Rival
<1>5. CASE UNCHANGED vars
  BY <1>5, <1>u, Zenon DEF vars
<1> QED
  BY <1>1, <1>2, <1>3, <1>4, <1>5, Zenon DEF Next

-----------------------------------------------------------------------------
(***************************************************************************)
(* What an invite tells.                                                   *)
(***************************************************************************)
\* A confirmed client is the recorded one and its handler is past the record.
ConfirmedIsRecorded ==
    \A c \in Conns :
        /\ verdict[c] = "confirm" => /\ DialsTo[c] \in recorded
                                     /\ pc[c] \in {"confirming", "releasing", "done"}
        /\ pc[c] = "confirming" => verdict[c] = "confirm"

OneConfirmed ==
    \A c, d \in Conns :
        (verdict[c] = "confirm" /\ verdict[d] = "confirm" /\ DialsTo[c] = DialsTo[d]) => c = d

\* A Paired outcome, wherever it is on its way, names a confirmed client.
Truthful(v, i, o) ==
    o.kind = "paired" =>
        o.conn \in Conns /\ v[o.conn] = "confirm" /\ DialsTo[o.conn] = i

PairedIsConfirmed ==
    \A i \in Invites :
        /\ \A k \in DOMAIN outcomes[i] : Truthful(verdict, i, outcomes[i][k])
        /\ Truthful(verdict, i, outcome[i])
        /\ Truthful(verdict, i, result[i])

\* A client whose record could not be written is past the attempt.
FailedIsOver ==
    \A c \in Conns :
        /\ verdict[c] = "server_error" => pc[c] \in {"failing", "releasing", "done"}
        /\ pc[c] = "failing" => verdict[c] = "server_error"

\* The invite is an entry from its insertion to Leave, and is replied to from
\* finish on.
RepliesAtTheEnd ==
    \A i \in Invites :
        /\ result[i] # Nothing <=> phase[i] \in {"leaving", "done"}
        /\ i \in entries <=> phase[i] \notin {"none", "checked", "done"}

\* The admin gave the answer d about some client of invite i.
Answered(a, i, d) == \E c \in Conns : DialsTo[c] = i /\ a[c] = d

\* A client is asked about once, after its hello, and answered once.
Unasked == {"idle", "dialled", "accepting", "busy", "hello"}
AskedOnce ==
    /\ \A i \in Invites : \A k \in DOMAIN prompts[i] :
          /\ DialsTo[prompts[i][k]] = i
          /\ answer[prompts[i][k]] = "none"
          /\ pc[prompts[i][k]] \notin Unasked
          /\ \A l \in DOMAIN prompts[i] : prompts[i][k] = prompts[i][l] => k = l
    /\ \A c \in Conns : pc[c] \in Unasked => answer[c] = "none"

\* Every decision on its way to a client is an answer of the admin.
DecisionsAreAnswers ==
    /\ \A i \in Invites : \A k \in DOMAIN cmds[i] : Answered(answer, i, cmds[i][k])
    /\ \A i \in Invites : decision[i] # "none" => Answered(answer, i, decision[i])
    /\ \A c \in Conns :
          pc[c] = "accepted" \/ verdict[c] = "confirm" => Answered(answer, DialsTo[c], "accept")

\* Some client of invite i was turned down: the admin said no to it, or its
\* record failed.
TurnedDown(a, v, i) ==
    \E c \in Conns : DialsTo[c] = i /\ (a[c] = "reject" \/ v[c] = "server_error")

\* No client of invite i ever dialled.
Undialled(p, i) == \A c \in Conns : DialsTo[c] = i => p[c] = "idle"

\* Outcome o of invite i has its cause.
Caused(a, v, x, i, o) ==
    \/ o.kind = "paired"
    \/ o = Rejected /\ TurnedDown(a, v, i)
    \/ o = Expired /\ i \in x

\* An outcome has its cause wherever it is on its way, and so has the reply.
OutcomesHaveCause ==
    \A i \in Invites :
        /\ \A k \in DOMAIN outcomes[i] : Caused(answer, verdict, expired, i, outcomes[i][k])
        /\ phase[i] \in {"ending", "flushing", "closing"} =>
              Caused(answer, verdict, expired, i, outcome[i])
        /\ \/ result[i] = Nothing \/ result[i].kind = "error"
           \/ Caused(answer, verdict, expired, i, result[i])
           \/ result[i] = Expired /\ Undialled(pc, i)

\* No step takes a confirmation back.
StillConfirmed == \A c \in Conns : verdict[c] = "confirm" => verdict'[c] = "confirm"

-----------------------------------------------------------------------------
\* PairConfirm is written only in the branch that set peer_recorded.
LEMMA ConfirmedStep ==
    ASSUME TypeOK, ConfirmedIsRecorded, [Next]_vars
    PROVE  ConfirmedIsRecorded'
<1>0. /\ pc \in [Conns -> Points] /\ DialsTo \in [Conns -> Invites]
      /\ verdict \in [Conns -> Verdicts]
      /\ recorded \subseteq Invites
  BY InviteAssumption, SMTT(30) DEF TypeOK
<1>u. ASSUME UNCHANGED <<verdict, recorded>>,
             \A c \in Conns : pc'[c] = "confirming" => pc[c] = "confirming",
             \A c \in Conns : pc[c] \in {"confirming", "releasing", "done"} =>
                pc'[c] \in {"confirming", "releasing", "done"}
      PROVE  ConfirmedIsRecorded'
  BY <1>0, <1>u, SMTT(30) DEF ConfirmedIsRecorded
<1>1. ASSUME NEW i \in Invites, Serve(i) PROVE ConfirmedIsRecorded'
  <2>1. CASE CloseEndpoint(i)
    BY <2>1, <1>0, <1>u, Zenon DEF CloseEndpoint, Rejected, Expired
  <2> QED
    BY <1>1, <1>u, <2>1, Zenon DEF Serve, InsertEntry, EndpointUp, EndpointFails, TakeOutcome,
        TakeDecide, Deadline, Flush, Finish, Leave
<1>2. ASSUME NEW c \in Conns, Accept(c) PROVE ConfirmedIsRecorded'
  <2>1. CASE TakeIncoming(c)
    BY <2>1, <1>0, <1>u, Zenon DEF TakeIncoming, Goto
  <2>2. CASE DelayOver(c)
    BY <2>2, <1>0, <1>u, ZenonT(40) DEF DelayOver, Break, Expired, Goto
  <2>3. CASE Handshake(c)
    BY <2>3, <1>0, <1>u DEF Handshake, Goto
  <2> QED
    BY <1>2, <1>u, <2>1, <2>2, <2>3, Zenon DEF Accept
<1>3. ASSUME NEW c \in Conns, Handle(c) PROVE ConfirmedIsRecorded'
  <2>1. CASE RefuseBusy(c)
    BY <2>1, <1>0 DEF RefuseBusy, Goto, ConfirmedIsRecorded
  <2>2. CASE HelloFails(c)
    BY <2>2, <1>0, <1>u, Zenon DEF HelloFails, Goto
  <2>3. CASE HelloNameTaken(c)
    BY <2>3, <1>0, Zenon DEF HelloNameTaken, Escalate, Escalated, Goto, ConfirmedIsRecorded
  <2>4. CASE HelloOk(c)
    BY <2>4, <1>0, Zenon DEF HelloOk, Goto, ConfirmedIsRecorded
  <2>5. CASE Listen(c)
    BY <2>5, <1>0, <1>u, ZenonT(40) DEF Listen, Goto
  <2>6. CASE ReadDecision(c)
    BY <2>6, <1>0 DEF ReadDecision, Goto, ConfirmedIsRecorded
  <2>7. CASE ClientLeft(c)
    BY <2>7, <1>0, <1>u, Zenon DEF ClientLeft, Goto
  <2>8. CASE PromptTimeout(c)
    BY <2>8, <1>0, Zenon DEF PromptTimeout, Goto, ConfirmedIsRecorded
  <2>9. CASE Denied(c)
    BY <2>9, <1>0, <1>u, Zenon DEF Denied, Goto
  <2>10. CASE RecordOk(c)
    BY <2>10, <1>0, Zenon DEF RecordOk, Reset, Goto, ConfirmedIsRecorded
  <2>11. CASE RecordFails(c)
    BY <2>11, <1>0, Zenon DEF RecordFails, Goto, ConfirmedIsRecorded
  <2>12. CASE SendOutcome(c)
    BY <2>12, <1>0, <1>u, Zenon DEF SendOutcome, Goto, Paired, Rejected
  <2>13. CASE Release(c)
    BY <2>13, <1>0, <1>u, SMTT(30) DEF Release, Goto
  <2> QED
    BY <1>3, <1>u, <2>1, <2>2, <2>3, <2>4, <2>5, <2>6, <2>7, <2>8, <2>9, <2>10, <2>11, <2>12, <2>13, ZenonT(40) DEF
        Handle
<1>4. CASE Environment
  <2>1. ASSUME NEW c \in Conns, Dial(c) PROVE ConfirmedIsRecorded'
    BY <2>1, <1>0, <1>u, Zenon DEF Dial, Goto
  <2> QED
    BY <1>4, <1>u, <2>1, Zenon DEF Environment, Vanish, CheckCreate, DeadlinePasses, IpcClose,
        Answer, Rm, Rival
<1>5. CASE UNCHANGED vars
  BY <1>5, <1>u, Zenon DEF vars
<1> QED
  BY <1>1, <1>2, <1>3, <1>4, <1>5, Zenon DEF Next

\* PairConfirm is written to one client of an invite only.
LEMMA OneConfirmedStep ==
    ASSUME TypeOK, ConfirmedIsRecorded, OneConfirmed, [Next]_vars
    PROVE  OneConfirmed'
<1>0. /\ pc \in [Conns -> Points] /\ DialsTo \in [Conns -> Invites]
      /\ verdict \in [Conns -> Verdicts]
  BY InviteAssumption, Zenon DEF TypeOK
<1>u. ASSUME \A c \in Conns : verdict'[c] = "confirm" => verdict[c] = "confirm"
      PROVE  OneConfirmed'
  BY <1>0, <1>u, Zenon DEF OneConfirmed
<1>1. ASSUME NEW i \in Invites, Serve(i) PROVE OneConfirmed'
  BY <1>1, <1>u, Zenon DEF Serve, InsertEntry, EndpointUp, EndpointFails, TakeOutcome, TakeDecide,
      Deadline, Flush, CloseEndpoint, Finish, Leave
<1>2. ASSUME NEW c \in Conns, Accept(c) PROVE OneConfirmed'
  BY <1>2, <1>u, Zenon DEF Accept, TakeIncoming, DelayOver, Handshake
<1>3. ASSUME NEW c \in Conns, Handle(c) PROVE OneConfirmed'
  <2>1. CASE RefuseBusy(c)
    BY <2>1, <1>0, <1>u, Zenon DEF RefuseBusy, Goto
  <2>2. CASE HelloNameTaken(c)
    BY <2>2, <1>0, <1>u, Zenon DEF HelloNameTaken, Goto
  <2>3. CASE HelloOk(c)
    BY <2>3, <1>0, <1>u, Zenon DEF HelloOk, Goto
  <2>4. CASE ReadDecision(c)
    BY <2>4, <1>0, <1>u, Zenon DEF ReadDecision, Goto
  <2>5. CASE PromptTimeout(c)
    BY <2>5, <1>0, <1>u, Zenon DEF PromptTimeout, Goto
  <2>6. CASE RecordOk(c)
    BY <2>6, <1>0, Zenon DEF RecordOk, Reset, Goto, OneConfirmed, ConfirmedIsRecorded
  <2>7. CASE RecordFails(c)
    BY <2>7, <1>0, <1>u, Zenon DEF RecordFails, Goto
  <2> QED
    BY <1>3, <1>u, <2>1, <2>2, <2>3, <2>4, <2>5, <2>6, <2>7, ZenonT(40) DEF Handle, HelloFails, Listen,
        ClientLeft, Denied, SendOutcome, Release
<1>4. CASE Environment
  BY <1>4, <1>u, Zenon DEF Environment, Dial, Vanish, CheckCreate, DeadlinePasses, IpcClose,
      Answer, Rm, Rival
<1>5. CASE UNCHANGED vars
  BY <1>5, <1>u, Zenon DEF vars
<1> QED
  BY <1>1, <1>2, <1>3, <1>4, <1>5, Zenon DEF Next

\* Handlers that may still write a verdict.
Undecided == {"busy", "hello", "waiting", "accepted"}

\* A verdict is written by its client's handler only, and only before it is
\* decided; a handler that is past the record stays past it.
LEMMA VerdictsAreFinal ==
    ASSUME TypeOK, [Next]_vars, NEW d \in Conns, pc[d] \in {"confirming", "failing", "releasing", "done"}
    PROVE  /\ verdict'[d] = verdict[d]
           /\ pc[d] \in {"failing", "releasing", "done"} => pc'[d] \in {"failing", "releasing", "done"}
<1>0. /\ pc \in [Conns -> Points] /\ verdict \in [Conns -> Verdicts]
      /\ DialsTo \in [Conns -> Invites]
  BY InviteAssumption, Zenon DEF TypeOK
<1> DEFINE G == /\ verdict'[d] = verdict[d]
                /\ pc[d] \in {"failing", "releasing", "done"} => pc'[d] \in {"failing", "releasing", "done"}
<1>u. ASSUME UNCHANGED <<verdict, pc>> PROVE G
  BY <1>u, Zenon
<1>c. ASSUME NEW c \in Conns, NEW point \in Points, Goto(c, point),
             \/ UNCHANGED verdict
             \/ pc[c] \in Undecided /\ \E x \in Verdicts : verdict' = [verdict EXCEPT ![c] = x],
             \/ pc[c] \notin {"failing", "releasing", "done"}
             \/ point \in {"failing", "releasing", "done"}
      PROVE G
  BY <1>0, <1>c DEF Goto, Undecided
<1> HIDE DEF G
<1>1. ASSUME NEW i \in Invites, Serve(i) PROVE G
  <2>1. CASE CloseEndpoint(i)
    <3>1. pc[d] # "dialled"
      OBVIOUS
    <3>2. pc'[d] = pc[d] /\ verdict' = verdict
      BY <2>1, <3>1, Zenon DEF CloseEndpoint
    <3> QED
      BY <3>2, Zenon DEF G
  <2> QED
    BY <1>1, <1>u, <2>1, Zenon DEF Serve, InsertEntry, EndpointUp, EndpointFails, TakeOutcome,
        TakeDecide, Deadline, Flush, Finish, Leave
<1>2. ASSUME NEW c \in Conns, Accept(c) PROVE G
  <2>1. verdict' = verdict /\ (pc' = pc \/ \E point \in {"accepting", "done", "hello", "busy"} : Goto(c, point))
    BY <1>2, ZenonT(40) DEF Accept, TakeIncoming, DelayOver, Handshake
  <2>2. pc[c] \notin {"failing", "releasing", "done"}
    BY <1>2, ZenonT(40) DEF Accept, TakeIncoming, DelayOver, Handshake
  <2>3. \A point \in {"accepting", "done", "hello", "busy"} : point \in Points
    BY Zenon DEF Points, Handling
  <2> QED
    BY <1>u, <1>c, <2>1, <2>2, <2>3, Zenon
<1>3. ASSUME NEW c \in Conns, Handle(c) PROVE G
  <2>1. CASE RefuseBusy(c)
    <3>1. PICK x \in {verdict[c], "busy"} : verdict' = [verdict EXCEPT ![c] = x]
      BY <2>1, Zenon DEF RefuseBusy
    <3>2. x \in Verdicts
      BY <1>0, Zenon DEF Verdicts
    <3>3. pc[c] = "busy" /\ Goto(c, "done") /\ "done" \in Points
      BY <2>1, Zenon DEF RefuseBusy, Points
    <3> QED
      BY <1>c, <3>1, <3>2, <3>3, Zenon DEF Undecided
  <2>2. CASE HelloNameTaken(c) \/ HelloOk(c)
    <3>1. \E x \in Verdicts : verdict' = [verdict EXCEPT ![c] = x]
      BY <2>2, Zenon DEF HelloNameTaken, HelloOk, Verdicts
    <3>2. pc[c] = "hello" /\ \E point \in Points : Goto(c, point)
      BY <2>2, Zenon DEF HelloNameTaken, HelloOk, Points, Handling
    <3> QED
      BY <1>c, <3>1, <3>2, ZenonT(40) DEF Undecided
  <2>3. CASE ReadDecision(c) \/ PromptTimeout(c)
    <3>1. verdict' = verdict \/ \E x \in Verdicts : verdict' = [verdict EXCEPT ![c] = x]
      BY <2>3, Zenon DEF ReadDecision, PromptTimeout, Verdicts
    <3>2. pc[c] = "waiting" /\ \E point \in Points : Goto(c, point)
      BY <2>3, Zenon DEF ReadDecision, PromptTimeout, Points, Handling
    <3> QED
      BY <1>c, <3>1, <3>2 DEF Undecided
  <2>4. CASE RecordOk(c) \/ RecordFails(c)
    <3>1. \E x \in {"confirm", "busy", "server_error"} : verdict' = [verdict EXCEPT ![c] = x]
      BY <2>4, Zenon DEF RecordOk, RecordFails
    <3>2. pc[c] = "accepted" /\ \E point \in {"confirming", "denying", "failing"} : Goto(c, point)
      BY <2>4, Zenon DEF RecordOk, RecordFails
    <3>3. {"confirm", "busy", "server_error"} \subseteq Verdicts /\ {"confirming", "denying", "failing"} \subseteq Points
      BY DEF Verdicts, Points, Handling
    <3> QED
      BY <1>c, <3>1, <3>2, <3>3, ZenonT(40) DEF Undecided
  <2>5. CASE HelloFails(c) \/ Listen(c) \/ ClientLeft(c) \/ Denied(c) \/ SendOutcome(c) \/ Release(c)
    <3>1. verdict' = verdict
      BY <2>5, Zenon DEF HelloFails, Listen, ClientLeft, Denied, SendOutcome, Release
    <3>2. \/ Goto(c, "releasing") \/ Goto(c, "done")
          \/ Goto(c, "waiting") /\ pc[c] = "asking"
      BY <2>5, Zenon DEF HelloFails, Listen, ClientLeft, Denied, SendOutcome, Release
    <3>3. "releasing" \in Points /\ "done" \in Points /\ "waiting" \in Points
      BY Zenon DEF Points, Handling
    <3> QED
      BY <1>c, <3>1, <3>2, <3>3
  <2> QED
    BY <1>3, <2>1, <2>2, <2>3, <2>4, <2>5, ZenonT(40) DEF Handle
<1>4. ASSUME Environment PROVE G
  <2>1. ASSUME NEW c \in Conns, Dial(c) PROVE G
    <3>1. pc[c] = "idle" /\ Goto(c, "dialled") /\ verdict' = verdict /\ "dialled" \in Points
      BY <2>1, Zenon DEF Dial, Points
    <3> QED
      BY <1>c, <3>1
  <2> QED
    BY <1>4, <1>u, <2>1, Zenon DEF Environment, Vanish, CheckCreate, DeadlinePasses, IpcClose,
        Answer, Rm, Rival
<1>5. ASSUME UNCHANGED vars PROVE G
  BY <1>5, <1>u, Zenon DEF vars
<1> QED
  BY <1>1, <1>2, <1>3, <1>4, <1>5, Zenon DEF Next, G

\* The frame written to a confirmed client is the last one: no step of its
\* handler overwrites the verdict.
LEMMA ConfirmStays ==
    ASSUME TypeOK, ConfirmedIsRecorded, [Next]_vars
    PROVE  StillConfirmed
<1> SUFFICES ASSUME NEW c \in Conns, verdict[c] = "confirm" PROVE verdict'[c] = "confirm"
  BY Zenon DEF StillConfirmed
<1>1. pc[c] \in {"confirming", "failing", "releasing", "done"}
  BY DEF ConfirmedIsRecorded
<1> QED
  BY <1>1, VerdictsAreFinal, Zenon

\* No step but RecordFails takes a handler to the answer server_error.
LEMMA FailingIsNew ==
    ASSUME TypeOK, [Next]_vars, NEW d \in Conns, pc[d] # "failing", pc'[d] = "failing"
    PROVE  RecordFails(d) /\ verdict'[d] = "server_error"
<1>0. pc \in [Conns -> Points] /\ verdict \in [Conns -> Verdicts]
  BY Zenon DEF TypeOK
<1>1. ASSUME NEW c \in Conns, NEW point, Goto(c, point) PROVE c = d /\ point = "failing"
  BY <1>0, <1>1, SMTT(30) DEF Goto
<1>2. pc' # pc
  BY Zenon
<1>3. ASSUME NEW i \in Invites, CloseEndpoint(i) PROVE FALSE
  <2>1. pc'[d] = pc[d] \/ pc'[d] = "done"
    BY <1>3, Zenon DEF CloseEndpoint
  <2> QED
    BY <2>1
<1>4. ASSUME NEW i \in Invites, Serve(i) PROVE FALSE
  BY <1>2, <1>3, <1>4, ZenonT(40) DEF Serve, InsertEntry, EndpointUp, EndpointFails, TakeOutcome,
      TakeDecide, Deadline, Flush, Finish, Leave
<1>5. ASSUME NEW c \in Conns, Accept(c) PROVE FALSE
  <2>1. Goto(c, "accepting") \/ Goto(c, "done") \/ Goto(c, "hello") \/ Goto(c, "busy")
    BY <1>2, <1>5, ZenonT(40) DEF Accept, TakeIncoming, DelayOver, Handshake
  <2> QED
    BY <1>1, <2>1, SMTT(30)
<1>6. ASSUME NEW c \in Conns, Handle(c) PROVE RecordFails(c)
  <2>1. \/ RecordFails(c) \/ Goto(c, "done") \/ Goto(c, "releasing") \/ Goto(c, "asking")
        \/ Goto(c, "waiting") \/ Goto(c, "accepted") \/ Goto(c, "denying") \/ Goto(c, "confirming")
    BY <1>6, ZenonT(40) DEF Handle, RefuseBusy, HelloFails, HelloNameTaken, HelloOk, Listen,
        ReadDecision, ClientLeft, PromptTimeout, Denied, RecordOk, SendOutcome, Release
  <2> QED
    BY <1>1, <2>1, SMTT(30)
<1>7. ASSUME Environment PROVE FALSE
  <2>1. \E c \in Conns : Goto(c, "dialled")
    BY <1>2, <1>7, ZenonT(40) DEF Environment, Dial, Vanish, CheckCreate, DeadlinePasses, IpcClose,
        Answer, Rm, Rival
  <2> QED
    BY <1>1, <2>1, SMTT(30)
<1>8. PICK c \in Conns : RecordFails(c)
  BY <1>2, <1>4, <1>5, <1>6, <1>7, ZenonT(40) DEF Next, vars
<1>9. c = d /\ DialsTo[c] \notin recorded
  <2>1. Goto(c, IF DialsTo[c] \in recorded THEN "denying" ELSE "failing")
    BY <1>8, Zenon DEF RecordFails
  <2> QED
    BY <1>1, <2>1, SMTT(30)
<1> QED
  BY <1>0, <1>8, <1>9, Zenon DEF RecordFails

\* RecordFails is the only step that answers server_error.
LEMMA FailedStep ==
    ASSUME TypeOK, FailedIsOver, [Next]_vars
    PROVE  FailedIsOver'
<1>0. pc \in [Conns -> Points] /\ verdict \in [Conns -> Verdicts]
  BY Zenon DEF TypeOK
<1>f. ASSUME NEW d \in Conns, pc'[d] = "failing" PROVE verdict'[d] = "server_error"
  <2>1. CASE pc[d] = "failing"
    BY <2>1, VerdictsAreFinal, Zenon DEF FailedIsOver
  <2>2. CASE pc[d] # "failing"
    BY <1>f, <2>2, FailingIsNew, Zenon
  <2> QED
    BY <2>1, <2>2, Zenon
<1> SUFFICES ASSUME NEW d \in Conns, verdict'[d] = "server_error"
             PROVE  pc'[d] \in {"failing", "releasing", "done"}
  BY <1>f, Zenon DEF FailedIsOver
<1>1. CASE verdict[d] = "server_error"
  BY <1>1, VerdictsAreFinal, Zenon DEF FailedIsOver
<1>2. CASE verdict[d] # "server_error"
  <2>1. ASSUME NEW c \in Conns, Handle(c) PROVE RecordFails(c)
    <3>1. \A x : verdict' = [verdict EXCEPT ![c] = x] => x = "server_error"
      BY <1>0, <1>2
    <3>2. verdict' # verdict
      BY <1>2, Zenon
    <3>3. ~RefuseBusy(c)
      <4>1. SUFFICES ASSUME RefuseBusy(c) PROVE FALSE
        OBVIOUS
      <4>2. PICK x \in {verdict[c], "busy"} : verdict' = [verdict EXCEPT ![c] = x]
        BY <4>1, ZenonT(40) DEF RefuseBusy
      <4> QED
        BY <1>0, <1>2, <4>2, SMTT(30)
    <3>4. ~HelloNameTaken(c) /\ ~HelloOk(c) /\ ~ReadDecision(c) /\ ~PromptTimeout(c) /\ ~RecordOk(c)
      BY <3>1, <3>2, ZenonT(40) DEF HelloNameTaken, HelloOk, ReadDecision, PromptTimeout, RecordOk
    <3> QED
      BY <2>1, <3>2, <3>3, <3>4, ZenonT(40) DEF Handle, HelloFails, Listen, ClientLeft, Denied, SendOutcome,
          Release
  <2>2. \E c \in Conns : Handle(c)
    BY <1>2, ZenonT(40) DEF Next, vars, Serve, InsertEntry, EndpointUp, EndpointFails, TakeOutcome,
        TakeDecide, Deadline, Flush, CloseEndpoint, Finish, Leave, Accept, TakeIncoming, DelayOver, Handshake,
        Environment, Dial, Vanish, CheckCreate, DeadlinePasses, IpcClose, Answer, Rm, Rival
  <2>3. PICK c \in Conns : RecordFails(c)
    BY <2>1, <2>2, ZenonT(40)
  <2>4. PICK x \in {"busy", "server_error"} :
           /\ verdict' = [verdict EXCEPT ![c] = x]
           /\ x = "server_error" => Goto(c, "failing")
    BY <2>3, ZenonT(40) DEF RecordFails
  <2>5. c = d /\ x = "server_error"
    BY <1>0, <1>2, <2>4, SMTT(30)
  <2> QED
    BY <1>0, <2>4, <2>5, Zenon DEF Goto
<1> QED
  BY <1>1, <1>2, Zenon

\* A Paired outcome names a confirmed client, in the channel, in the serving
\* task and in the reply.
LEMMA PairedStep ==
    ASSUME TypeOK, ConfirmedIsRecorded, PairedIsConfirmed, [Next]_vars
    PROVE  PairedIsConfirmed'
<1>0. /\ pc \in [Conns -> Points] /\ DialsTo \in [Conns -> Invites]
      /\ verdict \in [Conns -> Verdicts]
      /\ outcomes \in [Invites -> Seq(Outcome)]
      /\ outcome \in [Invites -> Outcome]
      /\ result \in [Invites -> Result]
  BY InviteAssumption DEF TypeOK
<1>v. \A c \in Conns : verdict[c] = "confirm" => verdict'[c] = "confirm"
  BY ConfirmStays, Zenon DEF StillConfirmed
<1>k. \A i \in Invites : \A o : Truthful(verdict, i, o) => Truthful(verdict', i, o)
  BY <1>v, Zenon DEF Truthful
<1>u. ASSUME UNCHANGED <<outcomes, outcome, result>>
      PROVE  PairedIsConfirmed'
  BY <1>k, <1>u, ZenonT(40) DEF PairedIsConfirmed
<1>w. ASSUME UNCHANGED <<outcomes, result>>, NEW i \in Invites, NEW o,
             outcome' = [outcome EXCEPT ![i] = o], o.kind # "paired"
      PROVE  PairedIsConfirmed'
  <2>1. Truthful(verdict', i, o)
    BY <1>w, Zenon DEF Truthful
  <2> QED
    BY <1>0, <1>k, <1>w, <2>1 DEF PairedIsConfirmed
<1>f. ASSUME UNCHANGED <<outcomes, outcome>>, NEW i \in Invites, NEW r,
             finish(i, r), Truthful(verdict, i, r)
      PROVE  PairedIsConfirmed'
  BY <1>0, <1>k, <1>f DEF finish, PairedIsConfirmed
<1>1. ASSUME NEW i \in Invites, Serve(i) PROVE PairedIsConfirmed'
  <2>1. CASE EndpointFails(i)
    <3>1. UNCHANGED <<outcomes, outcome>> /\ finish(i, Expired)
      BY <2>1, Zenon DEF EndpointFails
    <3> QED
      BY <3>1, <1>f DEF Expired, Truthful
  <2>2. CASE TakeOutcome(i)
    <3>1. outcomes[i] # << >> /\ UNCHANGED result /\ Break(i, Head(outcomes[i]))
          /\ outcomes' = [outcomes EXCEPT ![i] = Tail(@)]
      BY <2>2, Zenon DEF TakeOutcome
    <3>2. Truthful(verdict', i, Head(outcomes[i]))
      BY <1>0, <1>k, <3>1 DEF PairedIsConfirmed
    <3>3. outcomes[i] \in Seq(Outcome)
      BY <1>0, Zenon
    <3>4. \A k \in DOMAIN Tail(outcomes[i]) :
            k + 1 \in DOMAIN outcomes[i] /\ Tail(outcomes[i])[k] = outcomes[i][k + 1]
      BY <3>1, <3>3, SMTT(30)
    <3>5. \A k \in DOMAIN Tail(outcomes[i]) : Truthful(verdict', i, Tail(outcomes[i])[k])
      BY <1>k, <3>4 DEF PairedIsConfirmed
    <3> QED
      BY <1>0, <1>k, <3>1, <3>2, <3>5 DEF Break, PairedIsConfirmed
  <2>3. CASE TakeDecide(i)
    <3>1. UNCHANGED <<outcomes, result>> /\ (outcome' = outcome \/ outcome' = [outcome EXCEPT ![i] = Rejected])
      BY <2>3, Zenon DEF TakeDecide, Break
    <3>2. Rejected.kind # "paired"
      BY Zenon DEF Rejected
    <3> QED
      BY <3>1, <3>2, <1>u, <1>w, Zenon
  <2>4. CASE Deadline(i)
    <3>1. UNCHANGED <<outcomes, result>> /\ outcome' = [outcome EXCEPT ![i] = Expired]
      BY <2>4 DEF Deadline, Break
    <3>2. Expired.kind # "paired"
      BY Zenon DEF Expired
    <3> QED
      BY <3>1, <3>2, <1>w, Zenon
  <2>5. CASE Finish(i)
    <3>1. UNCHANGED <<outcomes, outcome>> /\ finish(i, outcome[i])
      BY <2>5, Zenon DEF Finish
    <3>2. Truthful(verdict, i, outcome[i])
      BY DEF PairedIsConfirmed
    <3> QED
      BY <3>1, <3>2, <1>f
  <2> QED
    BY <1>1, <1>u, <2>1, <2>2, <2>3, <2>4, <2>5, ZenonT(40) DEF Serve, InsertEntry, EndpointUp, Flush,
        CloseEndpoint, Leave
<1>2. ASSUME NEW c \in Conns, Accept(c) PROVE PairedIsConfirmed'
  <2>1. CASE DelayOver(c)
    <3>1. UNCHANGED <<outcomes, result>> /\ (outcome' = outcome \/ Break(DialsTo[c], Expired))
      BY <2>1 DEF DelayOver
    <3> QED
      BY <1>0, <3>1, <1>u, <1>w, SMTT(30) DEF Break, Expired
  <2> QED
    BY <1>2, <1>u, <2>1, Zenon DEF Accept, TakeIncoming, Handshake
<1>3. ASSUME NEW c \in Conns, Handle(c) PROVE PairedIsConfirmed'
  <2>1. CASE SendOutcome(c)
    <3>1. UNCHANGED <<outcome, result, verdict>>
      BY <2>1, Zenon DEF SendOutcome
    <3>2. PICK o : /\ outcomes' = [outcomes EXCEPT ![DialsTo[c]] = Append(@, o)]
                   /\ o = IF pc[c] = "confirming" THEN Paired(c) ELSE Rejected
      BY <2>1, Zenon DEF SendOutcome
    <3>3. Truthful(verdict, DialsTo[c], o)
      BY <3>2, Zenon DEF Paired, Rejected, Truthful, ConfirmedIsRecorded
    <3>4. o \in Outcome
      BY <3>2, Zenon DEF Paired, Rejected, Outcome
    <3>5. \A k \in DOMAIN outcomes'[DialsTo[c]] : Truthful(verdict, DialsTo[c], outcomes'[DialsTo[c]][k])
      BY <1>0, <3>2, <3>3, <3>4, SMTT(30) DEF PairedIsConfirmed
    <3> QED
      BY <1>0, <3>1, <3>2, <3>5 DEF PairedIsConfirmed
  <2> QED
    BY <1>3, <1>u, <2>1, Zenon DEF Handle, RefuseBusy, HelloFails, HelloNameTaken, HelloOk, Listen,
        ReadDecision, ClientLeft, PromptTimeout, Denied, RecordOk, RecordFails, Release
<1>4. CASE Environment
  <2>1. ASSUME NEW i \in Invites, CheckCreate(i) PROVE PairedIsConfirmed'
    <3>1. UNCHANGED <<outcomes, outcome>>
      BY <2>1, Zenon DEF CheckCreate
    <3>2. CASE UNCHANGED result
      BY <3>1, <3>2, <1>u
    <3>3. ASSUME NEW err, RefuseCreate(i, err) PROVE PairedIsConfirmed'
      <4>1. Truthful(verdict', i, [kind |-> "error", code |-> error_code(err)])
        BY DEF Truthful
      <4> QED
        BY <1>0, <1>k, <3>1, <3>3, <4>1, Zenon DEF RefuseCreate, PairedIsConfirmed
    <3> QED
      BY <2>1, <3>2, <3>3, Zenon DEF CheckCreate
  <2> QED
    BY <1>4, <1>u, <2>1, Zenon DEF Environment, Dial, Vanish, DeadlinePasses, IpcClose, Answer, Rm, Rival
<1>5. CASE UNCHANGED vars
  BY <1>5, <1>u, Zenon DEF vars
<1> QED
  BY <1>1, <1>2, <1>3, <1>4, <1>5, SMTT(30) DEF Next

\* The reply comes with finish, and the entry goes with the step after it.
LEMMA RepliesStep ==
    ASSUME TypeOK, RepliesAtTheEnd, OutcomesHaveCause, [Next]_vars
    PROVE  RepliesAtTheEnd'
<1>0. /\ phase \in [Invites -> Phases]
      /\ result \in [Invites -> Result]
      /\ entries \subseteq Invites
      /\ DialsTo \in [Conns -> Invites]
  BY InviteAssumption, Zenon DEF TypeOK
<1>u. ASSUME UNCHANGED <<result, entries>>,
             \A i \in Invites : \/ phase'[i] = phase[i]
                                \/ /\ phase[i] \notin {"none", "checked", "leaving", "done"}
                                   /\ phase'[i] \notin {"none", "checked", "leaving", "done"}
      PROVE  RepliesAtTheEnd'
  BY <1>0, <1>u, SMTT(30) DEF RepliesAtTheEnd
<1>f. ASSUME NEW i \in Invites, NEW r, finish(i, r), r # Nothing, UNCHANGED entries,
             phase[i] \in {"binding", "closing"}
      PROVE  RepliesAtTheEnd'
  <2>1. result[i] = Nothing /\ i \in entries
    BY <1>f, Zenon DEF RepliesAtTheEnd
  <2>2. result'[i] = r /\ phase'[i] = "leaving"
    BY <1>0, <1>f, <2>1, Zenon DEF finish
  <2>3. \A j \in Invites \ {i} : result'[j] = result[j] /\ phase'[j] = phase[j]
    BY <1>0, <1>f, Zenon DEF finish
  <2> QED
    BY <1>f, <2>1, <2>2, <2>3, SMTT(30) DEF RepliesAtTheEnd
<1>1. ASSUME NEW i \in Invites, Serve(i) PROVE RepliesAtTheEnd'
  <2>1. CASE InsertEntry(i)
    BY <2>1, <1>0, Zenon DEF InsertEntry, RepliesAtTheEnd
  <2>2. CASE EndpointUp(i)
    BY <2>2, <1>0, <1>u, Zenon DEF EndpointUp
  <2>3. CASE EndpointFails(i)
    <3>1. Expired # Nothing
      BY Zenon DEF Expired, Nothing
    <3> QED
      BY <2>3, <3>1, <1>f, Zenon DEF EndpointFails
  <2>4. CASE TakeOutcome(i)
    BY <2>4, <1>0, <1>u, Zenon DEF TakeOutcome, Break
  <2>5. CASE TakeDecide(i)
    BY <2>5, <1>0, <1>u, Zenon DEF TakeDecide, Break, NotifyWaiters, Rejected
  <2>6. CASE Deadline(i)
    BY <2>6, <1>0, <1>u, Zenon DEF Deadline, Break, Expired
  <2>7. CASE Flush(i)
    BY <2>7, <1>0, <1>u, Zenon DEF Flush, NotifyWaiters, Rejected, Expired
  <2>8. CASE CloseEndpoint(i)
    BY <2>8, <1>0, <1>u DEF CloseEndpoint, Rejected, Expired
  <2>9. CASE Finish(i)
    <3>1. phase[i] = "closing"
      BY <2>9, Zenon DEF Finish
    <3>2. Caused(answer, verdict, expired, i, outcome[i])
      BY <3>1, Zenon DEF OutcomesHaveCause
    <3>3. outcome[i] # Nothing
      <4>1. Nothing.kind = "none" /\ Rejected.kind = "rejected" /\ Expired.kind = "expired"
        BY DEF Rejected, Expired, Nothing
      <4> QED
        BY <3>2, <4>1, SMTT(30) DEF Caused
    <3> QED
      BY <2>9, <3>1, <3>3, <1>f, Zenon DEF Finish
  <2>10. CASE Leave(i)
    BY <2>10, <1>0, Zenon DEF Leave, RepliesAtTheEnd
  <2> QED
    BY <1>1, <1>u, <2>1, <2>2, <2>3, <2>4, <2>5, <2>6, <2>7, <2>8, <2>9, <2>10, ZenonT(40) DEF Serve
<1>2. ASSUME NEW c \in Conns, Accept(c) PROVE RepliesAtTheEnd'
  <2>1. CASE TakeIncoming(c)
    BY <2>1, <1>0, <1>u, Zenon DEF TakeIncoming, Goto
  <2>2. CASE DelayOver(c)
    <3>1. PICK x \in {"ending", "handshaking"} : phase' = [phase EXCEPT ![DialsTo[c]] = x]
      BY <2>2, ZenonT(40) DEF DelayOver, Break
    <3>2. UNCHANGED <<result, entries>> /\ phase[DialsTo[c]] = "delaying"
      BY <2>2, Zenon DEF DelayOver
    <3> QED
      BY <1>0, <1>u, <3>1, <3>2, SMTT(30)
  <2>3. CASE Handshake(c)
    BY <2>3, <1>0, <1>u DEF Handshake, Goto
  <2> QED
    BY <1>2, <1>u, <2>1, <2>2, <2>3, Zenon DEF Accept
<1>3. ASSUME NEW c \in Conns, Handle(c) PROVE RepliesAtTheEnd'
  BY <1>3, <1>u, Zenon DEF Handle, RefuseBusy, HelloFails, HelloNameTaken, HelloOk, Listen,
      ReadDecision, ClientLeft, PromptTimeout, Denied, RecordOk, RecordFails, SendOutcome,
      Release
<1>4. CASE Environment
  <2>1. ASSUME NEW i \in Invites, CheckCreate(i) PROVE RepliesAtTheEnd'
    <3>1. UNCHANGED entries /\ phase[i] = "none" /\ result[i] = Nothing /\ i \notin entries
      BY <2>1, Zenon DEF CheckCreate, RepliesAtTheEnd
    <3>2. CASE UNCHANGED result /\ phase' = [phase EXCEPT ![i] = "checked"]
      BY <1>0, <3>1, <3>2, SMTT(30) DEF RepliesAtTheEnd
    <3>3. ASSUME NEW err, RefuseCreate(i, err) PROVE RepliesAtTheEnd'
      <4> DEFINE r == [kind |-> "error", code |-> error_code(err)]
      <4>1. r # Nothing
        BY DEF Nothing
      <4>2. phase' = [phase EXCEPT ![i] = "done"] /\ result' = [result EXCEPT ![i] = r]
        BY <3>3, Zenon DEF RefuseCreate
      <4> HIDE DEF r
      <4> QED
        BY <1>0, <3>1, <4>1, <4>2, SMTT(30) DEF RepliesAtTheEnd
    <3> QED
      BY <2>1, <3>2, <3>3, Zenon DEF CheckCreate
  <2> QED
    BY <1>4, <1>u, <2>1, Zenon DEF Environment, Dial, Vanish, DeadlinePasses, IpcClose, Answer, Rm, Rival
<1>5. CASE UNCHANGED vars
  BY <1>5, <1>u, Zenon DEF vars
<1> QED
  BY <1>1, <1>2, <1>3, <1>4, <1>5, SMTT(30) DEF Next

\* A handler emits pair_request at most once and every request is answered
\* at most once.
LEMMA AskedStep ==
    ASSUME TypeOK, AskedOnce, [Next]_vars
    PROVE  AskedOnce'
<1>0. /\ pc \in [Conns -> Points] /\ DialsTo \in [Conns -> Invites]
      /\ prompts \in [Invites -> Seq(Conns)]
      /\ answer \in [Conns -> Decisions \cup {"none"}]
  BY InviteAssumption DEF TypeOK
<1>u. ASSUME UNCHANGED <<prompts, answer>>,
             \A c \in Conns : pc'[c] \in Unasked => pc[c] \in Unasked
      PROVE  AskedOnce'
  <2>1. \A c \in Conns : pc[c] \notin Unasked => pc'[c] \notin Unasked
    BY <1>u, Zenon
  <2>2. \A i \in Invites : \A k \in DOMAIN prompts[i] : prompts[i][k] \in Conns
    BY <1>0
  <2>3. \A i \in Invites : \A k \in DOMAIN prompts[i] : pc'[prompts[i][k]] \notin Unasked
    BY <2>1, <2>2, Zenon DEF AskedOnce
  <2>4. \A c \in Conns : pc'[c] \in Unasked => answer[c] = "none"
    BY <1>u, Zenon DEF AskedOnce
  <2>5. prompts' = prompts /\ answer' = answer
    BY <1>u, Zenon
  <2> HIDE <1>u
  <2> QED
    BY <2>3, <2>4, <2>5, ZenonT(40) DEF AskedOnce
<1>1. ASSUME NEW i \in Invites, Serve(i) PROVE AskedOnce'
  <2>1. CASE CloseEndpoint(i)
    BY <2>1, <1>0, <1>u, Zenon DEF CloseEndpoint, Rejected, Expired, Unasked
  <2> QED
    BY <1>1, <1>u, <2>1, Zenon DEF Serve, InsertEntry, EndpointUp, EndpointFails, TakeOutcome,
        TakeDecide, Deadline, Flush, Finish, Leave
<1>2. ASSUME NEW c \in Conns, Accept(c) PROVE AskedOnce'
  <2>1. CASE TakeIncoming(c)
    BY <2>1, <1>0, <1>u, Zenon DEF TakeIncoming, Goto, Unasked
  <2>2. CASE DelayOver(c)
    BY <2>2, <1>0, <1>u, Zenon DEF DelayOver, Break, Expired, Goto, Unasked
  <2>3. CASE Handshake(c)
    BY <2>3, <1>0, <1>u, Zenon DEF Handshake, Goto, Unasked
  <2> QED
    BY <1>2, <1>u, <2>1, <2>2, <2>3, Zenon DEF Accept
<1>3. ASSUME NEW c \in Conns, Handle(c) PROVE AskedOnce'
  <2>1. CASE RefuseBusy(c)
    BY <2>1, <1>0, <1>u, Zenon DEF RefuseBusy, Goto, Unasked
  <2>2. CASE HelloFails(c)
    BY <2>2, <1>0, <1>u, Zenon DEF HelloFails, Goto, Unasked
  <2>3. CASE HelloNameTaken(c)
    BY <2>3, <1>0, <1>u, ZenonT(40) DEF HelloNameTaken, Goto, Unasked
  <2>4. CASE HelloOk(c)
    BY <2>4, <1>0 DEF HelloOk, Goto, AskedOnce, Unasked
  <2>5. CASE Listen(c)
    BY <2>5, <1>0, <1>u, Zenon DEF Listen, Goto, Unasked
  <2>6. CASE ReadDecision(c)
    BY <2>6, <1>0, <1>u DEF ReadDecision, Goto, Unasked
  <2>7. CASE ClientLeft(c)
    BY <2>7, <1>0, <1>u, Zenon DEF ClientLeft, Goto, Unasked
  <2>8. CASE PromptTimeout(c)
    BY <2>8, <1>0, <1>u, Zenon DEF PromptTimeout, Goto, Unasked
  <2>9. CASE Denied(c)
    BY <2>9, <1>0, <1>u DEF Denied, Goto, Unasked
  <2>10. CASE RecordOk(c)
    BY <2>10, <1>0, <1>u, Zenon DEF RecordOk, Goto, Unasked
  <2>11. CASE RecordFails(c)
    BY <2>11, <1>0, <1>u, Zenon DEF RecordFails, Goto, Unasked
  <2>12. CASE SendOutcome(c)
    BY <2>12, <1>0, <1>u, ZenonT(40) DEF SendOutcome, Goto, Paired, Rejected, Unasked
  <2>13. CASE Release(c)
    BY <2>13, <1>0, <1>u DEF Release, Goto, Unasked
  <2> QED
    BY <1>3, <1>u, <2>1, <2>2, <2>3, <2>4, <2>5, <2>6, <2>7, <2>8, <2>9, <2>10, <2>11, <2>12, <2>13, ZenonT(40) DEF
        Handle
<1>4. CASE Environment
  <2>1. ASSUME NEW c \in Conns, Dial(c) PROVE AskedOnce'
    BY <2>1, <1>0, <1>u, ZenonT(40) DEF Dial, Goto, Unasked
  <2>2. ASSUME NEW i \in Invites, NEW d \in Decisions, Answer(i, d) PROVE AskedOnce'
    BY <2>2, <1>0, SMTT(30) DEF Answer, AskedOnce, Unasked
  <2> QED
    BY <1>4, <1>u, <2>1, <2>2, Zenon DEF Environment, Vanish, CheckCreate, DeadlinePasses,
        IpcClose, Rm, Rival
<1>5. CASE UNCHANGED vars
  BY <1>5, <1>u, Zenon DEF vars
<1> QED
  BY <1>1, <1>2, <1>3, <1>4, <1>5, SMTT(30) DEF Next

\* A decision comes from the admin, and an accept in a handler from a
\* decide(true).
LEMMA AnsweredStep ==
    ASSUME TypeOK, AskedOnce, DecisionsAreAnswers, [Next]_vars
    PROVE  DecisionsAreAnswers'
<1>0. /\ pc \in [Conns -> Points] /\ DialsTo \in [Conns -> Invites]
      /\ prompts \in [Invites -> Seq(Conns)]
      /\ answer \in [Conns -> Decisions \cup {"none"}]
      /\ cmds \in [Invites -> Seq(Decisions)]
      /\ decision \in [Invites -> Decisions \cup {"none"}]
      /\ verdict \in [Conns -> Verdicts]
  BY InviteAssumption DEF TypeOK
<1>u. ASSUME UNCHANGED <<cmds, decision, answer>>,
             \A c \in Conns : pc'[c] = "accepted" \/ verdict'[c] = "confirm" =>
                pc[c] = "accepted" \/ verdict[c] = "confirm"
      PROVE  DecisionsAreAnswers'
  BY <1>0, <1>u, Zenon DEF DecisionsAreAnswers
<1>1. ASSUME NEW i \in Invites, Serve(i) PROVE DecisionsAreAnswers'
  <2>1. CASE TakeDecide(i)
    <3>1. UNCHANGED <<answer, pc, verdict>>
          /\ cmds[i] # << >> /\ cmds' = [cmds EXCEPT ![i] = Tail(@)]
          /\ decision' = [decision EXCEPT ![i] = Head(cmds[i])]
      BY <2>1, Zenon DEF TakeDecide
    <3>2. answer' = answer
      BY <3>1, Zenon
    <3>3. cmds[i] \in Seq(Decisions) /\ Head(cmds[i]) = cmds[i][1] /\ 1 \in DOMAIN cmds[i]
      BY <1>0, <3>1
    <3>4. \A k \in DOMAIN Tail(cmds[i]) :
            k + 1 \in DOMAIN cmds[i] /\ Tail(cmds[i])[k] = cmds[i][k + 1]
      BY <3>1, <3>3
    <3>5. \A j \in Invites : \A k \in DOMAIN cmds'[j] : Answered(answer', j, cmds'[j][k])
      BY <1>0, <3>1, <3>2, <3>4, SMTT(30) DEF DecisionsAreAnswers
    <3>6. \A j \in Invites : decision'[j] # "none" => Answered(answer', j, decision'[j])
      BY <1>0, <3>1, <3>2, <3>3 DEF DecisionsAreAnswers
    <3> QED
      BY <3>1, <3>2, <3>5, <3>6, <1>0, Zenon DEF DecisionsAreAnswers
  <2>2. CASE CloseEndpoint(i)
    BY <2>2, <1>0, <1>u, Zenon DEF CloseEndpoint, Rejected, Expired
  <2> QED
    BY <1>1, <1>u, <2>1, <2>2, Zenon DEF Serve, InsertEntry, EndpointUp, EndpointFails,
        TakeOutcome, Deadline, Flush, Finish, Leave
<1>2. ASSUME NEW c \in Conns, Accept(c) PROVE DecisionsAreAnswers'
  <2>1. CASE TakeIncoming(c)
    BY <2>1, <1>0, <1>u, Zenon DEF TakeIncoming, Goto
  <2>2. CASE DelayOver(c)
    BY <2>2, <1>0, <1>u, Zenon DEF DelayOver, Break, Expired, Goto
  <2>3. CASE Handshake(c)
    BY <2>3, <1>0, <1>u DEF Handshake, Goto
  <2> QED
    BY <1>2, <1>u, <2>1, <2>2, <2>3, Zenon DEF Accept
<1>3. ASSUME NEW c \in Conns, Handle(c) PROVE DecisionsAreAnswers'
  <2>1. CASE RefuseBusy(c)
    BY <2>1, <1>0, <1>u, SMTT(30) DEF RefuseBusy, Goto
  <2>2. CASE HelloFails(c)
    BY <2>2, <1>0, <1>u DEF HelloFails, Goto
  <2>3. CASE HelloNameTaken(c)
    BY <2>3, <1>0, <1>u, Zenon DEF HelloNameTaken, Goto
  <2>4. CASE HelloOk(c)
    BY <2>4, <1>0, <1>u, Zenon DEF HelloOk, Goto
  <2>5. CASE Listen(c)
    BY <2>5, <1>0, <1>u DEF Listen, Goto
  <2>6. CASE ReadDecision(c)
    <3>1. pc[c] = "waiting" /\ UNCHANGED <<cmds, decision, answer>>
      BY <2>6, Zenon DEF ReadDecision
    <3>2. answer' = answer
      BY <3>1, Zenon
    <3>3. CASE decision[DialsTo[c]] = "accept" /\ Goto(c, "accepted") /\ UNCHANGED verdict
      BY <1>0, <3>1, <3>2, <3>3, Zenon DEF Goto, DecisionsAreAnswers
    <3>4. CASE Goto(c, "denying") /\ verdict' = [verdict EXCEPT ![c] = "admin_denied"]
      BY <1>0, <3>1, <3>2, <3>4 DEF Goto, DecisionsAreAnswers
    <3>5. CASE Goto(c, "asking") /\ UNCHANGED verdict
      BY <1>0, <3>1, <3>2, <3>5, Zenon DEF Goto, DecisionsAreAnswers
    <3> QED
      BY <2>6, <3>3, <3>4, <3>5, Zenon DEF ReadDecision
  <2>7. CASE ClientLeft(c)
    BY <2>7, <1>0, <1>u, Zenon DEF ClientLeft, Goto
  <2>8. CASE PromptTimeout(c)
    BY <2>8, <1>0, <1>u, Zenon DEF PromptTimeout, Goto
  <2>9. CASE Denied(c)
    BY <2>9, <1>0, <1>u, Zenon DEF Denied, Goto
  <2>10. CASE RecordOk(c)
    BY <2>10, <1>0, <1>u, Zenon DEF RecordOk, Goto
  <2>11. CASE RecordFails(c)
    BY <2>11, <1>0, <1>u, Zenon DEF RecordFails, Goto
  <2>12. CASE SendOutcome(c)
    BY <2>12, <1>0, <1>u, Zenon DEF SendOutcome, Goto, Paired, Rejected
  <2>13. CASE Release(c)
    BY <2>13, <1>0, <1>u, Zenon DEF Release, Goto
  <2> QED
    BY <1>3, <1>u, <2>1, <2>2, <2>3, <2>4, <2>5, <2>6, <2>7, <2>8, <2>9, <2>10, <2>11, <2>12, <2>13, ZenonT(40) DEF
        Handle
<1>4. CASE Environment
  <2>1. ASSUME NEW c \in Conns, Dial(c) PROVE DecisionsAreAnswers'
    BY <2>1, <1>0, <1>u, Zenon DEF Dial, Goto
  <2>2. ASSUME NEW i \in Invites, NEW d \in Decisions, Answer(i, d) PROVE DecisionsAreAnswers'
    <3> DEFINE asked == Head(prompts[i])
    <3>1. prompts[i] # << >> /\ asked = prompts[i][1] /\ 1 \in DOMAIN prompts[i]
      BY <2>2, <1>0, SMTT(30) DEF Answer
    <3>2. asked \in Conns /\ DialsTo[asked] = i /\ answer[asked] = "none"
      BY <1>0, <3>1 DEF AskedOnce
    <3>3. answer' = [answer EXCEPT ![asked] = d] /\ UNCHANGED <<decision, pc, verdict>>
      BY <2>2, Zenon DEF Answer
    <3>4. \A j \in Invites : \A x \in Decisions : Answered(answer, j, x) => Answered(answer', j, x)
      <4> SUFFICES ASSUME NEW j \in Invites, NEW x \in Decisions, NEW c \in Conns,
                          DialsTo[c] = j, answer[c] = x
                   PROVE  answer'[c] = x
        BY Zenon DEF Answered
      <4>1. c # asked
        BY <3>2 DEF Decisions
      <4> QED
        BY <1>0, <3>2, <3>3, <4>1, Zenon
    <3>5. Answered(answer', i, d)
      BY <1>0, <3>2, <3>3, Zenon DEF Answered
    <3>6. cmds' = cmds \/ cmds' = [cmds EXCEPT ![i] = Append(@, d)]
      BY <2>2, Zenon DEF Answer
    <3>7. \A j \in Invites : \A k \in DOMAIN cmds'[j] :
            (k \in DOMAIN cmds[j] /\ cmds'[j][k] = cmds[j][k]) \/ (j = i /\ cmds'[j][k] = d)
      <4>1. CASE cmds' = cmds
        BY <4>1, Zenon
      <4>2. CASE cmds' = [cmds EXCEPT ![i] = Append(@, d)]
        BY <1>0, <4>2, SMTT(30)
      <4> QED
        BY <3>6, <4>1, <4>2, Zenon
    <3>8. \A j \in Invites : \A k \in DOMAIN cmds[j] : cmds[j][k] \in Decisions
      BY <1>0
    <3>9. "accept" \in Decisions /\ \A j \in Invites : decision[j] # "none" => decision[j] \in Decisions
      BY <1>0, Zenon DEF Decisions
    <3>10. \A j \in Invites : \A k \in DOMAIN cmds'[j] : Answered(answer', j, cmds'[j][k])
      BY <3>4, <3>5, <3>7, <3>8, ZenonT(40) DEF DecisionsAreAnswers
    <3> QED
      BY <1>0, <3>3, <3>4, <3>9, <3>10, ZenonT(40) DEF DecisionsAreAnswers
  <2> QED
    BY <1>4, <1>u, <2>1, <2>2, Zenon DEF Environment, Vanish, CheckCreate, DeadlinePasses,
        IpcClose, Rm, Rival
<1>5. CASE UNCHANGED vars
  BY <1>5, <1>u, Zenon DEF vars
<1> QED
  BY <1>1, <1>2, <1>3, <1>4, <1>5, Zenon DEF Next

\* An answer of the admin and a failed record are not taken back.
LEMMA TurnedDownStays ==
    ASSUME TypeOK, AskedOnce, FailedIsOver, [Next]_vars, NEW i \in Invites,
           TurnedDown(answer, verdict, i)
    PROVE  TurnedDown(answer', verdict', i)
<1>1. PICK c \in Conns : DialsTo[c] = i /\ (answer[c] = "reject" \/ verdict[c] = "server_error")
  BY Zenon DEF TurnedDown
<1>2. CASE verdict[c] = "server_error"
  <2>1. pc[c] \in {"confirming", "failing", "releasing", "done"}
    BY <1>2, Zenon DEF FailedIsOver
  <2>2. verdict'[c] = verdict[c]
    BY <2>1, VerdictsAreFinal, Zenon
  <2> QED
    BY <1>1, <1>2, <2>2, Zenon DEF TurnedDown
<1>3. CASE answer[c] = "reject"
  <2>1. ASSUME NEW j \in Invites, NEW d \in Decisions, Answer(j, d) PROVE answer'[c] = "reject"
    <3>1. prompts[j] \in Seq(Conns) /\ prompts[j] # << >> /\ answer \in [Conns -> Decisions \cup {"none"}]
          /\ answer' = [answer EXCEPT ![Head(prompts[j])] = d]
      BY <2>1, Zenon DEF Answer, TypeOK
    <3>2. Head(prompts[j]) = prompts[j][1] /\ 1 \in DOMAIN prompts[j]
      BY <3>1
    <3>3. answer[Head(prompts[j])] = "none"
      BY <3>2, ZenonT(40) DEF AskedOnce
    <3> QED
      BY <1>3, <3>1, <3>3, Zenon
  <2>2. ASSUME UNCHANGED answer PROVE answer'[c] = "reject"
    BY <1>3, <2>2, Zenon
  <2>3. ASSUME NEW j \in Invites, Serve(j) PROVE UNCHANGED answer
    BY <2>3, ZenonT(40) DEF Serve, InsertEntry, EndpointUp, EndpointFails, TakeOutcome, TakeDecide,
        Deadline, Flush, CloseEndpoint, Finish, Leave
  <2>4. ASSUME NEW d \in Conns, Accept(d) \/ Handle(d) PROVE UNCHANGED answer
    BY <2>4, ZenonT(40) DEF Accept, Handle, TakeIncoming, DelayOver, Handshake, RefuseBusy, HelloFails,
        HelloNameTaken, HelloOk, Listen, ReadDecision, ClientLeft, PromptTimeout, Denied,
        RecordOk, RecordFails, SendOutcome, Release
  <2>5. ASSUME Environment PROVE answer'[c] = "reject"
    BY <2>1, <2>2, <2>5, ZenonT(40) DEF Environment, Dial, Vanish, CheckCreate, DeadlinePasses,
        IpcClose, Rm, Rival
  <2>6. answer'[c] = "reject"
    BY <2>2, <2>3, <2>4, <2>5, ZenonT(40) DEF Next, vars
  <2> QED
    BY <1>1, <2>6, Zenon DEF TurnedDown
<1> QED
  BY <1>1, <1>2, <1>3, Zenon

\* A deadline that has passed stays passed.
LEMMA ExpiredStays ==
    ASSUME [Next]_vars
    PROVE  expired \subseteq expired'
<1>1. ASSUME NEW i \in Invites, Serve(i) PROVE UNCHANGED expired
  BY <1>1, ZenonT(40) DEF Serve, InsertEntry, EndpointUp, EndpointFails, TakeOutcome, TakeDecide,
      Deadline, Flush, CloseEndpoint, Finish, Leave
<1>2. ASSUME NEW c \in Conns, Accept(c) \/ Handle(c) PROVE UNCHANGED expired
  BY <1>2, ZenonT(40) DEF Accept, Handle, TakeIncoming, DelayOver, Handshake, RefuseBusy, HelloFails,
      HelloNameTaken, HelloOk, Listen, ReadDecision, ClientLeft, PromptTimeout, Denied,
      RecordOk, RecordFails, SendOutcome, Release
<1>3. CASE Environment
  BY <1>3, ZenonT(40) DEF Environment, Dial, Vanish, CheckCreate, DeadlinePasses, IpcClose, Answer,
      Rm, Rival
<1> QED
  BY <1>1, <1>2, <1>3, ZenonT(40) DEF Next, vars

\* An endpoint that is gone is not dialled.
LEMMA UndialledStays ==
    ASSUME TypeOK, [Next]_vars, NEW i \in Invites, phase[i] \in {"leaving", "done"},
           Undialled(pc, i)
    PROVE  Undialled(pc', i)
<1>0. pc \in [Conns -> Points]
  BY Zenon DEF TypeOK
<1> SUFFICES ASSUME NEW c \in Conns, DialsTo[c] = i PROVE pc'[c] = "idle"
  BY Zenon DEF Undialled
<1>1. pc[c] = "idle"
  BY Zenon DEF Undialled
<1>2. ASSUME NEW d \in Conns, NEW point, Goto(d, point), pc[d] # "idle" PROVE pc'[c] = "idle"
  BY <1>0, <1>1, <1>2, Zenon DEF Goto
<1>3. ASSUME UNCHANGED pc PROVE pc'[c] = "idle"
  BY <1>1, <1>3, Zenon
<1>4. ASSUME NEW j \in Invites, Serve(j) PROVE pc'[c] = "idle"
  <2>1. CASE CloseEndpoint(j)
    BY <1>1, <2>1, ZenonT(40) DEF CloseEndpoint
  <2> QED
    BY <1>3, <1>4, <2>1, ZenonT(40) DEF Serve, InsertEntry, EndpointUp, EndpointFails, TakeOutcome,
        TakeDecide, Deadline, Flush, Finish, Leave
<1>5. ASSUME NEW d \in Conns, Accept(d) PROVE pc'[c] = "idle"
  <2>1. pc[d] # "idle"
    BY <1>5, ZenonT(40) DEF Accept, TakeIncoming, DelayOver, Handshake
  <2> QED
    BY <1>2, <1>3, <1>5, <2>1, ZenonT(40) DEF Accept, TakeIncoming, DelayOver, Handshake
<1>6. ASSUME NEW d \in Conns, Handle(d) PROVE pc'[c] = "idle"
  <2>1. pc[d] # "idle"
    BY <1>6, ZenonT(40) DEF Handle, RefuseBusy, HelloFails, HelloNameTaken, HelloOk, Listen,
        ReadDecision, ClientLeft, PromptTimeout, Denied, RecordOk, RecordFails, SendOutcome, Release
  <2>2. \E point : Goto(d, point)
    BY <1>6, ZenonT(40) DEF Handle, RefuseBusy, HelloFails, HelloNameTaken, HelloOk, Listen,
        ReadDecision, ClientLeft, PromptTimeout, Denied, RecordOk, RecordFails, SendOutcome, Release
  <2> QED
    BY <1>2, <2>1, <2>2, Zenon
<1>7. CASE Environment
  <2>1. ASSUME NEW d \in Conns, Dial(d) PROVE pc'[c] = "idle"
    <3>1. c # d
      BY <2>1 DEF Dial, Listening
    <3> QED
      BY <1>0, <1>1, <2>1, <3>1, Zenon DEF Dial, Goto
  <2> QED
    BY <1>3, <1>7, <2>1, ZenonT(40) DEF Environment, Vanish, CheckCreate, DeadlinePasses, IpcClose,
        Answer, Rm, Rival
<1> QED
  BY <1>3, <1>4, <1>5, <1>6, <1>7, ZenonT(40) DEF Next, vars

\* Every outcome is sent, and every reply given, with its cause.
LEMMA CauseStep ==
    ASSUME TypeOK, QuietBefore, AskedOnce, DecisionsAreAnswers, FailedIsOver, RepliesAtTheEnd,
           OutcomesHaveCause, [Next]_vars
    PROVE  OutcomesHaveCause'
<1>0. /\ DialsTo \in [Conns -> Invites] /\ phase \in [Invites -> Phases]
      /\ outcomes \in [Invites -> Seq(Outcome)]
      /\ outcome \in [Invites -> Outcome]
      /\ result \in [Invites -> Result]
      /\ cmds \in [Invites -> Seq(Decisions)]
  BY InviteAssumption, Zenon DEF TypeOK
<1> DEFINE After(i, o) == Caused(answer', verdict', expired', i, o)
           Over == {"ending", "flushing", "closing"}
           Reply(i, r) == \/ r = Nothing \/ r.kind = "error" \/ After(i, r)
                          \/ r = Expired /\ Undialled(pc', i)
<1>t. \A i \in Invites : TurnedDown(answer, verdict, i) => TurnedDown(answer', verdict', i)
  BY TurnedDownStays, Zenon
<1>k. \A i \in Invites : \A o : Caused(answer, verdict, expired, i, o) => After(i, o)
  BY <1>t, ExpiredStays, Zenon DEF Caused
<1>r. \A i \in Invites : Reply(i, result[i])
  <2> SUFFICES ASSUME NEW i \in Invites PROVE Reply(i, result[i])
    OBVIOUS
  <2>1. CASE result[i] = Expired /\ Undialled(pc, i)
    <3>1. Expired # Nothing
      BY Zenon DEF Expired, Nothing
    <3>2. phase[i] \in {"leaving", "done"}
      BY <2>1, <3>1, Zenon DEF RepliesAtTheEnd
    <3> QED
      BY <2>1, <3>2, UndialledStays, Zenon
  <2> QED
    BY <1>k, <2>1, Zenon DEF OutcomesHaveCause
<1>q. \A i \in Invites : \A j \in DOMAIN outcomes[i] : After(i, outcomes[i][j])
  BY <1>k, Zenon DEF OutcomesHaveCause
<1>o. \A i \in Invites : phase[i] \in Over => After(i, outcome[i])
  BY <1>k, Zenon DEF OutcomesHaveCause
<1> HIDE DEF After, Reply, Over
<1>g. ASSUME \A i \in Invites : \A j \in DOMAIN outcomes'[i] : After(i, outcomes'[i][j]),
             \A i \in Invites : phase'[i] \in Over => After(i, outcome'[i]),
             \A i \in Invites : Reply(i, result'[i])
      PROVE  OutcomesHaveCause'
  BY <1>g, ZenonT(40) DEF OutcomesHaveCause, After, Reply, Over
<1>u. ASSUME UNCHANGED <<outcomes, outcome, result>>,
             \A i \in Invites : phase'[i] \in Over => phase[i] \in Over
      PROVE  OutcomesHaveCause'
  BY <1>g, <1>q, <1>o, <1>r, <1>u, ZenonT(40)
<1>p. ASSUME UNCHANGED <<outcomes, outcome, result>>, NEW i \in Invites, NEW x,
             phase' = [phase EXCEPT ![i] = x], x \in Over => phase[i] \in Over
      PROVE  OutcomesHaveCause'
  BY <1>0, <1>u, <1>p, ZenonT(40)
<1>b. ASSUME NEW i \in Invites, NEW o, Break(i, o), After(i, o), UNCHANGED result,
             \A j \in Invites : \A n \in DOMAIN outcomes'[j] : After(j, outcomes'[j][n])
      PROVE  OutcomesHaveCause'
  <2>1. \A j \in Invites : phase'[j] \in Over => After(j, outcome'[j])
    BY <1>0, <1>b, <1>o, ZenonT(40) DEF Break
  <2> QED
    BY <1>g, <1>b, <1>r, <2>1, ZenonT(40)
<1>f. ASSUME NEW i \in Invites, NEW r, finish(i, r), Reply(i, r), UNCHANGED <<outcomes, outcome>>
      PROVE  OutcomesHaveCause'
  <2>1. \A j \in Invites : phase'[j] \in Over => phase[j] \in Over
    BY <1>0, <1>f, SMTT(30) DEF finish, Over
  <2>2. \A j \in Invites : result'[j] = result[j] \/ (j = i /\ result'[j] = r)
    BY <1>0, <1>f, ZenonT(40) DEF finish
  <2>3. \A j \in Invites : Reply(j, result'[j])
    BY <1>f, <1>r, <2>2, ZenonT(40)
  <2> QED
    BY <1>g, <1>f, <1>q, <1>o, <2>1, <2>3, ZenonT(40)
<1>1. ASSUME NEW i \in Invites, Serve(i) PROVE OutcomesHaveCause'
  <2>1. CASE InsertEntry(i) \/ EndpointUp(i) \/ Flush(i) \/ CloseEndpoint(i) \/ Leave(i)
    <3>1. PICK x : phase' = [phase EXCEPT ![i] = x] /\ (x \in Over => phase[i] \in Over)
      BY <2>1, ZenonT(40) DEF InsertEntry, EndpointUp, Flush, CloseEndpoint, Leave, Over
    <3>2. UNCHANGED <<outcomes, outcome, result>>
      BY <2>1, ZenonT(40) DEF InsertEntry, EndpointUp, Flush, CloseEndpoint, Leave
    <3> QED
      BY <1>p, <3>1, <3>2, Zenon
  <2>2. CASE EndpointFails(i)
    <3>1. finish(i, Expired) /\ UNCHANGED <<outcomes, outcome, pc>> /\ phase[i] = "binding"
      BY <2>2, Zenon DEF EndpointFails
    <3>2. Undialled(pc', i)
      BY <3>1, Zenon DEF Undialled, QuietBefore, Early
    <3> QED
      BY <1>f, <3>1, <3>2, Zenon DEF Reply
  <2>3. CASE TakeOutcome(i)
    <3>1. outcomes[i] # << >> /\ UNCHANGED result /\ Break(i, Head(outcomes[i]))
          /\ outcomes' = [outcomes EXCEPT ![i] = Tail(@)]
      BY <2>3, Zenon DEF TakeOutcome
    <3>2. outcomes[i] \in Seq(Outcome)
      BY <1>0, Zenon
    <3>3. Head(outcomes[i]) = outcomes[i][1] /\ 1 \in DOMAIN outcomes[i]
      BY <3>1, <3>2
    <3>4. \A n \in DOMAIN Tail(outcomes[i]) :
            n + 1 \in DOMAIN outcomes[i] /\ Tail(outcomes[i])[n] = outcomes[i][n + 1]
      BY <3>1, <3>2, SMTT(30)
    <3>5. \A n \in DOMAIN Tail(outcomes[i]) : After(i, Tail(outcomes[i])[n])
      BY <1>q, <3>4, Zenon
    <3>6. \A j \in Invites : \A n \in DOMAIN outcomes'[j] : After(j, outcomes'[j][n])
      BY <1>0, <1>q, <3>1, <3>5, ZenonT(40)
    <3>7. After(i, Head(outcomes[i]))
      BY <1>q, <3>3, Zenon
    <3> QED
      BY <1>b, <3>1, <3>6, <3>7, Zenon
  <2>4. CASE TakeDecide(i)
    <3>1. /\ UNCHANGED <<outcomes, result, answer, verdict>> /\ cmds[i] # << >>
          /\ UNCHANGED <<phase, outcome>> \/ (Head(cmds[i]) = "reject" /\ Break(i, Rejected))
      BY <2>4, ZenonT(40) DEF TakeDecide
    <3>2. CASE UNCHANGED <<phase, outcome>>
      BY <1>u, <3>1, <3>2, ZenonT(40)
    <3>3. CASE Head(cmds[i]) = "reject" /\ Break(i, Rejected)
      <4>1. cmds[i] \in Seq(Decisions)
        BY <1>0, Zenon
      <4>2. Head(cmds[i]) = cmds[i][1] /\ 1 \in DOMAIN cmds[i]
        BY <3>1, <4>1
      <4>3. Answered(answer, i, "reject")
        BY <3>3, <4>2, Zenon DEF DecisionsAreAnswers
      <4>4. After(i, Rejected)
        BY <3>1, <4>3, ZenonT(40) DEF After, Caused, TurnedDown, Answered
      <4> QED
        BY <1>b, <1>q, <3>1, <3>3, <4>4, ZenonT(40)
    <3> QED
      BY <3>1, <3>2, <3>3, Zenon
  <2>5. CASE Deadline(i)
    <3>1. Break(i, Expired) /\ UNCHANGED <<outcomes, result, expired>> /\ i \in expired
      BY <2>5, Zenon DEF Deadline
    <3>2. After(i, Expired)
      BY <3>1, Zenon DEF After, Caused
    <3> QED
      BY <1>b, <1>q, <3>1, <3>2, ZenonT(40)
  <2>6. CASE Finish(i)
    <3>1. finish(i, outcome[i]) /\ UNCHANGED <<outcomes, outcome>> /\ phase[i] = "closing"
      BY <2>6, Zenon DEF Finish
    <3>2. Reply(i, outcome[i])
      BY <1>o, <3>1, Zenon DEF Reply, Over
    <3> QED
      BY <1>f, <3>1, <3>2, Zenon
  <2> QED
    BY <1>1, <2>1, <2>2, <2>3, <2>4, <2>5, <2>6, ZenonT(40) DEF Serve
<1>2. ASSUME NEW c \in Conns, Accept(c) PROVE OutcomesHaveCause'
  <2>1. CASE DelayOver(c)
    <3>1. /\ UNCHANGED <<outcomes, result, expired>>
          /\ \/ Break(DialsTo[c], Expired) /\ DialsTo[c] \in expired
             \/ phase' = [phase EXCEPT ![DialsTo[c]] = "handshaking"] /\ UNCHANGED outcome
      BY <2>1, ZenonT(40) DEF DelayOver
    <3>2. CASE Break(DialsTo[c], Expired) /\ DialsTo[c] \in expired
      <4>1. After(DialsTo[c], Expired)
        BY <3>1, <3>2, Zenon DEF After, Caused
      <4> QED
        BY <1>0, <1>b, <1>q, <3>1, <3>2, <4>1, ZenonT(40)
    <3>3. CASE phase' = [phase EXCEPT ![DialsTo[c]] = "handshaking"] /\ UNCHANGED outcome
      <4>1. "handshaking" \notin Over
        BY Zenon DEF Over
      <4> QED
        BY <1>0, <1>p, <3>1, <3>3, <4>1, ZenonT(40)
    <3> QED
      BY <3>1, <3>2, <3>3, Zenon
  <2>2. CASE TakeIncoming(c) \/ Handshake(c)
    <3>1. UNCHANGED <<outcomes, outcome, result>> /\ DialsTo[c] \in Invites
      BY <1>0, <2>2, ZenonT(40) DEF TakeIncoming, Handshake
    <3>2. PICK x \in {"delaying", "serving"} : phase' = [phase EXCEPT ![DialsTo[c]] = x]
      BY <2>2, ZenonT(40) DEF TakeIncoming, Handshake
    <3>3. x \notin Over
      BY Zenon DEF Over
    <3> QED
      BY <1>p, <3>1, <3>2, <3>3, ZenonT(40)
  <2> QED
    BY <1>2, <2>1, <2>2, Zenon DEF Accept
<1>3. ASSUME NEW c \in Conns, Handle(c) PROVE OutcomesHaveCause'
  <2>1. CASE SendOutcome(c)
    <3>1. /\ UNCHANGED <<phase, outcome, result, verdict>> /\ DialsTo[c] \in Invites
          /\ pc[c] \in {"confirming", "failing"}
      BY <1>0, <2>1, Zenon DEF SendOutcome
    <3>2. PICK o : /\ outcomes' = [outcomes EXCEPT ![DialsTo[c]] = Append(@, o)]
                   /\ o = IF pc[c] = "confirming" THEN Paired(c) ELSE Rejected
      BY <2>1, Zenon DEF SendOutcome
    <3>3. After(DialsTo[c], o)
      <4>1. CASE pc[c] = "confirming"
        BY <3>2, <4>1, Zenon DEF Paired, After, Caused
      <4>2. CASE pc[c] = "failing"
        <5>1. o = Rejected /\ verdict'[c] = "server_error"
          BY <3>1, <3>2, <4>2, Zenon DEF FailedIsOver
        <5> QED
          BY <5>1, ZenonT(40) DEF After, Caused, TurnedDown
      <4> QED
        BY <3>1, <4>1, <4>2, Zenon
    <3>4. o \in Outcome
      BY <3>2, Zenon DEF Paired, Rejected, Outcome
    <3>5. \A j \in Invites : \A n \in DOMAIN outcomes'[j] :
             \/ n \in DOMAIN outcomes[j] /\ outcomes'[j][n] = outcomes[j][n]
             \/ j = DialsTo[c] /\ outcomes'[j][n] = o
      BY <1>0, <3>1, <3>2, <3>4, SMTT(30)
    <3>6. \A j \in Invites : \A n \in DOMAIN outcomes'[j] : After(j, outcomes'[j][n])
      BY <1>q, <3>3, <3>5, ZenonT(40)
    <3> QED
      BY <1>g, <1>o, <1>r, <3>1, <3>6, ZenonT(40)
  <2> QED
    BY <1>3, <1>u, <2>1, ZenonT(40) DEF Handle, RefuseBusy, HelloFails, HelloNameTaken, HelloOk, Listen,
        ReadDecision, ClientLeft, PromptTimeout, Denied, RecordOk, RecordFails, Release
<1>4. CASE Environment
  <2>1. ASSUME NEW i \in Invites, CheckCreate(i) PROVE OutcomesHaveCause'
    <3>1. UNCHANGED <<outcomes, outcome>>
      BY <2>1, Zenon DEF CheckCreate
    <3>2. CASE UNCHANGED result /\ phase' = [phase EXCEPT ![i] = "checked"]
      <4>1. "checked" \notin Over
        BY Zenon DEF Over
      <4> QED
        BY <1>p, <3>1, <3>2, <4>1, ZenonT(40)
    <3>3. ASSUME NEW err, RefuseCreate(i, err) PROVE OutcomesHaveCause'
      <4> DEFINE r == [kind |-> "error", code |-> error_code(err)]
      <4>1. Reply(i, r)
        BY Zenon DEF Reply
      <4>2. phase' = [phase EXCEPT ![i] = "done"] /\ result' = [result EXCEPT ![i] = r]
        BY <3>3, Zenon DEF RefuseCreate
      <4> HIDE DEF r
      <4>3. \A j \in Invites : phase'[j] \in Over => phase[j] \in Over
        BY <1>0, <4>2, SMTT(30) DEF Over
      <4>4. \A j \in Invites : Reply(j, result'[j])
        BY <1>0, <1>r, <4>1, <4>2, ZenonT(40)
      <4> QED
        BY <1>g, <1>q, <1>o, <3>1, <4>3, <4>4, ZenonT(40)
    <3> QED
      BY <2>1, <3>2, <3>3, Zenon DEF CheckCreate
  <2> QED
    BY <1>4, <1>u, <2>1, ZenonT(40) DEF Environment, Dial, Vanish, DeadlinePasses, IpcClose, Answer, Rm,
        Rival
<1>5. CASE UNCHANGED vars
  BY <1>5, <1>u, ZenonT(40) DEF vars
<1> QED
  BY <1>1, <1>2, <1>3, <1>4, <1>5, ZenonT(40) DEF Next

-----------------------------------------------------------------------------
(***************************************************************************)
(* Every step keeps every variable of invite.rs in its type and the peer   *)
(* table sound.                                                            *)
(***************************************************************************)
SInv == TypeOK /\ Sound(table)

\* The initial state of the invite manager is well typed.
LEMMA TypeInit == Init => SInv
<1> SUFFICES ASSUME Init PROVE SInv
  BY Zenon
<1>1. Sound(table)
  BY EmptyTableSound, Zenon DEF Init
<1>2. Nothing \in Outcome
  BY DEF Nothing, Outcome
<1> QED
  BY <1>1, <1>2, InviteAssumption
  DEF SInv, TypeOK, Init, Sound, Result, Phases, Points, Verdicts

\* Only add_peer, of a handler or a rival's, and the admin's peer.rm touch the
\* peer table, and all leave it sound.
LEMMA SoundStep == SInv /\ [Next]_vars => Sound(table)'
<1> SUFFICES ASSUME SInv, [Next]_vars PROVE Sound(table')
  BY Zenon
<1>0. Sound(table) /\ DialsTo \in [Conns -> Invites] /\ NodeOf \in [Conns -> Nodes]
  BY InviteAssumption DEF SInv
<1>1. ASSUME NEW c \in Conns, RecordOk(c) \/ RecordFails(c) PROVE Sound(table')
  <2>1. NameOf[DialsTo[c]] \in Names /\ NodeOf[c] \in Nodes
    BY <1>0, InviteAssumption, Zenon
  <2>2. Sound(add_peer(table, NameOf[DialsTo[c]], NodeOf[c]).table)
    BY <1>0, <2>1, AddPeerSound
  <2> QED
    BY <1>0, <1>1, <2>2, Zenon DEF RecordOk, RecordFails
<1>2. ASSUME NEW n \in Names, Rm(n) PROVE Sound(table')
  BY <1>0, <1>2, RemovePeerSound, Zenon DEF Rm
<1>3. ASSUME NEW n \in Names, NEW d \in Nodes, Rival(n, d) PROVE Sound(table')
  BY <1>0, <1>3, AddPeerSound DEF Rival
<1>4. CASE UNCHANGED table
  BY <1>0, <1>4, Zenon
<1> QED
  <2>1. ASSUME NEW i \in Invites, Serve(i) PROVE UNCHANGED table
    BY <2>1, ZenonT(40) DEF Serve, InsertEntry, EndpointUp, EndpointFails, TakeOutcome, TakeDecide,
                Deadline, Flush, CloseEndpoint, Finish, Leave
  <2>2. ASSUME NEW c \in Conns, Accept(c) PROVE UNCHANGED table
    BY <2>2, Zenon DEF Accept, TakeIncoming, DelayOver, Handshake
  <2>3. ASSUME NEW c \in Conns, Handle(c) PROVE RecordOk(c) \/ RecordFails(c) \/ UNCHANGED table
    BY <2>3, Zenon DEF Handle, RefuseBusy, HelloFails, HelloNameTaken, HelloOk, Listen, ReadDecision,
                ClientLeft, PromptTimeout, Denied, SendOutcome, Release
  <2>4. CASE Environment
    BY <1>2, <1>3, <1>4, <2>4, Zenon DEF Environment, Dial, Vanish, CheckCreate, DeadlinePasses, IpcClose, Answer
  <2> QED
    BY <1>1, <1>4, <2>1, <2>2, <2>3, <2>4, ZenonT(40) DEF Next, vars

\* Every step keeps every variable in its type.
LEMMA TypeStep == SInv /\ [Next]_vars => TypeOK'
<1> SUFFICES ASSUME SInv, [Next]_vars PROVE TypeOK'
  BY Zenon
<1> USE InviteAssumption DEF TypeOK, SInv
<1>1. ASSUME NEW i \in Invites, Serve(i) PROVE TypeOK'
  <2>1. CASE InsertEntry(i)
    BY <2>1, Zenon DEF InsertEntry, Phases
  <2>2. CASE EndpointUp(i)
    BY <2>2, Zenon DEF EndpointUp, Phases
  <2>3. CASE EndpointFails(i)
    BY <2>3, Zenon DEF EndpointFails, finish, Expired, Phases, Result, Outcome
  <2>4. CASE TakeOutcome(i)
    <3>1. Head(outcomes[i]) \in Outcome /\ Tail(outcomes[i]) \in Seq(Outcome)
      BY <2>4 DEF TakeOutcome
    <3> QED
      BY <2>4, <3>1, Zenon DEF TakeOutcome, Break, Phases
  <2>5. CASE TakeDecide(i)
    <3>1. Head(cmds[i]) \in Decisions /\ Tail(cmds[i]) \in Seq(Decisions)
      BY <2>5 DEF TakeDecide
    <3>2. CASE UNCHANGED <<phase, outcome>>
      BY <2>5, <3>1, <3>2, Zenon DEF TakeDecide, NotifyWaiters
    <3>3. CASE Break(i, Rejected)
      BY <2>5, <3>1, <3>3, Zenon DEF TakeDecide, NotifyWaiters, Break, Rejected, Outcome, Phases
    <3> QED
      BY <2>5, <3>2, <3>3, ZenonT(40) DEF TakeDecide
  <2>6. CASE Deadline(i)
    BY <2>6, Zenon DEF Deadline, Break, Expired, Phases, Outcome
  <2>7. CASE Flush(i)
    BY <2>7, ZenonT(40) DEF Flush, NotifyWaiters, Rejected, Expired, Phases
  <2>8. CASE CloseEndpoint(i)
    BY <2>8 DEF CloseEndpoint, Rejected, Expired, Phases, Points
  <2>9. CASE Finish(i)
    BY <2>9, Zenon DEF Finish, finish, Phases, Result
  <2>10. CASE Leave(i)
    BY <2>10, Zenon DEF Leave, Phases, Result
  <2> QED
    BY <1>1, <2>1, <2>2, <2>3, <2>4, <2>5, <2>6, <2>7, <2>8, <2>9, <2>10, ZenonT(40) DEF Serve
<1>2. ASSUME NEW c \in Conns, Accept(c) PROVE TypeOK'
  <2>1. CASE TakeIncoming(c)
    BY <2>1, Zenon DEF TakeIncoming, Goto, Phases, Points
  <2>2. CASE DelayOver(c)
    <3>1. DialsTo[c] \in Invites
      BY Zenon
    <3>2. CASE DialsTo[c] \in expired
      <4>1. Break(DialsTo[c], Expired) /\ Goto(c, "done") /\ gone' = gone \cup {c}
        BY <2>2, <3>2, Zenon DEF DelayOver
      <4>2. phase' \in [Invites -> Phases] /\ pc' \in [Conns -> Points]
        BY <4>1, Zenon DEF Break, Goto, Phases, Points
      <4>3. outcome' \in [Invites -> Outcome]
        BY <4>1, ZenonT(40) DEF Break, Expired, Outcome
      <4> QED
        BY <2>2, <4>1, <4>2, <4>3, Zenon DEF DelayOver
    <3>3. CASE DialsTo[c] \notin expired
      <4>1. phase' \in [Invites -> Phases] /\ UNCHANGED <<outcome, pc, gone>>
        BY <2>2, <3>1, <3>3, Zenon DEF DelayOver, Phases
      <4> QED
        BY <2>2, <4>1 DEF DelayOver
    <3> QED
      BY <3>2, <3>3, Zenon
  <2>3. CASE Handshake(c)
    <3>0. DialsTo[c] \in Invites /\ delay[DialsTo[c]] \in 0 .. MaxDelay
      OBVIOUS
    <3>1. delay' \in [Invites -> 0 .. MaxDelay]
      <4>1. Escalated(delay[DialsTo[c]]) \in 0 .. MaxDelay /\ 0 \in 0 .. MaxDelay
        BY <3>0 DEF Escalated
      <4>2. Escalate(DialsTo[c]) \/ Reset(DialsTo[c])
        BY <2>3, Zenon DEF Handshake
      <4> QED
        BY <4>1, <4>2, ZenonT(40) DEF Escalate, Reset
    <3>2. pc' \in [Conns -> Points]
      <4>1. Goto(c, "done") \/ Goto(c, "hello") \/ Goto(c, "busy")
        BY <2>3, Zenon DEF Handshake
      <4> QED
        BY <4>1, Zenon DEF Goto, Points, Handling
    <3>3. busy' \subseteq Invites
      BY <2>3, <3>0, Zenon DEF Handshake
    <3> QED
      BY <2>3, <3>1, <3>2, <3>3, ZenonT(40) DEF Handshake, Phases
  <2> QED
    BY <1>2, <2>1, <2>2, <2>3, Zenon DEF Accept
<1>3. ASSUME NEW c \in Conns, Handle(c) PROVE TypeOK'
  <2>1. CASE RefuseBusy(c)
    BY <2>1, ZenonT(40) DEF RefuseBusy, Goto, Points, Verdicts
  <2>2. CASE HelloFails(c)
    BY <2>2, SMTT(30) DEF HelloFails, Escalate, Escalated, Goto, Points, Handling
  <2>3. CASE HelloNameTaken(c)
    BY <2>3, SMTT(30) DEF HelloNameTaken, Escalate, Escalated, Goto, Points, Handling, Verdicts
  <2>4. CASE HelloOk(c)
    BY <2>4, SMTT(30) DEF HelloOk, Goto, Points, Handling, Verdicts
  <2>5. CASE Listen(c)
    BY <2>5, Zenon DEF Listen, Goto, Points, Handling
  <2>6. CASE ReadDecision(c)
    <3>1. pc' \in [Conns -> Points]
      BY <2>6, ZenonT(40) DEF ReadDecision, Goto, Points, Handling
    <3>2. verdict' \in [Conns -> Verdicts]
      BY <2>6, Zenon DEF ReadDecision, Verdicts
    <3> QED
      BY <2>6, <3>1, <3>2, Zenon DEF ReadDecision
  <2>7. CASE ClientLeft(c)
    BY <2>7, Zenon DEF ClientLeft, Goto, Points, Handling
  <2>8. CASE PromptTimeout(c)
    BY <2>8, Zenon DEF PromptTimeout, Goto, Points, Handling, Verdicts
  <2>9. CASE Denied(c)
    <3>1. delay' \in [Invites -> 0 .. MaxDelay]
      <4>1. delay \in [Invites -> 0 .. MaxDelay] /\ DialsTo[c] \in Invites
        BY Zenon
      <4>2. Escalated(delay[DialsTo[c]]) \in 0 .. MaxDelay
        BY <4>1, InviteAssumption DEF Escalated
      <4> QED
        BY <2>9, <4>1, <4>2, ZenonT(40) DEF Denied, Escalate
    <3> QED
      BY <2>9, <3>1, Zenon DEF Denied, Goto, Points, Handling
  <2>10. CASE RecordOk(c)
    <3>1. delay' \in [Invites -> 0 .. MaxDelay]
      <4>1. 0 \in 0 .. MaxDelay
        OBVIOUS
      <4> QED
        BY <2>10, <4>1, ZenonT(40) DEF RecordOk, Reset
    <3>2. table' \in Table
      <4>1. NameOf[DialsTo[c]] \in Names /\ NodeOf[c] \in Nodes
        BY Zenon
      <4> QED
        BY <2>10, <4>1, AddPeerSound, Zenon DEF RecordOk, Sound
    <3>3. verdict' \in [Conns -> Verdicts]
      BY <2>10, Zenon DEF RecordOk, Verdicts
    <3>4. pc' \in [Conns -> Points]
      BY <2>10, ZenonT(40) DEF RecordOk, Goto, Points, Handling
    <3>5. recorded' \subseteq Invites
      BY <2>10 DEF RecordOk
    <3> QED
      BY <2>10, <3>1, <3>2, <3>3, <3>4, <3>5, Zenon DEF RecordOk
  <2>11. CASE RecordFails(c)
    BY <2>11, AddPeerSound, Zenon DEF RecordFails, Goto, Points, Handling, Verdicts, Sound
  <2>12. CASE SendOutcome(c)
    <3>1. PICK o \in {Paired(c), Rejected} :
             outcomes' = [outcomes EXCEPT ![DialsTo[c]] = Append(outcomes[DialsTo[c]], o)]
      BY <2>12, Zenon DEF SendOutcome
    <3>2. o \in Outcome
      <4>1. Paired(c) \in Outcome
        BY Zenon DEF Paired, Outcome
      <4>2. Rejected \in Outcome
        BY Zenon DEF Rejected, Outcome
      <4> QED
        BY <4>1, <4>2, Zenon
    <3>3. outcomes \in [Invites -> Seq(Outcome)] /\ DialsTo[c] \in Invites
      BY Zenon
    <3>4. Append(outcomes[DialsTo[c]], o) \in Seq(Outcome)
      BY <3>2, <3>3
    <3>5. outcomes' \in [Invites -> Seq(Outcome)]
      BY <3>1, <3>3, <3>4, Zenon
    <3> QED
      BY <2>12, <3>5, ZenonT(40) DEF SendOutcome, Goto, Points, Handling
  <2>13. CASE Release(c)
    BY <2>13, Zenon DEF Release, Goto, Points, Handling
  <2> QED
    BY <1>3, <2>1, <2>2, <2>3, <2>4, <2>5, <2>6, <2>7, <2>8, <2>9, <2>10, <2>11, <2>12, <2>13, ZenonT(40) DEF Handle
<1>4. CASE Environment
  <2>1. ASSUME NEW c \in Conns, Dial(c) PROVE TypeOK'
    BY <2>1, Zenon DEF Dial, Goto, Points, Handling
  <2>2. ASSUME NEW c \in Conns, Vanish(c) PROVE TypeOK'
    BY <2>2, Zenon DEF Vanish
  <2>3. ASSUME NEW i \in Invites, CheckCreate(i) PROVE TypeOK'
    <3>1. CASE phase' = [phase EXCEPT ![i] = "checked"] /\ UNCHANGED result
      BY <2>3, <3>1, Zenon DEF CheckCreate, Phases
    <3>2. ASSUME NEW err, RefuseCreate(i, err) PROVE TypeOK'
      <4>1. [kind |-> "error", code |-> error_code(err)] \in Result
        BY DEF error_code, Result
      <4> QED
        BY <2>3, <3>2, <4>1, ZenonT(40) DEF CheckCreate, RefuseCreate, Phases
    <3> QED
      BY <2>3, <3>1, <3>2, Zenon DEF CheckCreate
  <2>4. ASSUME NEW i \in Invites, DeadlinePasses(i) PROVE TypeOK'
    BY <2>4, Zenon DEF DeadlinePasses
  <2>5. ASSUME NEW i \in Invites, IpcClose(i) PROVE TypeOK'
    BY <2>5, Zenon DEF IpcClose
  <2>6. ASSUME NEW i \in Invites, NEW d \in Decisions, Answer(i, d) PROVE TypeOK'
    <3>1. Head(prompts[i]) \in Conns /\ Tail(prompts[i]) \in Seq(Conns)
      BY <2>6 DEF Answer
    <3>2. prompts' \in [Invites -> Seq(Conns)] /\ answer' \in [Conns -> Decisions \cup {"none"}]
      BY <2>6, <3>1, Zenon DEF Answer
    <3>3. ipc' \subseteq Invites
      BY <2>6, Zenon DEF Answer
    <3>4. cmds' = [cmds EXCEPT ![i] = Append(@, d)] \/ UNCHANGED cmds
      BY <2>6, Zenon DEF Answer
    <3>5. Append(cmds[i], d) \in Seq(Decisions)
      OBVIOUS
    <3>6. cmds' \in [Invites -> Seq(Decisions)]
      BY <3>4, <3>5, ZenonT(40)
    <3> QED
      BY <2>6, <3>2, <3>3, <3>6, ZenonT(40) DEF Answer
  <2>7. ASSUME NEW n \in Names, Rm(n) PROVE TypeOK'
    BY <2>7, RemovePeerSound, Zenon DEF Rm, Sound
  <2>8. ASSUME NEW n \in Names, NEW d \in Nodes, Rival(n, d) PROVE TypeOK'
    BY <2>8, AddPeerSound, Zenon DEF Rival, Sound
  <2> QED
    BY <1>4, <2>1, <2>2, <2>3, <2>4, <2>5, <2>6, <2>7, <2>8, ZenonT(40) DEF Environment
<1>5. CASE UNCHANGED vars
  BY <1>5, Zenon DEF vars
<1> QED
  BY <1>1, <1>2, <1>3, <1>4, <1>5, ZenonT(40) DEF Next

-----------------------------------------------------------------------------
\* The inductive invariant.
IInv ==
    /\ SInv
    /\ SlotHeldByOneHandler
    /\ QuietBefore
    /\ NobodyPassesOutcome
    /\ NobodyAfterPeer
    /\ PeerEndsLoop
    /\ ConfirmedIsRecorded
    /\ OneConfirmed
    /\ PairedIsConfirmed
    /\ FailedIsOver
    /\ RepliesAtTheEnd
    /\ AskedOnce
    /\ DecisionsAreAnswers
    /\ OutcomesHaveCause

\* The invariant holds before any invite is created.
LEMMA IInvInit == Init => IInv
<1> SUFFICES ASSUME Init PROVE IInv
  OBVIOUS
<1>0. DialsTo \in [Conns -> Invites]
  BY InviteAssumption, Zenon
<1>1. SInv
  BY TypeInit
<1>2. SlotHeldByOneHandler /\ QuietBefore /\ NobodyPassesOutcome /\ NobodyAfterPeer /\ PeerEndsLoop
  BY <1>0, Zenon DEF Init, SlotHeldByOneHandler, QuietBefore, NobodyPassesOutcome, NobodyAfterPeer,
              PeerEndsLoop, Handling, Early, Open
<1>3. ConfirmedIsRecorded /\ OneConfirmed /\ FailedIsOver /\ RepliesAtTheEnd
  BY <1>0, ZenonT(40) DEF Init, ConfirmedIsRecorded, OneConfirmed, FailedIsOver, RepliesAtTheEnd
<1>4. PairedIsConfirmed /\ OutcomesHaveCause
  <2>1. \A i \in Invites : outcomes[i] = << >> /\ outcome[i] = Nothing /\ result[i] = Nothing
    BY Zenon DEF Init
  <2>2. DOMAIN << >> = {} /\ Nothing.kind # "paired"
    BY DEF Nothing
  <2>3. \A i \in Invites : phase[i] = "none"
    BY Zenon DEF Init
  <2> QED
    BY <2>1, <2>2, <2>3, Zenon DEF PairedIsConfirmed, Truthful, OutcomesHaveCause
<1>5. AskedOnce /\ DecisionsAreAnswers
  BY <1>0 DEF Init, AskedOnce, DecisionsAreAnswers, Unasked
<1> QED
  BY <1>1, <1>2, <1>3, <1>4, <1>5, Zenon DEF IInv

\* Every step of every task, client and admin keeps the invariant.
LEMMA IInvStep == IInv /\ [Next]_vars => IInv'
<1> SUFFICES ASSUME IInv, [Next]_vars PROVE IInv'
  OBVIOUS
<1>1. SInv'
  BY TypeStep, SoundStep, Zenon DEF IInv, SInv
<1>2. SlotHeldByOneHandler' /\ QuietBefore'
  BY SlotStep, QuietStep, Zenon DEF IInv, SInv
<1>3. NobodyPassesOutcome' /\ NobodyAfterPeer' /\ PeerEndsLoop'
  BY OutcomeStep, AfterPeerStep, PeerEndsStep, Zenon DEF IInv, SInv
<1>4. ConfirmedIsRecorded' /\ OneConfirmed' /\ PairedIsConfirmed'
  BY ConfirmedStep, OneConfirmedStep, PairedStep, Zenon DEF IInv, SInv
<1>5. RepliesAtTheEnd' /\ AskedOnce' /\ DecisionsAreAnswers'
  BY RepliesStep, AskedStep, AnsweredStep, Zenon DEF IInv, SInv
<1>6. FailedIsOver' /\ OutcomesHaveCause'
  BY FailedStep, CauseStep, Zenon DEF IInv, SInv
<1> QED
  BY <1>1, <1>2, <1>3, <1>4, <1>5, <1>6, Zenon DEF IInv

\* The invariant holds in every reachable state of the invite manager.
LEMMA AlwaysIInv == Spec => []IInv
  BY IInvInit, IInvStep, PTL DEF Spec

\* Every variable of the invite manager keeps its type.
THEOREM TypeCorrect == Spec => []TypeOK
<1>1. IInv => TypeOK
  BY DEF IInv, SInv
<1> QED
  BY <1>1, AlwaysIInv, PTL

\* The pair slot of an invite is taken exactly while one handler runs
\* (claim_pair_slot and release).
THEOREM OneHandlerPerInvite == Spec => []SlotHeldByOneHandler
<1>1. IInv => SlotHeldByOneHandler
  BY ZenonT(40) DEF IInv
<1> QED
  BY <1>1, AlwaysIInv, PTL

\* An invite registers at most one peer, and the branch of invite.rs:618 for
\* a second one is dead code.
THEOREM OnePeerPerInvite == Spec => []RecordsAtMostOnce
<1>1. IInv => RecordsAtMostOnce
  BY DEF IInv, RecordsAtMostOnce, NobodyAfterPeer, OneConfirmed
<1> QED
  BY <1>1, AlwaysIInv, PTL

\* A client is confirmed only if the admin accepted a client of its invite.
THEOREM ConfirmedAfterAccept == Spec => []ConfirmNeedsAccept
<1>1. IInv => ConfirmNeedsAccept
  BY Zenon DEF IInv, ConfirmNeedsAccept, DecisionsAreAnswers, Answered
<1> QED
  BY <1>1, AlwaysIInv, PTL

\* Every reply to peer.invite has its cause, a late outcome being dropped
\* included, and decide is told not_found only after the reply (invite_serve,
\* handle_pair_conn and finish).
THEOREM TruthfulReply == Spec => []ResultIsTruthful
<1>1. IInv => ResultIsTruthful
  <2> SUFFICES ASSUME IInv, NEW i \in Invites
               PROVE  /\ result[i].kind = "paired" => verdict[result[i].conn] = "confirm"
                      /\ result[i] = Rejected => TurnedDown(answer, verdict, i)
                      /\ result[i] = Expired => i \in expired \/ Undialled(pc, i)
                      /\ phase[i] \notin {"none", "checked"} /\ i \notin entries => result[i] # Nothing
    BY Zenon DEF ResultIsTruthful, TurnedDown, Undialled
  <2>1. result[i].kind = "paired" => verdict[result[i].conn] = "confirm"
    BY Zenon DEF IInv, PairedIsConfirmed, Truthful
  <2>2. \/ result[i] = Nothing \/ result[i].kind = "error"
        \/ Caused(answer, verdict, expired, i, result[i])
        \/ result[i] = Expired /\ Undialled(pc, i)
    BY Zenon DEF IInv, OutcomesHaveCause
  <2>3. /\ Rejected.kind = "rejected" /\ Expired.kind = "expired" /\ Nothing.kind = "none"
        /\ Rejected # Expired
    BY DEF Rejected, Expired, Nothing
  <2>4. result[i] = Rejected => TurnedDown(answer, verdict, i)
    BY <2>2, <2>3, ZenonT(40) DEF Caused
  <2>5. result[i] = Expired => i \in expired \/ Undialled(pc, i)
    BY <2>2, <2>3, ZenonT(40) DEF Caused
  <2>6. phase[i] \notin {"none", "checked"} /\ i \notin entries => result[i] # Nothing
    BY Zenon DEF IInv, RepliesAtTheEnd
  <2> QED
    BY <2>1, <2>4, <2>5, <2>6, Zenon
<1> QED
  BY <1>1, AlwaysIInv, PTL

\* finish and create alone reply, InsertEntry and Leave alone change the
\* entries.
LEMMA OneReply ==
    ASSUME IInv, [Next]_vars, NEW i \in Invites
    PROVE  /\ result[i] # Nothing => result'[i] = result[i]
           /\ i \in entries /\ i \notin entries' => result[i] # Nothing
           /\ result[i] # Nothing /\ i \notin entries => i \notin entries'
<1>0. /\ entries \subseteq Invites /\ DialsTo \in [Conns -> Invites]
      /\ result \in [Invites -> Result]
      /\ result[i] # Nothing <=> phase[i] \in {"leaving", "done"}
  BY InviteAssumption DEF IInv, SInv, TypeOK, RepliesAtTheEnd
<1> DEFINE G == /\ result[i] # Nothing => result'[i] = result[i]
                /\ i \in entries /\ i \notin entries' => result[i] # Nothing
                /\ result[i] # Nothing /\ i \notin entries => i \notin entries'
<1>1. ASSUME NEW j \in Invites, InsertEntry(j) PROVE G
  <2>1. UNCHANGED result /\ entries' = entries \cup {j} /\ phase[j] = "checked"
    BY <1>1, Zenon DEF InsertEntry
  <2>2. result[i] # Nothing => i # j
    BY <1>0, <2>1
  <2> QED
    BY <2>1, <2>2, Zenon
<1>2. ASSUME NEW j \in Invites, Leave(j) PROVE G
  <2>1. UNCHANGED result /\ entries' = entries \ {j} /\ phase[j] = "leaving"
    BY <1>2, Zenon DEF Leave
  <2> QED
    BY <1>0, <2>1, Zenon
<1>3. ASSUME NEW j \in Invites, EndpointFails(j) \/ Finish(j) PROVE G
  BY <1>0, <1>3, ZenonT(40) DEF EndpointFails, Finish, finish
<1>4. ASSUME NEW j \in Invites, CheckCreate(j) PROVE G
  <2>1. UNCHANGED entries /\ phase[j] = "none"
    BY <1>4, Zenon DEF CheckCreate
  <2>2. result[i] # Nothing => i # j
    BY <1>0, <2>1
  <2> QED
    BY <1>0, <1>4, <2>1, <2>2, ZenonT(40) DEF CheckCreate, RefuseCreate
<1>5. ASSUME UNCHANGED <<result, entries>> PROVE G
  BY <1>5, Zenon
<1> HIDE DEF G
<1>6. ASSUME NEW j \in Invites, Serve(j) PROVE G
  BY <1>1, <1>2, <1>3, <1>5, <1>6, ZenonT(40) DEF Serve, EndpointUp, TakeOutcome, TakeDecide, Deadline,
      Flush, CloseEndpoint
<1>7. ASSUME NEW c \in Conns, Accept(c) \/ Handle(c) PROVE UNCHANGED <<result, entries>>
  BY <1>7, ZenonT(40) DEF Accept, Handle, TakeIncoming, DelayOver, Handshake, RefuseBusy, HelloFails,
      HelloNameTaken, HelloOk, Listen, ReadDecision, ClientLeft, PromptTimeout, Denied,
      RecordOk, RecordFails, SendOutcome, Release
<1>8. ASSUME Environment PROVE G
  BY <1>4, <1>5, <1>8, ZenonT(40) DEF Environment, Dial, Vanish, DeadlinePasses, IpcClose, Answer, Rm,
      Rival
<1>9. ASSUME UNCHANGED vars PROVE G
  BY <1>5, <1>9, Zenon DEF vars
<1>10. G
  BY <1>5, <1>6, <1>7, <1>8, <1>9, ZenonT(40) DEF Next
<1> QED
  BY <1>10, Zenon DEF G

\* The reply to peer.invite never changes; an invite leaves the entries only
\* after it, and stays gone (finish).
THEOREM FinalReply == Spec => ResultIsFinal
<1>1. IInv /\ [Next]_vars =>
        [\A i \in Invites :
            /\ result[i] # Nothing => result'[i] = result[i]
            /\ i \in entries /\ i \notin entries' => result[i] # Nothing
            /\ result[i] # Nothing /\ i \notin entries => i \notin entries']_vars
  BY OneReply, Zenon
<1> QED
  BY <1>1, AlwaysIInv, PTL DEF Spec, ResultIsFinal

-----------------------------------------------------------------------------
(***************************************************************************)
(* Invite implements Pairing.                                              *)
(***************************************************************************)
\* A step that leaves the replies alone and confirms nobody is a stutter of
\* Pairing.
LEMMA SilentStep ==
    ASSUME UNCHANGED result,
           \A c \in Conns : verdict'[c] = "confirm" <=> verdict[c] = "confirm"
    PROVE  UNCHANGED Promise!vars
<1>1. Registered' = Registered
  BY Zenon DEF Registered
<1>2. \A i \in Invites : AnswerOf(result[i])' = AnswerOf(result[i])
  BY DEF AnswerOf
<1> QED
  BY <1>1, <1>2, Zenon DEF Promise!vars

\* RecordOk (add_peer succeeded under the lock on peer_recorded) registers
\* the first and only client of the invite.
LEMMA RecordRegisters ==
    ASSUME IInv, NEW c \in Conns, RecordOk(c)
    PROVE  Promise!Register(DialsTo[c], c)
<1>0. DialsTo \in [Conns -> Invites] /\ verdict \in [Conns -> Verdicts]
  BY InviteAssumption, Zenon DEF IInv, SInv, TypeOK
<1>1. UNCHANGED result /\ verdict' = [verdict EXCEPT ![c] = "confirm"] /\ DialsTo[c] \notin recorded
  BY Zenon DEF RecordOk
<1>2. \A d \in Conns : DialsTo[d] = DialsTo[c] => verdict[d] # "confirm"
  BY <1>1, Zenon DEF IInv, ConfirmedIsRecorded
<1>3. Registered[DialsTo[c]] = {}
  BY <1>0, <1>2 DEF Registered
<1>4. Registered' = [Registered EXCEPT ![DialsTo[c]] = {c}]
  BY <1>0, <1>1, <1>2, Zenon DEF Registered
<1>5. \A i \in Invites : AnswerOf(result[i])' = AnswerOf(result[i])
  BY <1>1, Zenon DEF AnswerOf
<1> QED
  BY <1>0, <1>3, <1>4, <1>5, Zenon DEF Promise!Register

\* A first reply that is truthful is an answer of Pairing.
LEMMA ReplyResolves ==
    ASSUME NEW i \in Invites, NEW r, DialsTo \in [Conns -> Invites],
           result \in [Invites -> Result], result[i] = Nothing,
           result' = [result EXCEPT ![i] = r], UNCHANGED verdict,
           Truthful(verdict, i, r)
    PROVE  [Promise!Next]_(Promise!vars)
<1>1. Registered' = Registered
  BY Zenon DEF Registered
<1>2. \A j \in Invites \ {i} : AnswerOf(result[j])' = AnswerOf(result[j])
  BY Zenon DEF AnswerOf
<1>3. AnswerOf(result[i]) = {} /\ AnswerOf(result[i])' = AnswerOf(r)
  BY Zenon DEF AnswerOf
<1>4. CASE r = Nothing
  <2>1. \A j \in Invites : AnswerOf(result[j])' = AnswerOf(result[j])
    BY <1>2, <1>3, <1>4, ZenonT(40)
  <2> QED
    BY <1>1, <2>1 DEF Promise!vars
<1>5. CASE r # Nothing
  <2>1. PICK a : AnswerOf(r) = {a} /\ a \in Promise!Answers /\ (a # "unpaired" => a \in Registered[i])
    BY <1>5, Zenon DEF AnswerOf, Truthful, Registered, Promise!Answers
  <2>2. [j \in Invites |-> AnswerOf(result[j])]'
          = [[j \in Invites |-> AnswerOf(result[j])] EXCEPT ![i] = {a}]
    BY <1>2, <1>3, <2>1, Zenon
  <2>3. Promise!Resolve(i, a)
    BY <1>1, <1>3, <2>1, <2>2, Zenon DEF Promise!Resolve
  <2> QED
    BY <2>1, <2>3 DEF Promise!Next
<1> QED
  BY <1>4, <1>5, Zenon

\* Every step of the daemon, its clients and its admin is a step of Pairing
\* or a stutter.
LEMMA StepImplements == IInv /\ [Next]_vars => [Promise!Next]_(Promise!vars)
<1> SUFFICES ASSUME IInv, [Next]_vars PROVE [Promise!Next]_(Promise!vars)
  BY Zenon
<1>0. /\ DialsTo \in [Conns -> Invites] /\ verdict \in [Conns -> Verdicts]
      /\ pc \in [Conns -> Points] /\ result \in [Invites -> Result]
  BY InviteAssumption, Zenon DEF IInv, SInv, TypeOK
<1>u. ASSUME UNCHANGED <<result, verdict>> PROVE [Promise!Next]_(Promise!vars)
  BY <1>u, SilentStep
<1>r. ASSUME NEW i \in Invites, NEW r, phase[i] \notin {"leaving", "done"}, UNCHANGED verdict,
             result' = [result EXCEPT ![i] = IF @ = Nothing THEN r ELSE @] \/ result' = [result EXCEPT ![i] = r],
             Truthful(verdict, i, r)
      PROVE  [Promise!Next]_(Promise!vars)
  <2>1. result[i] = Nothing
    BY <1>r, Zenon DEF IInv, RepliesAtTheEnd
  <2>2. result' = [result EXCEPT ![i] = r]
    BY <1>0, <1>r, <2>1, ZenonT(40)
  <2> QED
    BY <1>0, <1>r, <2>1, <2>2, ReplyResolves, ZenonT(40)
<1>1. ASSUME NEW i \in Invites, Serve(i) PROVE [Promise!Next]_(Promise!vars)
  <2>1. CASE EndpointFails(i)
    <3>1. Truthful(verdict, i, Expired)
      BY Zenon DEF Truthful, Expired
    <3> QED
      BY <2>1, <3>1, <1>r, Zenon DEF EndpointFails, finish
  <2>2. CASE Finish(i)
    <3>1. Truthful(verdict, i, outcome[i])
      BY DEF IInv, PairedIsConfirmed
    <3> QED
      BY <2>2, <3>1, <1>r, ZenonT(40) DEF Finish, finish
  <2> QED
    BY <1>1, <1>u, <2>1, <2>2, Zenon
    DEF Serve, InsertEntry, EndpointUp, TakeOutcome, TakeDecide, Deadline, Flush, CloseEndpoint, Leave
<1>2. ASSUME NEW c \in Conns, Accept(c) PROVE [Promise!Next]_(Promise!vars)
  BY <1>2, <1>u, Zenon DEF Accept, TakeIncoming, DelayOver, Handshake
<1>3. ASSUME NEW c \in Conns, Handle(c) PROVE [Promise!Next]_(Promise!vars)
  <2>1. CASE RecordOk(c)
    BY <1>0, <2>1, RecordRegisters, Zenon DEF Promise!Next
  <2>2. CASE \/ RefuseBusy(c) \/ HelloNameTaken(c) \/ HelloOk(c) \/ ReadDecision(c)
             \/ PromptTimeout(c) \/ RecordFails(c)
    <3>1. verdict[c] # "confirm"
      BY <2>2, Zenon DEF IInv, ConfirmedIsRecorded, RefuseBusy, HelloNameTaken, HelloOk, ReadDecision,
                  PromptTimeout, RecordFails
    <3>2. UNCHANGED result /\ \E v : v # "confirm" /\ verdict' = [verdict EXCEPT ![c] = v]
      BY <1>0, <2>2, <3>1, Zenon DEF RefuseBusy, HelloNameTaken, HelloOk, ReadDecision, PromptTimeout, RecordFails
    <3>3. \A d \in Conns : verdict'[d] = "confirm" <=> verdict[d] = "confirm"
      BY <1>0, <3>1, <3>2, Zenon
    <3> QED
      BY <3>2, <3>3, SilentStep, Zenon
  <2> QED
    BY <1>3, <1>u, <2>1, <2>2, Zenon
    DEF Handle, HelloFails, Listen, ClientLeft, Denied, SendOutcome, Release
<1>4. CASE Environment
  <2>1. ASSUME NEW i \in Invites, CheckCreate(i) PROVE [Promise!Next]_(Promise!vars)
    <3>1. ASSUME NEW err, RefuseCreate(i, err) PROVE [Promise!Next]_(Promise!vars)
      <4> DEFINE r == [kind |-> "error", code |-> error_code(err)]
      <4>1. Truthful(verdict, i, r)
        BY Zenon DEF Truthful
      <4>2. phase[i] = "none" /\ UNCHANGED verdict /\ result' = [result EXCEPT ![i] = r]
        BY <2>1, <3>1, ZenonT(40) DEF CheckCreate, RefuseCreate
      <4> HIDE DEF r
      <4> QED
        BY <4>1, <4>2, <1>r, Zenon
    <3> QED
      BY <2>1, <3>1, <1>u, Zenon DEF CheckCreate
  <2> QED
    BY <1>4, <1>u, <2>1, Zenon DEF Environment, Dial, Vanish, DeadlinePasses, IpcClose, Answer, Rm, Rival
<1>5. CASE UNCHANGED vars
  BY <1>5, <1>u DEF vars
<1> QED
  BY <1>1, <1>2, <1>3, <1>4, <1>5, Zenon DEF Next

\* The daemon keeps the promise of peer.invite: it registers at most one
\* client per invite, and answers once, naming only a client it registered.
THEOREM InviteKeepsPromise == Spec => KeepsPromise
<1>1. Init => Promise!Init
  BY DEF Init, Promise!Init, Registered, AnswerOf
<1>2. IInv /\ [Next]_vars => [Promise!Next]_(Promise!vars)
  BY StepImplements
<1> QED
  BY <1>1, <1>2, AlwaysIInv, PTL DEF Spec, KeepsPromise, Promise!Spec

-----------------------------------------------------------------------------
(***************************************************************************)
(* Who is in the peer table.                                               *)
(***************************************************************************)
\* Client d has client c's node and name, and its handler stored them: it was
\* confirmed, or the write of state.toml failed after the push.
StoredBy(v, c, d) ==
    /\ NodeOf[d] = NodeOf[c] /\ NameOf[DialsTo[d]] = NameOf[DialsTo[c]]
    /\ v[d] = "confirm" \/ (PersistMayFail /\ v[d] = "server_error")

\* A client is in the table only if a client of its node and name was let in.
ListedWasLetIn ==
    \A c \in Conns : \A k \in DOMAIN table.peers :
        table.peers[k] = [name |-> NameOf[DialsTo[c]], node |-> NodeOf[c]] =>
            \E d \in Conns : StoredBy(verdict, c, d)

\* The records after add_peer are those before it and, if it got as far as
\* the push, the new one.
OnlyPushes(st, n, d) ==
    \A k \in DOMAIN add_peer(st, n, d).table.peers :
        \/ k \in DOMAIN st.peers /\ add_peer(st, n, d).table.peers[k] = st.peers[k]
        \/ /\ add_peer(st, n, d).persists
           /\ add_peer(st, n, d).table.peers[k] = [name |-> n, node |-> d]

\* add_peer on a sound table, whether it refuses, does nothing or pushes.
LEMMA AddedPeer ==
    ASSUME NEW st, Sound(st), NEW n \in Names, NEW d \in Nodes
    PROVE  OnlyPushes(st, n, d)
<1> SUFFICES ASSUME NEW k \in DOMAIN add_peer(st, n, d).table.peers
             PROVE  \/ k \in DOMAIN st.peers /\ add_peer(st, n, d).table.peers[k] = st.peers[k]
                    \/ /\ add_peer(st, n, d).persists
                       /\ add_peer(st, n, d).table.peers[k] = [name |-> n, node |-> d]
  BY Zenon DEF OnlyPushes
<1> DEFINE p == [name |-> n, node |-> d]
<1>1. CASE add_peer(st, n, d).table = st
  BY <1>1, Zenon
<1>2. CASE add_peer(st, n, d) = Store(WithPeer(st, n, d))
  <2>1. add_peer(st, n, d).persists /\ add_peer(st, n, d).table.peers = Append(st.peers, p)
    BY <1>2 DEF Store, WithPeer
  <2>2. st.peers \in Seq(Peer) /\ p \in Peer
    BY Zenon DEF Sound, Table, Peer
  <2>3. Append(st.peers, p)[k] = IF k \in DOMAIN st.peers THEN st.peers[k] ELSE p
    <3>1. k \in 1 .. Len(st.peers) + 1 /\ DOMAIN st.peers = 1 .. Len(st.peers) /\ Len(st.peers) \in Nat
      BY <2>1, <2>2, SMTT(30)
    <3> HIDE DEF p
    <3> QED
      BY <2>2, <3>1, SMTT(30)
  <2> QED
    BY <2>1, <2>3, ZenonT(40)
<1> QED
  BY <1>1, <1>2, ZenonT(40) DEF add_peer, Return

\* What a forced remove_peer leaves behind was there.
LEMMA RemovedPeer ==
    ASSUME NEW st, Sound(st), NEW n \in Names, ~ is_name_free(st, n),
           NEW peers, peers = DropPeer(st.peers, n), NEW k \in DOMAIN peers
    PROVE  \E j \in DOMAIN st.peers : st.peers[j] = peers[k]
<1>1. /\ DropPeer(st.peers, n) \in Seq(Peer)
      /\ Len(DropPeer(st.peers, n)) = Len(st.peers) - 1
      /\ \A i \in DOMAIN DropPeer(st.peers, n) :
            /\ DropPeer(st.peers, n)[i].name # n
            /\ \E j \in DOMAIN st.peers : DropPeer(st.peers, n)[i] = st.peers[j]
  BY DropPeerKeepsOthers
<1> QED
  BY <1>1, SMTT(30)

\* The handlers' add_peer, a rival's, and peer.rm are the only steps that
\* change who is listed, and a client's record is pushed by a handler that
\* answers confirm, or server_error when the write fails.
LEMMA ListedStep ==
    ASSUME SInv, ConfirmedIsRecorded, FailedIsOver, ListedWasLetIn, [Next]_vars
    PROVE  ListedWasLetIn'
<1>0. /\ TypeOK /\ Sound(table) /\ verdict \in [Conns -> Verdicts]
      /\ \A c \in Conns : NameOf[DialsTo[c]] \in Names /\ NodeOf[c] \in Nodes
  BY InviteAssumption, Zenon DEF SInv, TypeOK
<1> DEFINE Rec(c) == [name |-> NameOf[DialsTo[c]], node |-> NodeOf[c]]
           LetIn(c) == \E d \in Conns : StoredBy(verdict', c, d)
<1>1. \A c, d \in Conns : StoredBy(verdict, c, d) => StoredBy(verdict', c, d)
  <2> SUFFICES ASSUME NEW c \in Conns, NEW d \in Conns, StoredBy(verdict, c, d)
               PROVE  verdict'[d] = verdict[d]
    BY Zenon DEF StoredBy
  <2>1. pc[d] \in {"confirming", "failing", "releasing", "done"}
    BY Zenon DEF StoredBy, ConfirmedIsRecorded, FailedIsOver
  <2> QED
    BY <1>0, <2>1, VerdictsAreFinal, Zenon
<1>2. ASSUME NEW c \in Conns, NEW k \in DOMAIN table.peers, table.peers[k] = Rec(c)
      PROVE  LetIn(c)
  BY <1>1, <1>2, ZenonT(40) DEF ListedWasLetIn
<1>r. ASSUME NEW n \in Names, Rm(n), NEW k \in DOMAIN table'.peers
      PROVE  \E j \in DOMAIN table.peers : table.peers[j] = table'.peers[k]
  <2>1. table'.peers = DropPeer(table.peers, n) /\ ~ is_name_free(table, n)
    BY <1>r DEF Rm, remove_peer, Store
  <2>2. Sound(table)
    BY <1>0, Zenon
  <2> QED
    BY <1>r, <2>1, <2>2, RemovedPeer, SMTT(30)
<1>a. ASSUME NEW n \in Names, NEW d \in Nodes, table' = add_peer(table, n, d).table,
             NEW k \in DOMAIN table'.peers
      PROVE  \/ k \in DOMAIN table.peers /\ table'.peers[k] = table.peers[k]
             \/ add_peer(table, n, d).persists /\ table'.peers[k] = [name |-> n, node |-> d]
  <2>1. OnlyPushes(table, n, d)
    BY <1>0, AddedPeer, ZenonT(40)
  <2> QED
    BY <1>a, <2>1, ZenonT(40) DEF OnlyPushes
<1> SUFFICES ASSUME NEW c \in Conns, NEW k \in DOMAIN table'.peers, table'.peers[k] = Rec(c)
             PROVE  LetIn(c)
  BY Zenon DEF ListedWasLetIn
<1> HIDE DEF LetIn
<1>3. ASSUME NEW d \in Conns, RecordOk(d) \/ RecordFails(d) PROVE LetIn(c)
  <2> DEFINE r == add_peer(table, NameOf[DialsTo[d]], NodeOf[d])
  <2>1. table' = r.table \/ table' = table
    BY <1>3, Zenon DEF RecordOk, RecordFails
  <2>2. CASE k \in DOMAIN table.peers /\ table'.peers[k] = table.peers[k]
    BY <1>2, <2>2, Zenon
  <2>3. CASE table' = r.table /\ table' # table /\ r.persists /\ r.table.peers[k] = Rec(d)
    <3>1. Rec(c) = Rec(d)
      BY <2>3, ZenonT(40)
    <3>2. NodeOf[d] = NodeOf[c] /\ NameOf[DialsTo[d]] = NameOf[DialsTo[c]]
      BY <3>1, ZenonT(40)
    <3>3. verdict'[d] = "confirm" \/ (PersistMayFail /\ verdict'[d] = "server_error")
      <4>1. CASE RecordOk(d)
        BY <1>0, <4>1, Zenon DEF RecordOk
      <4>2. CASE RecordFails(d)
        <5>1. DialsTo[d] \notin recorded /\ PersistMayFail
          BY <2>3, <4>2, Zenon DEF RecordFails
        <5> QED
          BY <1>0, <4>2, <5>1, Zenon DEF RecordFails
      <4> QED
        BY <1>3, <4>1, <4>2, Zenon
    <3> QED
      BY <3>2, <3>3, Zenon DEF LetIn, StoredBy
  <2>4. CASE table' = table
    BY <1>2, <2>4, Zenon
  <2>5. CASE table' = r.table
    <3>1. NameOf[DialsTo[d]] \in Names /\ NodeOf[d] \in Nodes
      BY <1>0, Zenon
    <3>2. \/ k \in DOMAIN table.peers /\ table'.peers[k] = table.peers[k]
          \/ r.persists /\ table'.peers[k] = Rec(d)
      <4>1. \A n \in Names, e \in Nodes :
                table' = add_peer(table, n, e).table =>
                    \/ k \in DOMAIN table.peers /\ table'.peers[k] = table.peers[k]
                    \/ /\ add_peer(table, n, e).persists
                       /\ table'.peers[k] = [name |-> n, node |-> e]
        BY <1>a, Zenon
      <4> QED
        BY <4>1, <2>5, <3>1, Zenon
    <3> QED
      BY <2>2, <2>3, <2>4, <2>5, <3>2, Zenon
  <2> QED
    BY <2>1, <2>4, <2>5, Zenon
<1>4. ASSUME NEW n \in Names, Rm(n) PROVE LetIn(c)
  BY <1>2, <1>4, <1>r, Zenon
<1>5. ASSUME NEW n \in Names, NEW d \in Nodes, Rival(n, d) PROVE LetIn(c)
  <2>1. table' = add_peer(table, n, d).table /\ NodeOf[c] # d
    BY <1>5, ZenonT(40) DEF Rival
  <2>2. Rec(c) # [name |-> n, node |-> d]
    BY <2>1, ZenonT(40)
  <2>3. k \in DOMAIN table.peers /\ table'.peers[k] = table.peers[k]
    BY <1>a, <2>1, <2>2, ZenonT(40)
  <2> QED
    BY <1>2, <2>3, Zenon
<1>6. CASE UNCHANGED table
  BY <1>2, <1>6, Zenon
<1> QED
  <2>1. ASSUME NEW i \in Invites, Serve(i) PROVE UNCHANGED table
    BY <2>1, ZenonT(40) DEF Serve, InsertEntry, EndpointUp, EndpointFails, TakeOutcome, TakeDecide,
        Deadline, Flush, CloseEndpoint, Finish, Leave
  <2>2. ASSUME NEW d \in Conns, Accept(d) PROVE UNCHANGED table
    BY <2>2, ZenonT(40) DEF Accept, TakeIncoming, DelayOver, Handshake
  <2>3. ASSUME NEW d \in Conns, Handle(d) PROVE RecordOk(d) \/ RecordFails(d) \/ UNCHANGED table
    BY <2>3, Zenon DEF Handle, RefuseBusy, HelloFails, HelloNameTaken, HelloOk, Listen,
        ReadDecision, ClientLeft, PromptTimeout, Denied, SendOutcome, Release
  <2>4. CASE Environment
    BY <1>4, <1>5, <1>6, <2>4, ZenonT(40) DEF Environment, Dial, Vanish, CheckCreate, DeadlinePasses,
        IpcClose, Answer
  <2> QED
    BY <1>3, <1>6, <2>1, <2>2, <2>3, <2>4, ZenonT(40) DEF Next, vars

\* Whatever the handlers of its own and of other invites register and peer.rm
\* removes, a client is in the peer table only if a client of its node and
\* name was confirmed, or its record was pushed and the write then failed.
THEOREM ListedWasConfirmed == Spec => []ListedWasLetIn
<1>1. Init => ListedWasLetIn
  <2> SUFFICES ASSUME Init PROVE ListedWasLetIn
    OBVIOUS
  <2>1. table = EmptyTable
    BY Zenon DEF Init
  <2>2. DOMAIN EmptyTable.peers = {}
    BY DEF EmptyTable
  <2> QED
    BY <2>1, <2>2, Zenon DEF ListedWasLetIn
<1>2. IInv /\ ListedWasLetIn /\ [Next]_vars => ListedWasLetIn'
  BY ListedStep, Zenon DEF IInv, SInv
<1> QED
  BY <1>1, <1>2, AlwaysIInv, PTL DEF Spec

\* A client that was turned away is not in the peer table, if writes of
\* state.toml succeed and no client comes a second time for the same name.
THEOREM DeniedStaysOut ==
    ASSUME ~ PersistMayFail,
           \A c, d \in Conns :
              NodeOf[c] = NodeOf[d] /\ NameOf[DialsTo[c]] = NameOf[DialsTo[d]] => c = d
    PROVE  Spec => []DeniedIsUnregistered
<1>1. ListedWasLetIn => DeniedIsUnregistered
  <2> SUFFICES ASSUME ListedWasLetIn, NEW c \in Conns, verdict[c] \in Denials,
                      NEW k \in DOMAIN table.peers,
                      table.peers[k] = [name |-> NameOf[DialsTo[c]], node |-> NodeOf[c]]
               PROVE  FALSE
    BY Zenon DEF DeniedIsUnregistered
  <2>1. PICK d \in Conns : StoredBy(verdict, c, d)
    BY Zenon DEF ListedWasLetIn
  <2>2. c = d /\ verdict[d] = "confirm"
    BY <2>1, Zenon DEF StoredBy
  <2> QED
    BY <2>2, ZenonT(40) DEF Denials
<1> QED
  BY <1>1, ListedWasConfirmed, PTL

=============================================================================

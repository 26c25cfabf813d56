------------------------------- MODULE Invite -------------------------------
(***************************************************************************)
(* Pairing on the daemon: InviteManager and the ephemeral invite endpoints *)
(* of tmite-core/src/daemon/invite.rs, with the admin's terminal (invite_  *)
(* cmd in tmite/src/main.rs) and the clients as their environment.         *)
(*                                                                         *)
(* Every invite has one serving task (invite_serve); every accepted        *)
(* connection has one handler task.  They share the invite's decision, its *)
(* Notify, its outcome channel, its pair slot and its reject delay, and    *)
(* all handlers share the daemon's peer table.  A step runs one task from  *)
(* one point where another task can be noticed to the next one.            *)
(*                                                                         *)
(* Simplifications.  Time is not measured: a deadline or a timeout is an   *)
(* event that may happen at any moment after it is armed.  The invite code *)
(* and key derivation are dropped: a connection is one that reached the    *)
(* right endpoint.  Outcome::Cancelled is left out, because invite_serve   *)
(* cannot reach it: the entry of the invite keeps a sender of the command  *)
(* channel, and only invite_serve itself closes the endpoint.              *)
(***************************************************************************)
EXTENDS PeerTable

CONSTANTS
    Invites,         \* calls of peer.invite
    Conns,           \* connections that clients make to invite endpoints
    NameOf,          \* the name each invite is for
    DialsTo,         \* the invite each connection dials
    NodeOf,          \* the node id each connection comes from
    MaxPending,      \* limits::MAX_PENDING_INVITES
    MaxDelay,        \* doublings from REJECT_DELAY_INITIAL to REJECT_DELAY_MAX
    PersistMayFail   \* whether State::persist_locked may fail

ASSUME InviteAssumption ==
    /\ NameOf \in [Invites -> Names]
    /\ DialsTo \in [Conns -> Invites]
    /\ NodeOf \in [Conns -> Nodes]
    /\ MaxPending \in Nat
    /\ MaxDelay \in Nat
    /\ PersistMayFail \in BOOLEAN

VARIABLES
    table,      \* State::inner
    entries,    \* InviteManager::entries
    phase,      \* where the call of create or the serving task stands
    expired,    \* invites whose deadline has passed
    decision,   \* InviteShared::decision
    cmds,       \* the InviteCmd channel
    outcomes,   \* the Outcome channel
    outcome,    \* the local variable outcome of invite_serve
    result,     \* the reply to peer.invite
    busy,       \* invites whose pair slot is taken (InviteShared::pair_busy)
    recorded,   \* invites that have their peer (InviteShared::peer_recorded)
    delay,      \* InviteShared::delay, as a number of doublings
    pc,         \* where the handler of a connection stands
    woken,      \* connections whose Notified future has fired
    gone,       \* connections that are lost or closed
    verdict,    \* the last frame written to the client
    ipc,        \* invites whose terminal is still connected
    prompts,    \* pair_request events the terminal has not answered yet
    answer      \* what the admin answered to the request of a connection

taskVars == <<phase, outcome, result, entries>>
sharedVars == <<decision, cmds, outcomes, busy, recorded, delay>>
connVars == <<pc, woken, gone, verdict>>
adminVars == <<ipc, prompts, answer>>
vars == <<table, expired, taskVars, sharedVars, connVars, adminVars>>

\* Results of peer.invite; "none" while it is pending.
Outcome == [kind : {"none", "rejected", "expired"}] \cup [kind : {"paired"}, conn : Conns]
Result == Outcome \cup [kind : {"error"}, code : {"invite_cap", "internal"}]
Nothing == [kind |-> "none"]
Rejected == [kind |-> "rejected"]
Expired == [kind |-> "expired"]
Paired(c) == [kind |-> "paired", conn |-> c]

Phases == {"none", "checked", "binding", "serving", "delaying", "handshaking",
           "ending", "flushing", "closing", "leaving", "done"}

\* InviteCmd::Decide(true) and Decide(false).
Decisions == {"accept", "reject"}

\* Phases in which the invite endpoint is bound and can be dialled.
Listening == {"serving", "delaying", "handshaking", "ending", "flushing"}

\* Program points of handle_pair_conn, which run while the slot is held.
Handling == {"hello", "asking", "waiting", "accepted", "confirming",
             "failing", "denying", "releasing"}

Points == Handling \cup {"idle", "dialled", "accepting", "busy", "done"}

Verdicts == {"none", "wait", "confirm", "name_taken", "admin_denied",
             "expired", "server_error", "busy"}
Denials == Verdicts \ {"none", "wait", "confirm"}

Init ==
    /\ table = EmptyTable
    /\ entries = {}
    /\ phase = [i \in Invites |-> "none"]
    /\ expired = {}
    /\ decision = [i \in Invites |-> "none"]
    /\ cmds = [i \in Invites |-> << >>]
    /\ outcomes = [i \in Invites |-> << >>]
    /\ outcome = [i \in Invites |-> Nothing]
    /\ result = [i \in Invites |-> Nothing]
    /\ busy = {}
    /\ recorded = {}
    /\ delay = [i \in Invites |-> 0]
    /\ pc = [c \in Conns |-> "idle"]
    /\ woken = {}
    /\ gone = {}
    /\ verdict = [c \in Conns |-> "none"]
    /\ ipc = Invites
    /\ prompts = [i \in Invites |-> << >>]
    /\ answer = [c \in Conns |-> "none"]

-----------------------------------------------------------------------------
(***************************************************************************)
(* Helpers.                                                                *)
(***************************************************************************)
Goto(c, point) == pc' = [pc EXCEPT ![c] = point]

\* RejectDelay::escalate and reset.
Escalated(k) == IF k < MaxDelay THEN k + 1 ELSE MaxDelay
Escalate(i) == delay' = [delay EXCEPT ![i] = Escalated(@)]
Reset(i) == delay' = [delay EXCEPT ![i] = 0]

\* Notify::notify_waiters: only futures that already exist are woken.
NotifyWaiters(i) ==
    woken' = woken \cup {c \in Conns : DialsTo[c] = i /\ pc[c] = "waiting"}

\* InviteShared::finish up to the lock on the entries: the first result wins.
\* Leave takes the entry out; until then the invite is listed, counts
\* against the cap and takes decisions.
finish(i, r) ==
    /\ phase' = [phase EXCEPT ![i] = "leaving"]
    /\ result' = [result EXCEPT ![i] = IF @ = Nothing THEN r ELSE @]

-----------------------------------------------------------------------------
(***************************************************************************)
(* InviteManager::create.  The name and the cap are tested under locks of  *)
(* their own; the entry is inserted under a third.                         *)
(***************************************************************************)
error_code(err) == IF err = "cap" THEN "invite_cap" ELSE "internal"

RefuseCreate(i, err) ==
    /\ phase' = [phase EXCEPT ![i] = "done"]
    /\ result' = [result EXCEPT ![i] = [kind |-> "error", code |-> error_code(err)]]

CheckCreate(i) ==
    /\ phase[i] = "none"
    /\ \/ /\ ~ is_name_free(table, NameOf[i])
          /\ RefuseCreate(i, "name_taken")
       \/ /\ is_name_free(table, NameOf[i])
          /\ Cardinality(entries) >= MaxPending
          /\ RefuseCreate(i, "cap")
       \/ /\ is_name_free(table, NameOf[i])
          /\ Cardinality(entries) < MaxPending
          /\ phase' = [phase EXCEPT ![i] = "checked"]
          /\ UNCHANGED result
    /\ UNCHANGED <<table, expired, outcome, entries, sharedVars, connVars, adminVars>>

InsertEntry(i) ==
    /\ phase[i] = "checked"
    /\ phase' = [phase EXCEPT ![i] = "binding"]
    /\ entries' = entries \cup {i}
    /\ UNCHANGED <<table, expired, outcome, result, sharedVars, connVars, adminVars>>

\* run_invite_endpoint: the endpoint comes online, or it does not.
EndpointUp(i) ==
    /\ phase[i] = "binding"
    /\ phase' = [phase EXCEPT ![i] = "serving"]
    /\ UNCHANGED <<table, expired, outcome, result, entries, sharedVars, connVars, adminVars>>

EndpointFails(i) ==
    /\ phase[i] = "binding"
    /\ finish(i, Expired)
    /\ UNCHANGED <<table, expired, outcome, entries, sharedVars, connVars, adminVars>>

-----------------------------------------------------------------------------
(***************************************************************************)
(* invite_serve.  The select! is biased: an outcome before a command,      *)
(* a command before the deadline, the deadline before a new connection.    *)
(***************************************************************************)
Break(i, o) ==
    /\ outcome' = [outcome EXCEPT ![i] = o]
    /\ phase' = [phase EXCEPT ![i] = "ending"]

TakeOutcome(i) ==
    /\ phase[i] = "serving"
    /\ outcomes[i] # << >>
    /\ Break(i, Head(outcomes[i]))
    /\ outcomes' = [outcomes EXCEPT ![i] = Tail(@)]
    /\ UNCHANGED <<table, expired, result, entries, decision, cmds, busy, recorded,
                   delay, connVars, adminVars>>

TakeDecide(i) ==
    /\ phase[i] = "serving"
    /\ outcomes[i] = << >>
    /\ cmds[i] # << >>
    /\ cmds' = [cmds EXCEPT ![i] = Tail(@)]
    /\ NotifyWaiters(i)
    /\ decision' = [decision EXCEPT ![i] = Head(cmds[i])]
    /\ \/ Head(cmds[i]) = "accept" /\ UNCHANGED <<phase, outcome>>
       \/ Head(cmds[i]) = "reject" /\ Break(i, Rejected)
    /\ UNCHANGED <<table, expired, result, entries, outcomes, busy, recorded, delay,
                   pc, gone, verdict, adminVars>>

\* A deadline that waits for the active pair connection.
DeadlineWhenIdle(i) ==
    /\ phase[i] = "serving"
    /\ outcomes[i] = << >>
    /\ cmds[i] = << >>
    /\ i \in expired
    /\ i \notin busy
    /\ Break(i, Expired)
    /\ UNCHANGED <<table, expired, result, entries, sharedVars, connVars, adminVars>>

Deadline(i) ==
    /\ phase[i] = "serving"
    /\ outcomes[i] = << >>
    /\ cmds[i] = << >>
    /\ i \in expired
    /\ Break(i, Expired)
    /\ UNCHANGED <<table, expired, result, entries, sharedVars, connVars, adminVars>>

\* A connection is taken up; the task first sleeps for the reject delay.
TakeIncoming(c) ==
    LET i == DialsTo[c] IN
    /\ phase[i] = "serving"
    /\ outcomes[i] = << >>
    /\ cmds[i] = << >>
    /\ i \notin expired
    /\ pc[c] = "dialled"
    /\ Goto(c, "accepting")
    /\ phase' = [phase EXCEPT ![i] = "delaying"]
    /\ UNCHANGED <<table, expired, outcome, result, entries, sharedVars, woken, gone,
                   verdict, adminVars>>

\* The delay is over: the deadline is tested again, then the handshake runs.
DelayOver(c) ==
    LET i == DialsTo[c] IN
    /\ phase[i] = "delaying"
    /\ pc[c] = "accepting"
    /\ \/ /\ i \in expired
          /\ Break(i, Expired)
          /\ Goto(c, "done")
          /\ gone' = gone \cup {c}
       \/ /\ i \notin expired
          /\ phase' = [phase EXCEPT ![i] = "handshaking"]
          /\ UNCHANGED <<outcome, pc, gone>>
    /\ UNCHANGED <<table, expired, result, entries, sharedVars, woken, verdict, adminVars>>

\* A handshake that never finds the slot taken.
HandshakeUnclaimed(c) ==
    LET i == DialsTo[c] IN
    /\ phase[i] = "handshaking"
    /\ pc[c] = "accepting"
    /\ c \notin gone
    /\ phase' = [phase EXCEPT ![i] = "serving"]
    /\ Reset(i)
    /\ busy' = busy \cup {i}
    /\ Goto(c, "hello")
    /\ UNCHANGED <<table, expired, outcome, result, entries, decision, cmds, outcomes,
                   recorded, woken, gone, verdict, adminVars>>

\* connecting.await returns: an error, or a connection that claims the pair
\* slot or is turned away.
Handshake(c) ==
    LET i == DialsTo[c] IN
    /\ phase[i] = "handshaking"
    /\ pc[c] = "accepting"
    /\ phase' = [phase EXCEPT ![i] = "serving"]
    /\ \/ /\ c \in gone
          /\ Escalate(i)
          /\ Goto(c, "done")
          /\ UNCHANGED busy
       \/ /\ c \notin gone
          /\ Reset(i)
          /\ i \notin busy
          /\ busy' = busy \cup {i}
          /\ Goto(c, "hello")
       \/ /\ c \notin gone
          /\ Reset(i)
          /\ i \in busy
          /\ Goto(c, "busy")
          /\ UNCHANGED busy
    /\ UNCHANGED <<table, expired, outcome, result, entries, decision, cmds, outcomes,
                   recorded, woken, gone, verdict, adminVars>>

\* After the loop, a rejected or expired invite wakes its handlers once more
\* and gives them 300 ms.
Flush(i) ==
    /\ phase[i] = "ending"
    /\ outcome[i] \in {Rejected, Expired}
    /\ phase' = [phase EXCEPT ![i] = "flushing"]
    /\ NotifyWaiters(i)
    /\ UNCHANGED <<table, expired, outcome, result, entries, sharedVars, pc, gone,
                   verdict, adminVars>>

\* endpoint.close(): every connection of the endpoint is lost, those not
\* yet accepted included.
CloseEndpoint(i) ==
    /\ \/ phase[i] = "flushing"
       \/ phase[i] = "ending" /\ outcome[i] \notin {Rejected, Expired}
    /\ phase' = [phase EXCEPT ![i] = "closing"]
    /\ gone' = gone \cup {c \in Conns : DialsTo[c] = i /\ pc[c] # "idle"}
    /\ pc' = [c \in Conns |->
                IF DialsTo[c] = i /\ pc[c] = "dialled" THEN "done" ELSE pc[c]]
    /\ UNCHANGED <<table, expired, outcome, result, entries, sharedVars, woken,
                   verdict, adminVars>>

Finish(i) ==
    /\ phase[i] = "closing"
    /\ finish(i, outcome[i])
    /\ UNCHANGED <<table, expired, outcome, entries, sharedVars, connVars, adminVars>>

\* The rest of finish, on both ways into it.
Leave(i) ==
    /\ phase[i] = "leaving"
    /\ phase' = [phase EXCEPT ![i] = "done"]
    /\ entries' = entries \ {i}
    /\ UNCHANGED <<table, expired, outcome, result, sharedVars, connVars, adminVars>>

-----------------------------------------------------------------------------
(***************************************************************************)
(* refuse_pair_busy and handle_pair_conn.  Waiting for the client's ack of *)
(* a verdict is the time between writing it and the next step.             *)
(***************************************************************************)
RefuseBusy(c) ==
    /\ pc[c] = "busy"
    /\ Goto(c, "done")
    /\ verdict' = [verdict EXCEPT ![c] = IF c \in gone THEN @ ELSE "busy"]
    /\ gone' = gone \cup {c}
    /\ UNCHANGED <<table, expired, taskVars, sharedVars, woken, adminVars>>

\* No stream is opened, or a frame is missing, late or malformed.
HelloFails(c) ==
    /\ pc[c] = "hello"
    /\ Goto(c, "releasing")
    /\ \/ c \in gone /\ UNCHANGED delay
       \/ Escalate(DialsTo[c])
    /\ gone' = gone \cup {c}
    /\ UNCHANGED <<table, expired, taskVars, decision, cmds, outcomes, busy, recorded,
                   woken, verdict, adminVars>>

HelloNameTaken(c) ==
    /\ pc[c] = "hello"
    /\ c \notin gone
    /\ ~ is_name_free(table, NameOf[DialsTo[c]])
    /\ Goto(c, "releasing")
    /\ verdict' = [verdict EXCEPT ![c] = "name_taken"]
    /\ Escalate(DialsTo[c])
    /\ gone' = gone \cup {c}
    /\ UNCHANGED <<table, expired, taskVars, decision, cmds, outcomes, busy, recorded,
                   woken, adminVars>>

\* PAIR_WAIT is written and the pair_request event goes to the terminal.
HelloOk(c) ==
    LET i == DialsTo[c] IN
    /\ pc[c] = "hello"
    /\ c \notin gone
    /\ is_name_free(table, NameOf[i])
    /\ Goto(c, "asking")
    /\ verdict' = [verdict EXCEPT ![c] = "wait"]
    /\ prompts' = [prompts EXCEPT ![i] = Append(@, c)]
    /\ UNCHANGED <<table, expired, taskVars, sharedVars, woken, gone, ipc, answer>>

\* The select! of the wait loop creates a fresh Notified future.
Listen(c) ==
    /\ pc[c] = "asking"
    /\ Goto(c, "waiting")
    /\ woken' = woken \ {c}
    /\ UNCHANGED <<table, expired, taskVars, sharedVars, gone, verdict, adminVars>>

\* A wake-up that is taken for an accept unless the admin said no.
ReadDecisionOptimist(c) ==
    /\ pc[c] = "waiting"
    /\ c \in woken
    /\ decision[DialsTo[c]] # "reject"
    /\ Goto(c, "accepted")
    /\ UNCHANGED <<table, expired, taskVars, sharedVars, woken, gone, verdict, adminVars>>

\* The branches of that select!, which is not biased.
ReadDecision(c) ==
    LET d == decision[DialsTo[c]] IN
    /\ pc[c] = "waiting"
    /\ c \in woken
    /\ \/ d = "accept" /\ Goto(c, "accepted") /\ UNCHANGED verdict
       \/ /\ d = "reject"
          /\ Goto(c, "denying")
          /\ verdict' = [verdict EXCEPT ![c] = "admin_denied"]
       \/ d = "none" /\ Goto(c, "asking") /\ UNCHANGED verdict
    /\ UNCHANGED <<table, expired, taskVars, sharedVars, woken, gone, adminVars>>

\* A handler whose early return skips the release.
ClientLeftKeepsSlot(c) ==
    /\ pc[c] = "waiting"
    /\ Goto(c, "done")
    /\ gone' = gone \cup {c}
    /\ UNCHANGED <<table, expired, taskVars, sharedVars, woken, verdict, adminVars>>

\* The client hung up, or sent bytes and is hung up on.
ClientLeft(c) ==
    /\ pc[c] = "waiting"
    /\ Goto(c, "releasing")
    /\ gone' = gone \cup {c}
    /\ UNCHANGED <<table, expired, taskVars, sharedVars, woken, verdict, adminVars>>

\* PROMPT_TIMEOUT or the deadline of the invite.
PromptTimeout(c) ==
    /\ pc[c] = "waiting"
    /\ Goto(c, "denying")
    /\ verdict' = [verdict EXCEPT ![c] = "expired"]
    /\ UNCHANGED <<table, expired, taskVars, sharedVars, woken, gone, adminVars>>

Denied(c) ==
    /\ pc[c] = "denying"
    /\ Goto(c, "releasing")
    /\ \/ verdict[c] = "admin_denied" /\ Escalate(DialsTo[c])
       \/ verdict[c] # "admin_denied" /\ UNCHANGED delay
    /\ UNCHANGED <<table, expired, taskVars, decision, cmds, outcomes, busy, recorded,
                   woken, gone, verdict, adminVars>>

\* The accept path, under the lock on peer_recorded: add_peer stores the
\* peer and the client is confirmed, ...
RecordOk(c) ==
    LET i == DialsTo[c]
        r == add_peer(table, NameOf[i], NodeOf[c]) IN
    /\ pc[c] = "accepted"
    /\ i \notin recorded
    /\ r.persists
    /\ table' = r.table
    /\ recorded' = recorded \cup {i}
    /\ Reset(i)
    /\ Goto(c, "confirming")
    /\ verdict' = [verdict EXCEPT ![c] = "confirm"]
    /\ UNCHANGED <<expired, taskVars, decision, cmds, outcomes, busy, woken, gone, adminVars>>

\* ... or the client is denied: a peer was recorded already, or add_peer
\* reports an error.  A failed write leaves the peer in memory.
RecordFails(c) ==
    LET i == DialsTo[c]
        r == add_peer(table, NameOf[i], NodeOf[c]) IN
    /\ pc[c] = "accepted"
    /\ i \in recorded \/ ~ r.persists \/ PersistMayFail
    /\ table' = IF i \in recorded THEN table ELSE r.table
    /\ Goto(c, IF i \in recorded THEN "denying" ELSE "failing")
    /\ verdict' = [verdict EXCEPT ![c] = IF i \in recorded THEN "busy" ELSE "server_error"]
    /\ UNCHANGED <<expired, taskVars, sharedVars, woken, gone, adminVars>>

\* An outcome that is Paired even if the peer could not be recorded.
SendOutcomePaired(c) ==
    /\ pc[c] \in {"confirming", "failing"}
    /\ Goto(c, "releasing")
    /\ outcomes' = [outcomes EXCEPT ![DialsTo[c]] = Append(@, Paired(c))]
    /\ UNCHANGED <<table, expired, taskVars, decision, cmds, busy, recorded, delay,
                   woken, gone, verdict, adminVars>>

\* The verdict is acked or the ack timed out: the serving task is told.
SendOutcome(c) ==
    LET i == DialsTo[c] IN
    /\ pc[c] \in {"confirming", "failing"}
    /\ Goto(c, "releasing")
    /\ outcomes' = [outcomes EXCEPT ![i] =
                      Append(@, IF pc[c] = "confirming" THEN Paired(c) ELSE Rejected)]
    /\ UNCHANGED <<table, expired, taskVars, decision, cmds, busy, recorded, delay,
                   woken, gone, verdict, adminVars>>

\* handle_pair_conn gives the slot back however the handler ended.
Release(c) ==
    /\ pc[c] = "releasing"
    /\ Goto(c, "done")
    /\ busy' = busy \ {DialsTo[c]}
    /\ gone' = gone \cup {c}
    /\ UNCHANGED <<table, expired, taskVars, decision, cmds, outcomes, recorded, delay,
                   woken, verdict, adminVars>>

-----------------------------------------------------------------------------
(***************************************************************************)
(* The environment: clients, time, and the admin.                          *)
(***************************************************************************)
Dial(c) ==
    /\ pc[c] = "idle"
    /\ phase[DialsTo[c]] \in Listening
    /\ Goto(c, "dialled")
    /\ UNCHANGED <<table, expired, taskVars, sharedVars, woken, gone, verdict, adminVars>>

Vanish(c) ==
    /\ pc[c] \notin {"idle", "done"}
    /\ c \notin gone
    /\ gone' = gone \cup {c}
    /\ UNCHANGED <<table, expired, taskVars, sharedVars, pc, woken, verdict, adminVars>>

DeadlinePasses(i) ==
    /\ phase[i] \notin {"none", "done"}
    /\ i \notin expired
    /\ expired' = expired \cup {i}
    /\ UNCHANGED <<table, taskVars, sharedVars, connVars, adminVars>>

\* The terminal shows the oldest unanswered request, blocks on y/N, and
\* sends peer.invite.decide with the id of the invite; it gives up when
\* the daemon answers not_found.
Answer(i, d) ==
    /\ i \in ipc
    /\ prompts[i] # << >>
    /\ prompts' = [prompts EXCEPT ![i] = Tail(@)]
    /\ answer' = [answer EXCEPT ![Head(prompts[i])] = d]
    /\ \/ /\ i \in entries
          /\ cmds' = [cmds EXCEPT ![i] = Append(@, d)]
          /\ UNCHANGED ipc
       \/ /\ i \notin entries
          /\ ipc' = ipc \ {i}
          /\ UNCHANGED cmds
    /\ UNCHANGED <<table, expired, taskVars, decision, outcomes, busy, recorded, delay, connVars>>

\* The terminal goes away: ipc::handle_conn ends, and nothing else does.
IpcClose(i) ==
    /\ i \in ipc
    /\ phase[i] \notin {"none", "done"}
    /\ ipc' = ipc \ {i}
    /\ UNCHANGED <<table, expired, taskVars, sharedVars, connVars, prompts, answer>>

\* peer.rm --force of a paired name.
Rm(n) ==
    /\ ~ is_name_free(table, n)
    /\ table' = remove_peer(table, n, TRUE).table
    /\ UNCHANGED <<expired, taskVars, sharedVars, connVars, adminVars>>

\* An invite outside this model registers another client under the name.
Rival(n, d) ==
    /\ \A c \in Conns : NodeOf[c] # d
    /\ add_peer(table, n, d).persists
    /\ table' = add_peer(table, n, d).table
    /\ UNCHANGED <<expired, taskVars, sharedVars, connVars, adminVars>>

-----------------------------------------------------------------------------
Serve(i) ==
    \/ InsertEntry(i) \/ EndpointUp(i) \/ EndpointFails(i)
    \/ TakeOutcome(i) \/ TakeDecide(i) \/ Deadline(i)
    \/ Flush(i) \/ CloseEndpoint(i) \/ Finish(i) \/ Leave(i)

Accept(c) == TakeIncoming(c) \/ DelayOver(c) \/ Handshake(c)

Handle(c) ==
    \/ RefuseBusy(c) \/ HelloFails(c) \/ HelloNameTaken(c) \/ HelloOk(c)
    \/ Listen(c) \/ ReadDecision(c) \/ ClientLeft(c) \/ PromptTimeout(c)
    \/ Denied(c) \/ RecordOk(c) \/ RecordFails(c)
    \/ SendOutcome(c) \/ Release(c)

Environment ==
    \/ \E c \in Conns : Dial(c) \/ Vanish(c)
    \/ \E i \in Invites : CheckCreate(i) \/ DeadlinePasses(i) \/ IpcClose(i)
    \/ \E i \in Invites, d \in Decisions : Answer(i, d)
    \/ \E n \in Names : Rm(n)
    \/ \E n \in Names, d \in Nodes : Rival(n, d)

Next ==
    \/ \E i \in Invites : Serve(i)
    \/ \E c \in Conns : Accept(c) \/ Handle(c)
    \/ Environment

Spec == Init /\ [][Next]_vars

(***************************************************************************)
(* Fairness.  Tasks that can run do run; sleeps and timeouts elapse; a     *)
(* QUIC handshake ends one way or the other.  accept_bi has no timeout, so *)
(* a handler that waits for the client's stream is only sure to go on once *)
(* the connection is lost.  Nothing is assumed of clients or of the admin, *)
(* and the deadline of the invite only where a property says so: it is up  *)
(* to an hour away.                                                        *)
(***************************************************************************)
HandleTimely(c) == (pc[c] \in {"hello", "busy"} => c \in gone) /\ Handle(c)

Fairness ==
    /\ \A i \in Invites : WF_vars(Serve(i))
    /\ \A c \in Conns : WF_vars(Accept(c)) /\ WF_vars(HandleTimely(c))

FairSpec == Spec /\ Fairness

-----------------------------------------------------------------------------
\* Type invariant of the invite manager, its endpoints and their handlers.
TypeOK ==
    /\ table \in Table
    /\ entries \subseteq Invites
    /\ phase \in [Invites -> Phases]
    /\ expired \subseteq Invites
    /\ decision \in [Invites -> Decisions \cup {"none"}]
    /\ cmds \in [Invites -> Seq(Decisions)]
    /\ outcomes \in [Invites -> Seq(Outcome)]
    /\ outcome \in [Invites -> Outcome]
    /\ result \in [Invites -> Result]
    /\ busy \subseteq Invites
    /\ recorded \subseteq Invites
    /\ delay \in [Invites -> 0 .. MaxDelay]
    /\ pc \in [Conns -> Points]
    /\ woken \subseteq Conns
    /\ gone \subseteq Conns
    /\ verdict \in [Conns -> Verdicts]
    /\ ipc \subseteq Invites
    /\ prompts \in [Invites -> Seq(Conns)]
    /\ answer \in [Conns -> Decisions \cup {"none"}]

\* "Only one pair connection may be in progress per invite" (invite.rs:455):
\* the slot is taken exactly while one handler runs, on every way out of it.
SlotHeldByOneHandler ==
    \A i \in Invites :
        /\ \A c, d \in {x \in Conns : DialsTo[x] = i /\ pc[x] \in Handling} : c = d
        /\ (i \in busy) <=> (\E c \in Conns : DialsTo[c] = i /\ pc[c] \in Handling)

\* An invite registers at most one peer, and a client whose accept path runs
\* is never the second one.  The Busy denial of invite.rs:618 is not reached,
\* although its comment says that "a racing connection can still land here
\* after the slot was released by a recorded peer": one that claims the slot
\* then finds the outcome already sent, and the biased select! takes that
\* before any command could wake it.
RecordsAtMostOnce ==
    \A c, d \in Conns : DialsTo[c] = DialsTo[d] =>
        /\ pc[c] = "accepted" => DialsTo[c] \notin recorded
        /\ verdict[c] = "confirm" /\ verdict[d] = "confirm" => c = d

\* No client is confirmed unless the admin said yes to some client of the
\* same invite: no timeout, disconnect or failure turns into an accept.
ConfirmNeedsAccept ==
    \A c \in Conns : verdict[c] = "confirm" =>
        \E d \in Conns : DialsTo[d] = DialsTo[c] /\ answer[d] = "accept"

\* Every reply to peer.invite has its cause: Paired names a client that was
\* confirmed; Rejected follows a no of the admin or a peer that could not be
\* recorded; Expired follows the deadline, or an endpoint that never came up
\* and was never dialled.  So an outcome that arrives late is dropped for
\* one of these only.  And peer.invite.decide is not told not_found before
\* the reply is out (finish, invite.rs:130).
ResultIsTruthful ==
    \A i \in Invites :
        /\ result[i].kind = "paired" => verdict[result[i].conn] = "confirm"
        /\ result[i] = Rejected =>
              \E c \in Conns : /\ DialsTo[c] = i
                               /\ answer[c] = "reject" \/ verdict[c] = "server_error"
        /\ result[i] = Expired =>
              i \in expired \/ \A c \in Conns : DialsTo[c] = i => pc[c] = "idle"
        /\ phase[i] \notin {"none", "checked"} /\ i \notin entries => result[i] # Nothing

\* A client that was turned away is not in the peer table (no write of
\* state.toml failing), whatever the handlers of other invites register
\* or peer.rm removes under its name meanwhile.
DeniedIsUnregistered ==
    \A c \in Conns : verdict[c] \in Denials =>
        \A k \in DOMAIN table.peers :
            table.peers[k] # [name |-> NameOf[DialsTo[c]], node |-> NodeOf[c]]

\* The reply to peer.invite is sent once (finish takes result_tx,
\* invite.rs:131), an entry goes only after it, and an invite that was
\* replied to and has left the entries does not come back.
ResultIsFinal ==
    [][\A i \in Invites :
          /\ result[i] # Nothing => result'[i] = result[i]
          /\ i \in entries /\ i \notin entries' => result[i] # Nothing
          /\ result[i] # Nothing /\ i \notin entries => i \notin entries']_vars

\* Every invite that was created ends, with a reply and without its entry,
\* whatever its clients and its admin do or fail to do, once its deadline
\* passes: that alone ends it while a client holds the pair slot in silence.
EveryInviteResolves ==
    (\A i \in Invites : WF_vars(DeadlinePasses(i))) =>
        \A i \in Invites :
            (phase[i] = "binding") ~> (result[i] # Nothing /\ i \notin entries)

\* The pair slot comes back from every handler, the deadline of the invite
\* not being needed: "a client that vanished or failed its handshake cannot
\* block a legitimate retry" (invite.rs:447).  The exception is a client
\* that stays connected and opens no stream, because accept_bi has no
\* timeout; once it is gone, it is no exception.
SlotComesBack ==
    \A c \in Conns :
        (pc[c] \in Handling /\ (pc[c] = "hello" => c \in gone)) ~> (DialsTo[c] \notin busy)

\* How the daemon keeps the promise of Pairing.tla: the confirmed clients of
\* an invite are its registrations, its result is the answer.
Registered ==
    [i \in Invites |-> {c \in Conns : DialsTo[c] = i /\ verdict[c] = "confirm"}]

AnswerOf(r) ==
    IF r = Nothing THEN {} ELSE IF r.kind = "paired" THEN {r.conn} ELSE {"unpaired"}

Promise == INSTANCE Pairing WITH
    registered <- Registered,
    reply <- [i \in Invites |-> AnswerOf(result[i])]

\* Every step of the daemon is a step of that promise or leaves it alone.
KeepsPromise == Promise!Spec

-----------------------------------------------------------------------------
(***************************************************************************)
(* What the documentation says and the code does not do.                   *)
(***************************************************************************)
\* "pairing completes after the admin compares the client's NodeId on both
\* terminals" (README.md:115): a confirmed client is one the admin said yes to.
ConfirmedWasApproved ==
    \A c \in Conns : verdict[c] = "confirm" => answer[c] = "accept"

\* A client still waiting after its accept was taken up has been woken: it
\* is turned away only "if ... no `peer.invite.decide` arrives within 120 s"
\* (docs/design.md:236).
AcceptReachesItsClient ==
    \A c \in Conns :
        (pc[c] = "waiting" /\ answer[c] = "accept" /\ cmds[DialsTo[c]] = << >>
           /\ decision[DialsTo[c]] = "accept") => c \in woken

=============================================================================

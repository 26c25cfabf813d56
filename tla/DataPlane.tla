----------------------------- MODULE DataPlane -----------------------------
(***************************************************************************)
(* The daemon's main endpoint: DataPlaneHandler in                         *)
(* tmite-core/src/daemon/main_ep.rs and the session registry of            *)
(* daemon/sessions.rs, over the peer table that pairings and the admin     *)
(* change meanwhile.                                                       *)
(*                                                                         *)
(* Every connection has a task that runs accept, every stream of it a task *)
(* that runs handle_stream.  A connection is authenticated once: the name  *)
(* found by its node id is kept for the connection's life.  Its streams    *)
(* are judged one by one, by that name.                                    *)
(*                                                                         *)
(* Simplifications.  Relaying is one state: the bytes are not modelled.    *)
(* Local addresses of announced forwards, last_seen and notifications are  *)
(* dropped.  Writes of state.toml succeed here; PeerStore has the others.  *)
(***************************************************************************)
EXTENDS PeerTable

CONSTANTS
    Conns,        \* connections to the main endpoint
    Streams,      \* bidirectional streams that clients open
    NodeOf,       \* the node id a connection comes from
    ConnOf,       \* the connection a stream belongs to
    WellFormed,   \* the targets that are host:port
    MaxDelay      \* doublings from REJECT_DELAY_INITIAL to REJECT_DELAY_MAX

ASSUME DataPlaneAssumption ==
    /\ NodeOf \in [Conns -> Nodes]
    /\ ConnOf \in [Streams -> Conns]
    /\ WellFormed \subseteq Targets
    /\ IsFiniteSet(Streams)
    /\ MaxDelay \in Nat

VARIABLES
    table,      \* State::inner
    pc,         \* where accept stands for a connection
    name,       \* the peer name a connection was authenticated as
    waiters,    \* reject_delay: the task at the head holds the lock
    delay,      \* RejectDelay, as a number of doublings
    closed,     \* connections that are closed or lost
    sessions,   \* Sessions::inner, the entry of a node or none
    forwards,   \* SessionEntry::forwards
    live,       \* SessionEntry::live
    task,       \* where handle_stream stands for a stream
    target,     \* the target it dials
    reply,      \* the frame a stream was answered with
    latest,     \* history: the connection of a node that registered last
    grants,     \* history: what the admin allowed, with the node it was for
    orphans     \* history: connections whose peer was removed meanwhile

connVars == <<pc, name, waiters, delay, closed>>
entryVars == <<sessions, forwards, live, latest>>
streamVars == <<task, target, reply>>
adminVars == <<table, grants, orphans>>
vars == <<connVars, entryVars, streamVars, adminVars>>

\* An Option is a set: empty, or with one element.
Init ==
    /\ table = EmptyTable
    /\ pc = [c \in Conns |-> "idle"]
    /\ name = [c \in Conns |-> {}]
    /\ waiters = << >>
    /\ delay = 0
    /\ closed = {}
    /\ sessions = [d \in Nodes |-> {}]
    /\ forwards = [c \in Conns |-> {}]
    /\ live = [c \in Conns |-> [t \in Targets |-> 0]]
    /\ task = [s \in Streams |-> "idle"]
    /\ target = [s \in Streams |-> {}]
    /\ reply = [s \in Streams |-> "none"]
    /\ latest = [d \in Nodes |-> {}]
    /\ grants = {}
    /\ orphans = {}

-----------------------------------------------------------------------------
(***************************************************************************)
(* DataPlaneHandler::accept.  The lookup and the first poll of the lock    *)
(* are one step; tokio's mutex is fair, so its waiters form a queue.       *)
(***************************************************************************)
Goto(c, point) == pc' = [pc EXCEPT ![c] = point]

Escalated(k) == IF k < MaxDelay THEN k + 1 ELSE MaxDelay

Lookup(c) ==
    /\ pc[c] = "arrived"
    /\ \/ /\ peer_by_node(table, NodeOf[c]) = {}
          /\ Goto(c, "unknown")
          /\ UNCHANGED name
       \/ \E p \in peer_by_node(table, NodeOf[c]) :
          /\ Goto(c, "known")
          /\ name' = [name EXCEPT ![c] = {p.name}]
    /\ waiters' = Append(waiters, c)
    /\ UNCHANGED <<delay, closed, entryVars, streamVars, adminVars>>

HoldsLock(c) == waiters # << >> /\ Head(waiters) = c

\* A rejection that does not let go of the lock.
RejectHolding(c) ==
    /\ pc[c] = "unknown"
    /\ HoldsLock(c)
    /\ delay' = Escalated(delay)
    /\ closed' = closed \cup {c}
    /\ Goto(c, "done")
    /\ UNCHANGED <<name, waiters, entryVars, streamVars, adminVars>>

\* An unknown client is closed after the delay, slept through under the lock.
Reject(c) ==
    /\ pc[c] = "unknown"
    /\ HoldsLock(c)
    /\ delay' = Escalated(delay)
    /\ waiters' = Tail(waiters)
    /\ closed' = closed \cup {c}
    /\ Goto(c, "done")
    /\ UNCHANGED <<name, entryVars, streamVars, adminVars>>

\* Sessions::register and unregister.
register(c) ==
    /\ sessions' = [sessions EXCEPT ![NodeOf[c]] = {c}]
    /\ latest' = [latest EXCEPT ![NodeOf[c]] = {c}]

\* An unregister that does not ask whose entry it is.
unregister_any(c) ==
    sessions' = [sessions EXCEPT ![NodeOf[c]] = {}]

unregister(c) ==
    sessions' = [sessions EXCEPT ![NodeOf[c]] = @ \ {c}]

Admit(c) ==
    /\ pc[c] = "known"
    /\ HoldsLock(c)
    /\ delay' = 0
    /\ waiters' = Tail(waiters)
    /\ register(c)
    /\ Goto(c, "looping")
    /\ UNCHANGED <<name, closed, forwards, live, streamVars, adminVars>>

\* A loop that waits for the streams of its connection before it ends.
LoopEndsIdle(c) ==
    /\ pc[c] = "looping"
    /\ c \in closed
    /\ \A s \in Streams : ConnOf[s] = c => task[s] # "relaying"
    /\ unregister(c)
    /\ Goto(c, "done")
    /\ UNCHANGED <<name, waiters, delay, closed, forwards, live, latest, streamVars,
                   adminVars>>

\* connection_loop ends with the connection; streams may outlive it.
LoopEnds(c) ==
    /\ pc[c] = "looping"
    /\ c \in closed
    /\ unregister(c)
    /\ Goto(c, "done")
    /\ UNCHANGED <<name, waiters, delay, closed, forwards, live, latest, streamVars,
                   adminVars>>

-----------------------------------------------------------------------------
(***************************************************************************)
(* handle_stream.  What follows the first frame up to the next await, the  *)
(* check of the rules included, is one step.                               *)
(***************************************************************************)
Answer(s, frame, point) ==
    /\ reply' = [reply EXCEPT ![s] = frame]
    /\ task' = [task EXCEPT ![s] = point]

\* connection_loop accepts a stream and spawns its task; streams that came
\* in before the connection was lost are still accepted.
AcceptStream(s) ==
    /\ task[s] = "idle"
    /\ pc[ConnOf[s]] = "looping"
    /\ task' = [task EXCEPT ![s] = "reading"]
    /\ UNCHANGED <<connVars, entryVars, target, reply, adminVars>>

\* No frame in time, one that is malformed or of another type, or no
\* connection any more.
NoFrame(s) ==
    /\ task[s] = "reading"
    /\ task' = [task EXCEPT ![s] = "done"]
    /\ UNCHANGED <<connVars, entryVars, target, reply, adminVars>>

\* SESSION: the client announces its listeners.
Hello(s, announced) ==
    /\ task[s] = "reading"
    /\ forwards' = [forwards EXCEPT ![ConnOf[s]] = announced]
    /\ Answer(s, "ok", "done")
    /\ UNCHANGED <<connVars, sessions, live, latest, target, adminVars>>

valid_target(t) == t \in WellFormed

\* The ACL: does the peer this connection was authenticated as have a rule?
Allowed(s, t) == \E n \in name[ConnOf[s]] : rule_allows(table, n, t)

Deny(s, t) ==
    /\ task[s] = "reading"
    /\ \/ ~ valid_target(t) /\ Answer(s, "server_error", "done")
       \/ valid_target(t) /\ ~ Allowed(s, t) /\ Answer(s, "unauthorized", "done")
    /\ UNCHANGED <<connVars, entryVars, target, adminVars>>

\* VALIDATE is answered from the rules alone, FORWARD goes on to dial.
Validate(s, t) ==
    /\ task[s] = "reading"
    /\ valid_target(t) /\ Allowed(s, t)
    /\ Answer(s, "ok", "done")
    /\ UNCHANGED <<connVars, entryVars, target, adminVars>>

Forward(s, t) ==
    /\ task[s] = "reading"
    /\ valid_target(t) /\ Allowed(s, t)
    /\ task' = [task EXCEPT ![s] = "dialling"]
    /\ target' = [target EXCEPT ![s] = {t}]
    /\ UNCHANGED <<connVars, entryVars, reply, adminVars>>

DialFails(s) ==
    /\ task[s] = "dialling"
    /\ Answer(s, "target_unreachable", "done")
    /\ UNCHANGED <<connVars, entryVars, target, adminVars>>

\* SessionEntry::forward_open and forward_close, for the target of a stream.
forward_open(s) ==
    live' = [live EXCEPT ![ConnOf[s]] = [t \in Targets |->
               IF t \in target[s] THEN @[t] + 1 ELSE @[t]]]

forward_close(s) ==
    live' = [live EXCEPT ![ConnOf[s]] = [t \in Targets |->
               IF t \in target[s] /\ @[t] > 0 THEN @[t] - 1 ELSE @[t]]]

\* A dial that is counted before its OK is known to be written.
DialledEarly(s) ==
    /\ task[s] = "dialling"
    /\ forward_open(s)
    /\ \/ Answer(s, "none", "done")
       \/ ConnOf[s] \notin closed /\ Answer(s, "ok", "relaying")
    /\ UNCHANGED <<connVars, sessions, forwards, latest, target, adminVars>>

\* Writing the OK fails, or it is written and the relay starts.
Dialled(s) ==
    /\ task[s] = "dialling"
    /\ \/ /\ Answer(s, "none", "done")
          /\ UNCHANGED live
       \/ /\ ConnOf[s] \notin closed
          /\ Answer(s, "ok", "relaying")
          /\ forward_open(s)
    /\ UNCHANGED <<connVars, sessions, forwards, latest, target, adminVars>>

RelayEnds(s) ==
    /\ task[s] = "relaying"
    /\ task' = [task EXCEPT ![s] = "done"]
    /\ forward_close(s)
    /\ UNCHANGED <<connVars, sessions, forwards, latest, target, reply, adminVars>>

-----------------------------------------------------------------------------
(***************************************************************************)
(* The environment: clients come and go; pairings and the admin change the *)
(* table.                                                                  *)
(***************************************************************************)
Connect(c) ==
    /\ pc[c] = "idle"
    /\ Goto(c, "arrived")
    /\ UNCHANGED <<name, waiters, delay, closed, entryVars, streamVars, adminVars>>

Close(c) ==
    /\ pc[c] \notin {"idle", "done"}
    /\ c \notin closed
    /\ closed' = closed \cup {c}
    /\ UNCHANGED <<pc, name, waiters, delay, entryVars, streamVars, adminVars>>

\* An accepted pairing: State::add_peer.
Pair(n, d) ==
    /\ table' = add_peer(table, n, d).table
    /\ UNCHANGED <<grants, orphans, connVars, entryVars, streamVars>>

\* peer.allow; grants remembers whom it was for.
Allow(n, t) ==
    /\ valid_target(t)
    /\ table' = add_rule(table, n, t).table
    /\ grants' = grants \cup
         {[node |-> table.peers[k].node, target |-> t] :
             k \in {j \in DOMAIN table.peers :
                        table.peers[j].name = n /\ rule_allows(table', n, t)}}
    /\ UNCHANGED <<orphans, connVars, entryVars, streamVars>>

Revoke(n, t) ==
    /\ table' = remove_rule(table, n, t).table
    /\ UNCHANGED <<grants, orphans, connVars, entryVars, streamVars>>

Remove(n, force) ==
    /\ table' = remove_peer(table, n, force).table
    /\ orphans' = orphans \cup
         {c \in Conns : n \in name[c] /\ is_name_free(table', n)}
    /\ UNCHANGED <<grants, connVars, entryVars, streamVars>>

-----------------------------------------------------------------------------
Conn(c) == Lookup(c) \/ Reject(c) \/ Admit(c) \/ LoopEnds(c)

Stream(s) ==
    \/ AcceptStream(s) \/ NoFrame(s)
    \/ \E t \in Targets : Deny(s, t) \/ Validate(s, t) \/ Forward(s, t)
    \/ \E announced \in SUBSET Targets : Hello(s, announced)
    \/ DialFails(s) \/ Dialled(s) \/ RelayEnds(s)

Admin ==
    \/ \E n \in Names, d \in Nodes : Pair(n, d)
    \/ \E n \in Names, t \in Targets : Allow(n, t) \/ Revoke(n, t)
    \/ \E n \in Names, force \in BOOLEAN : Remove(n, force)

Next ==
    \/ \E c \in Conns : Connect(c) \/ Close(c) \/ Conn(c)
    \/ \E s \in Streams : Stream(s)
    \/ Admin

Spec == Init /\ [][Next]_vars

\* Tasks that can run do, and the sleep under the lock ends.  Nothing is
\* assumed of clients, targets or the admin.
FairSpec == Spec /\ \A c \in Conns : WF_vars(Conn(c))

-----------------------------------------------------------------------------
\* Type invariant of the main endpoint, its registry and its streams.
TypeOK ==
    /\ table \in Table
    /\ pc \in [Conns -> {"idle", "arrived", "unknown", "known", "looping", "done"}]
    /\ name \in [Conns -> SUBSET Names]
    /\ waiters \in Seq(Conns)
    /\ delay \in 0 .. MaxDelay
    /\ closed \subseteq Conns
    /\ sessions \in [Nodes -> SUBSET Conns]
    /\ forwards \in [Conns -> SUBSET Targets]
    /\ live \in [Conns -> [Targets -> Nat]]
    /\ task \in [Streams -> {"idle", "reading", "dialling", "relaying", "done"}]
    /\ target \in [Streams -> SUBSET Targets]
    /\ reply \in [Streams -> {"none", "ok", "unauthorized", "target_unreachable",
                              "server_error"}]
    /\ latest \in [Nodes -> SUBSET Conns]
    /\ grants \subseteq [node : Nodes, target : Targets]
    /\ orphans \subseteq Conns

\* What a connection is served, its own node was granted: a target is dialled
\* for a client only if the admin allowed it to a peer with that client's
\* node id, however rules and peers come and go under the name, as long as
\* the peer the connection was authenticated as has not been removed.
ServedAsGranted ==
    \A s \in Streams :
        task[s] \in {"dialling", "relaying"} /\ ConnOf[s] \notin orphans =>
            \A t \in target[s] : [node |-> NodeOf[ConnOf[s]], target |-> t] \in grants

\* The registry follows re-dials: it only lists connections that are being
\* served, and the one that registered last is listed until it ends, even
\* if the accept loop of an earlier one winds down after it registered
\* (Sessions::unregister).
LatestIsListed ==
    \A d \in Nodes :
        /\ \A c \in sessions[d] : pc[c] = "looping" /\ NodeOf[c] = d
        /\ \A c \in latest[d] : pc[c] = "looping" => sessions[d] = {c}

\* The live count of a target is the number of streams being relayed to it
\* over that connection: forward_open and forward_close are paired on every
\* way through handle_stream, also when the connection ended first.
LiveIsExact ==
    \A c \in Conns, t \in Targets :
        live[c][t] = Cardinality({s \in Streams :
            ConnOf[s] = c /\ t \in target[s] /\ task[s] = "relaying"})

\* A paired client gets its session, although it queues behind unknown ones
\* that sleep with the lock of the reject delay.
KnownIsAdmitted == \A c \in Conns : (pc[c] = "known") ~> (pc[c] # "known")

\* A connection that is gone leaves the registry.
EndedIsUnlisted ==
    \A c \in Conns : (c \in closed) ~> (c \notin sessions[NodeOf[c]])

=============================================================================

--------------------------- MODULE ClientSession ---------------------------
(***************************************************************************)
(* The client's one connection to its server: Session in                   *)
(* tmite-core/src/client/session.rs, with the tasks of client/connect.rs   *)
(* that share it.  "main" is run: it dials at startup, validates the       *)
(* forwards and later tears everything down.  Every accepted TCP           *)
(* connection has a task that runs handle_local.  "watcher" is the path    *)
(* watch, in one of two forms: in TUI mode it asks for the connection on   *)
(* every tick, in plain mode it follows one connection until it is lost.   *)
(*                                                                         *)
(* Simplifications.  Connections are numbered in the order they are made.  *)
(* The stream of a request is opened and its FORWARD frame written in one  *)
(* step: both fail alike.  The forwards are validated in one step, and     *)
(* relaying is one state (Relay has the bytes).                            *)
(***************************************************************************)
EXTENDS Naturals, Sequences, FiniteSets

CONSTANTS
    Locals,      \* accepted TCP connections
    MaxStreams,  \* MAX_CONCURRENT_BIDI_STREAMS
    MaxConns,    \* bound: connections the server accepts
    MaxRedials   \* bound: re-dials after which the TUI's watcher rests

ASSUME SessionAssumption ==
    /\ IsFiniteSet(Locals)
    /\ {"main", "watcher"} \cap Locals = {}
    /\ MaxStreams \in Nat \ {0}
    /\ MaxConns \in Nat
    /\ MaxRedials \in Nat

VARIABLES
    tui,          \* ConnectParams::events is there
    pc,           \* where a task stands
    attempt,      \* the loop variable of handle_local
    conn,         \* the connection a task works with
    seen,         \* the redial count set_state has loaded
    queue,        \* Session::conn's mutex: the task at the head holds it
    cached,       \* Session::conn
    established,  \* Session::was_established
    redials,      \* Session::redials
    status,       \* the value of Session::status_tx
    dialled,      \* connections made so far
    dead,         \* connections that are lost
    made          \* history: connections that get has returned as new

sessionVars == <<queue, cached, established, redials, status>>
vars == <<tui, pc, attempt, conn, seen, sessionVars, dialled, dead, made>>

Tasks == Locals \cup {"main", "watcher"}

\* An Option is a set: empty, or with one element.
Init ==
    /\ tui \in BOOLEAN
    /\ pc = [t \in Tasks |-> IF t = "main" THEN "get" ELSE "idle"]
    /\ attempt = [t \in Locals |-> 0]
    /\ conn = [t \in Tasks |-> {}]
    /\ seen = [t \in Tasks |-> 0]
    /\ queue = << >>
    /\ cached = {}
    /\ established = FALSE
    /\ redials = 0
    /\ status = [state |-> "dialing", redials |-> 0]
    /\ dialled = 0
    /\ dead = {}
    /\ made = 0

Goto(t, point) == pc' = [pc EXCEPT ![t] = point]
Live(k) == k # {} /\ k \cap dead = {}
Holds(t) == queue # << >> /\ Head(queue) = t
Ended == pc["main"] = "ended"

\* Where a task goes on when get has returned, and when it has failed.
Served(t) ==
    CASE t = "main" -> "validate"
      [] t = "watcher" -> IF tui THEN "rest" ELSE "watching"
      [] OTHER -> "open"

Unserved(t) ==
    CASE t = "main" -> "ended"
      [] t = "watcher" -> IF tui THEN "rest" ELSE "returned"
      [] OTHER -> "closed"

-----------------------------------------------------------------------------
(***************************************************************************)
(* Session::get.  tokio's mutex is fair, so its waiters form a queue; the  *)
(* lock is kept while the server is dialled and the hello is answered.     *)
(***************************************************************************)
Lock(t) ==
    /\ pc[t] \in {"get", "invalidate"}
    /\ queue' = Append(queue, t)
    /\ Goto(t, IF pc[t] = "get" THEN "queued" ELSE "clearing")
    /\ UNCHANGED <<tui, attempt, conn, seen, cached, established, redials, status,
                   dialled, dead, made>>

GetCached(t) ==
    /\ pc[t] = "queued" /\ Holds(t)
    /\ cached # {}
    /\ conn' = [conn EXCEPT ![t] = cached]
    /\ queue' = Tail(queue)
    /\ Goto(t, Served(t))
    /\ UNCHANGED <<tui, attempt, seen, cached, established, redials, status, dialled,
                   dead, made>>

\* Mutant: a re-dial is not counted.
StartDialUncounted(t) ==
    /\ pc[t] = "queued" /\ Holds(t)
    /\ cached = {}
    /\ status' = [state |-> "dialing", redials |-> redials]
    /\ Goto(t, "dialing")
    /\ UNCHANGED <<tui, attempt, conn, seen, queue, cached, established, redials, dialled,
                   dead, made>>

StartDial(t) ==
    /\ pc[t] = "queued" /\ Holds(t)
    /\ cached = {}
    /\ redials' = IF established THEN redials + 1 ELSE redials
    /\ status' = [state |-> "dialing", redials |-> redials']
    /\ Goto(t, "dialing")
    /\ UNCHANGED <<tui, attempt, conn, seen, queue, cached, established, dialled, dead,
                   made>>

DialOk(t) ==
    /\ pc[t] = "dialing" /\ ~Ended
    /\ dialled < MaxConns
    /\ dialled' = dialled + 1
    /\ Goto(t, "hello")
    /\ UNCHANGED <<tui, attempt, conn, seen, sessionVars, dead, made>>

HelloOk(t) ==
    /\ pc[t] = "hello"
    /\ Live({dialled})
    /\ established' = TRUE
    /\ status' = [state |-> "established", redials |-> redials]
    /\ cached' = {dialled}
    /\ conn' = [conn EXCEPT ![t] = {dialled}]
    /\ made' = made + 1
    /\ queue' = Tail(queue)
    /\ Goto(t, Served(t))
    /\ UNCHANGED <<tui, attempt, seen, redials, dialled, dead>>

\* Mutant: the error is returned with the guard leaked.
GetFailsLocked(t) ==
    /\ pc[t] \in {"dialing", "hello"}
    /\ Goto(t, Unserved(t))
    /\ UNCHANGED <<tui, attempt, conn, seen, sessionVars, dialled, dead, made>>

\* Unreachable, out of time, or refused: the status stays at dialing.
GetFails(t) ==
    /\ pc[t] \in {"dialing", "hello"}
    /\ queue' = Tail(queue)
    /\ Goto(t, Unserved(t))
    /\ UNCHANGED <<tui, attempt, conn, seen, cached, established, redials, status, dialled,
                   dead, made>>

-----------------------------------------------------------------------------
(***************************************************************************)
(* Session::invalidate.  The cache is cleared under the lock, the status   *)
(* is published after it: set_state loads the redial count, then sends.    *)
(***************************************************************************)
\* Mutant: the connection found broken stays cached.
ClearNothing(t) ==
    /\ pc[t] = "clearing" /\ Holds(t)
    /\ queue' = Tail(queue)
    /\ Goto(t, "load")
    /\ UNCHANGED <<tui, attempt, conn, seen, cached, established, redials, status, dialled,
                   dead, made>>

Clear(t) ==
    /\ pc[t] = "clearing" /\ Holds(t)
    /\ cached' = {}
    /\ queue' = Tail(queue)
    /\ Goto(t, "load")
    /\ UNCHANGED <<tui, attempt, conn, seen, established, redials, status, dialled, dead,
                   made>>

Load(t) ==
    /\ pc[t] = "load"
    /\ seen' = [seen EXCEPT ![t] = redials]
    /\ Goto(t, "publish")
    /\ UNCHANGED <<tui, attempt, conn, sessionVars, dialled, dead, made>>

\* The first failure of a local connection is retried, the second is not.
RetryOnce(t) ==
    IF t = "watcher"
    THEN Goto(t, IF Ended THEN "returned" ELSE "get") /\ UNCHANGED attempt
    ELSE /\ Goto(t, IF attempt[t] = 0 THEN "get" ELSE "closed")
         /\ attempt' = [attempt EXCEPT ![t] = 1]

\* Mutant: invalidate does not tell anyone.
PublishNothing(t) ==
    /\ pc[t] = "publish"
    /\ seen' = [seen EXCEPT ![t] = 0]
    /\ RetryOnce(t)
    /\ UNCHANGED <<tui, conn, sessionVars, dialled, dead, made>>

Publish(t) ==
    /\ pc[t] = "publish"
    /\ status' = [state |-> "reconnecting", redials |-> seen[t]]
    /\ seen' = [seen EXCEPT ![t] = 0]
    /\ RetryOnce(t)
    /\ UNCHANGED <<tui, conn, queue, cached, established, redials, dialled, dead, made>>

-----------------------------------------------------------------------------
(***************************************************************************)
(* handle_local.  open_bi has no deadline: at the stream limit it waits    *)
(* until another stream of the connection ends, or until it is lost.       *)
(***************************************************************************)
StreamsOf(k) == {u \in Locals : conn[u] = k /\ pc[u] \in {"reply", "relay"}}

Accept(t) ==
    /\ pc[t] = "idle" /\ pc["main"] = "run"
    /\ Goto(t, "get")
    /\ UNCHANGED <<tui, attempt, conn, seen, sessionVars, dialled, dead, made>>

Request(t) ==
    /\ pc[t] = "open"
    /\ Live(conn[t])
    /\ Cardinality(StreamsOf(conn[t])) < MaxStreams
    /\ Goto(t, "reply")
    /\ UNCHANGED <<tui, attempt, conn, seen, sessionVars, dialled, dead, made>>

\* open_bi, write_frame or read_frame failed.  The last also fails on a live
\* connection: the daemon closes a stream without a reply, or the deadline
\* inside read_frame is polled before the equal one around it.
RequestFails(t) ==
    /\ \/ pc[t] = "open" /\ ~Live(conn[t])
       \/ pc[t] = "reply"
    /\ Goto(t, "invalidate")
    /\ UNCHANGED <<tui, attempt, conn, seen, sessionVars, dialled, dead, made>>

ReplyOk(t) ==
    /\ pc[t] = "reply" /\ Live(conn[t])
    /\ Goto(t, "relay")
    /\ UNCHANGED <<tui, attempt, conn, seen, sessionVars, dialled, dead, made>>

\* DENY, a frame that is no reply, or no answer in time.
ReplyRefused(t) ==
    /\ pc[t] = "reply"
    /\ Goto(t, "closed")
    /\ UNCHANGED <<tui, attempt, conn, seen, sessionVars, dialled, dead, made>>

RelayEnds(t) ==
    /\ pc[t] = "relay"
    /\ Goto(t, "closed")
    /\ UNCHANGED <<tui, attempt, conn, seen, sessionVars, dialled, dead, made>>

-----------------------------------------------------------------------------
(***************************************************************************)
(* The path watch, and run itself.                                         *)
(***************************************************************************)
\* The task starts with its first get; in TUI mode every tick asks again.
Tick ==
    /\ \/ pc["watcher"] = "idle" /\ pc["main"] = "run"
       \/ pc["watcher"] = "rest" /\ redials < MaxRedials
    /\ Goto("watcher", "get")
    /\ UNCHANGED <<tui, attempt, conn, seen, sessionVars, dialled, dead, made>>

\* Mutant: the watch of a lost connection just ends.
PathsEndUnnoticed ==
    /\ pc["watcher"] = "watching" /\ ~Live(conn["watcher"])
    /\ Goto("watcher", "returned")
    /\ UNCHANGED <<tui, attempt, conn, seen, sessionVars, dialled, dead, made>>

\* The path events of the watched connection end with it.
PathsEnd ==
    /\ pc["watcher"] = "watching" /\ ~Live(conn["watcher"])
    /\ Goto("watcher", "invalidate")
    /\ UNCHANGED <<tui, attempt, conn, seen, sessionVars, dialled, dead, made>>

Validate ==
    /\ pc["main"] = "validate"
    /\ \/ Live(conn["main"]) /\ Goto("main", "run")
       \/ Goto("main", "ended")
    /\ UNCHANGED <<tui, attempt, conn, seen, sessionVars, dialled, dead, made>>

\* The lock's queue when a task that holds it or waits for it is dropped.
Without(t) ==
    IF \A k \in 1 .. Len(queue) : queue[k] # t
    THEN queue
    ELSE LET at == CHOOSE k \in 1 .. Len(queue) : queue[k] = t
         IN  [k \in 1 .. Len(queue) - 1 |-> queue[IF k < at THEN k ELSE k + 1]]

\* The watcher is aborted at its next await, which gives the lock back; the
\* endpoint closes every connection.  The local tasks are on their own.
Stop ==
    /\ pc["main"] = "run"
    /\ pc' = [pc EXCEPT !["main"] = "ended",
                        !["watcher"] = IF @ \in {"load", "publish"} THEN @ ELSE "returned"]
    /\ queue' = Without("watcher")
    /\ dead' = 1 .. dialled
    /\ UNCHANGED <<tui, attempt, conn, seen, cached, established, redials, status, dialled,
                   made>>

Lose(k) ==
    /\ k \notin dead
    /\ dead' = dead \cup {k}
    /\ UNCHANGED <<tui, pc, attempt, conn, seen, sessionVars, dialled, made>>

-----------------------------------------------------------------------------
Get(t) ==
    \/ Lock(t) \/ GetCached(t) \/ StartDial(t) \/ DialOk(t) \/ HelloOk(t) \/ GetFails(t)

Invalidate(t) == Clear(t) \/ Load(t) \/ Publish(t)

Local(t) == Request(t) \/ RequestFails(t) \/ ReplyOk(t) \/ ReplyRefused(t)

Steps ==
    \/ \E t \in Tasks : Get(t) \/ Invalidate(t)
    \/ \E t \in Locals : Local(t) \/ Accept(t) \/ RelayEnds(t)
    \/ Tick \/ PathsEnd \/ Validate \/ Stop
    \/ \E k \in 1 .. dialled : Lose(k)

\* The process ends some time after run has returned.
Finished == Ended /\ UNCHANGED vars

Next == Steps \/ Finished

Spec == Init /\ [][Next]_vars

(***************************************************************************)
(* Tasks are scheduled; a dial, the hello and a reply end by themselves or *)
(* by their deadline.  Nothing is assumed of the network, of the peers     *)
(* that keep a relay open, or of the user who stops the program.           *)
(***************************************************************************)
Fairness ==
    /\ \A t \in Tasks : WF_vars(Get(t)) /\ WF_vars(Invalidate(t))
    /\ \A t \in Locals : WF_vars(Local(t))
    /\ WF_vars(PathsEnd) /\ WF_vars(Validate)

FairSpec == Spec /\ Fairness

-----------------------------------------------------------------------------
Points ==
    {"idle", "get", "queued", "dialing", "hello", "invalidate", "clearing", "load",
     "publish", "open", "reply", "relay", "closed", "rest", "watching", "returned",
     "validate", "run", "ended"}

States == [state : {"dialing", "established", "reconnecting"}, redials : Nat]

\* Type invariant of the session and of the tasks that share it.
TypeOK ==
    /\ tui \in BOOLEAN
    /\ pc \in [Tasks -> Points]
    /\ attempt \in [Locals -> {0, 1}]
    /\ conn \in [Tasks -> SUBSET (1 .. dialled)]
    /\ seen \in [Tasks -> Nat]
    /\ queue \in Seq(Tasks)
    /\ cached \subseteq 1 .. dialled
    /\ established \in BOOLEAN
    /\ redials \in Nat
    /\ status \in States
    /\ dialled \in 0 .. MaxConns
    /\ dead \subseteq 1 .. dialled
    /\ made \in Nat

\* "we re-dial once here" (connect.rs:514): the second attempt of a local
\* connection never works with the connection its first attempt found
\* broken, whatever the other tasks cached or dropped in between.
RetryIsFresh ==
    [][\A t \in Locals : attempt[t] = 1 /\ pc'[t] = "open" /\ pc[t] # "open" =>
          conn'[t] # conn[t]]_vars

\* The redial counter of the status line accounts for every connection after
\* the first one, whoever makes it and however often the session is dropped.
RedialsCountReconnects == made <= redials + 1

\* The status says established only while there is a cached connection, or
\* the task that dropped it is about to publish that.
EstablishedIsHeld ==
    status.state = "established" =>
        cached # {} \/ \E t \in Tasks : pc[t] \in {"load", "publish"}

\* Every accepted TCP connection is relayed or closed, without waiting for
\* good on the session's lock, a dial or a reply; only a connection that is
\* at its stream limit makes it wait (docs/design.md:331).
EveryLocalAnswered ==
    \A t \in Locals : (pc[t] = "get") ~>
        \/ pc[t] \in {"relay", "closed"}
        \/ pc[t] = "open" /\ Cardinality(StreamsOf(conn[t])) = MaxStreams

\* A connection that is lost while the watcher follows it is not handed out
\* for good: the watcher drops it (connect.rs:319) without waiting for a
\* local connection to find it broken.
WatchedLossIsNoticed ==
    (pc["watcher"] = "watching" /\ ~Live(conn["watcher"])) ~> (cached \cap dead = {} \/ Ended)

=============================================================================

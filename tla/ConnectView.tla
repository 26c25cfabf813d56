---------------------------- MODULE ConnectView ----------------------------
(***************************************************************************)
(* What tmite connect shows: run in tmite-core/src/client/connect.rs, the  *)
(* registry of local connections and the view model it feeds               *)
(* (client/model.rs), and the terminal task (tmite/src/tui.rs) that        *)
(* connect_cmd in tmite/src/main.rs starts and waits for.                  *)
(*                                                                         *)
(* Everything the terminal task knows comes over one unbounded channel,    *)
(* which closes when its last sender is dropped.  run, the byte tick and   *)
(* every local connection hold senders; a local connection has a task of   *)
(* its own that run neither aborts nor waits for.                          *)
(*                                                                         *)
(* Simplifications.  One byte counter stands for the two of a connection.  *)
(* Status and path events replace a value as a whole and are left out, as  *)
(* is drawing.  Removing a connection from the registry and announcing it  *)
(* are one step: only the byte tick reads the registry, and its events     *)
(* may come later than both.                                               *)
(***************************************************************************)
EXTENDS Naturals, Sequences, FiniteSets, FiniteSetsExt, Functions

CONSTANTS
    Locals,    \* accepted TCP connections, in the order of their ids
    MaxBytes,  \* bound: bytes relayed by one of them
    MaxQueue   \* bound: events waiting for which the byte tick rests

ASSUME ViewAssumption ==
    IsFiniteSet(Locals) /\ MaxBytes \in Nat /\ MaxQueue \in Nat

VARIABLES
    run,       \* where connect::run stands
    tui,       \* the terminal task is on
    chan,      \* events on their way to it
    local,     \* where a local connection stands
    started,   \* ConnHandle::started
    bytes,     \* ConnHandle::tx
    tick,      \* where the byte tick stands
    held,      \* the snapshot it has still to send
    forwards,  \* ConnectModel::forwards has been set
    rows,      \* ConnectModel::connections: the bytes of a row
    total,     \* ConnectModel::total_tx
    closed     \* ConnectModel::closed_total

modelVars == <<forwards, rows, total, closed>>
localVars == <<local, started, bytes>>
vars == <<run, tui, chan, localVars, tick, held, modelVars>>

\* An Option is a set: empty, or with one element.
Init ==
    /\ run = "start"
    /\ tui = TRUE
    /\ chan = << >>
    /\ local = [c \in Locals |-> "idle"]
    /\ started = [c \in Locals |-> FALSE]
    /\ bytes = [c \in Locals |-> 0]
    /\ tick = "off" /\ held = {}
    /\ forwards = FALSE
    /\ rows = [c \in Locals |-> {}]
    /\ total = 0 /\ closed = 0

\* Mutant: events pile up when nobody receives them any more.
SendRegardless(event) == chan' = Append(chan, event)

\* Sending fails, and nobody minds, once the receiver is gone.
Send(event) == chan' = IF tui THEN Append(chan, event) ELSE chan

Become(c, point) == local' = [local EXCEPT ![c] = point]

-----------------------------------------------------------------------------
(***************************************************************************)
(* connect::run.                                                           *)
(***************************************************************************)
Announce ==
    /\ run = "start"
    /\ Send([type |-> "forwards"])
    /\ run' = "setup"
    /\ UNCHANGED <<tui, localVars, tick, held, modelVars>>

\* The store, the endpoint, a listener, the server or a forward fails.
RunFails ==
    /\ run \in {"start", "setup"}
    /\ run' = "ended"
    /\ UNCHANGED <<tui, chan, localVars, tick, held, modelVars>>

\* The tasks are spawned.
RunStarts ==
    /\ run = "setup"
    /\ run' = "started"
    /\ tick' = "select"
    /\ UNCHANGED <<tui, chan, localVars, held, modelVars>>

\* From here on run hears of a shutdown.
RunWaits ==
    /\ run = "started"
    /\ run' = "waiting"
    /\ UNCHANGED <<tui, chan, localVars, tick, held, modelVars>>

\* SIGINT from outside the terminal.
Interrupt ==
    /\ run = "waiting"
    /\ run' = "woken"
    /\ UNCHANGED <<tui, chan, localVars, tick, held, modelVars>>

\* The tasks are aborted: the byte tick ends at its next await.
Stop ==
    /\ run = "woken"
    /\ run' = "ended"
    /\ tick' = IF tick = "select" THEN "gone" ELSE tick
    /\ UNCHANGED <<tui, chan, localVars, held, modelVars>>

-----------------------------------------------------------------------------
(***************************************************************************)
(* handle_local and ConnRegistry.  The entry is removed when the task      *)
(* ends, on whatever path.                                                 *)
(***************************************************************************)
Create(c) ==
    /\ run \in {"started", "waiting", "woken"}
    /\ local[c] = "idle"
    /\ Become(c, "created")
    /\ UNCHANGED <<run, tui, chan, started, bytes, tick, held, modelVars>>

\* admit sets the flag, then announces the connection.
Admit(c) ==
    /\ local[c] = "created"
    /\ started' = [started EXCEPT ![c] = TRUE]
    /\ Become(c, "admitted")
    /\ UNCHANGED <<run, tui, chan, bytes, tick, held, modelVars>>

Opened(c) ==
    /\ local[c] = "admitted"
    /\ Send([type |-> "opened", id |-> c])
    /\ Become(c, "relaying")
    /\ UNCHANGED <<run, tui, started, bytes, tick, held, modelVars>>

Relay(c) ==
    /\ local[c] = "relaying"
    /\ bytes[c] < MaxBytes
    /\ bytes' = [bytes EXCEPT ![c] = @ + 1]
    /\ UNCHANGED <<run, tui, chan, local, started, tick, held, modelVars>>

\* Denied, unreachable, or relayed to the end.
Close(c) ==
    /\ local[c] \in {"created", "relaying"}
    /\ Send([type |-> "closed", id |-> c])
    /\ Become(c, "closed")
    /\ UNCHANGED <<run, tui, started, bytes, tick, held, modelVars>>

-----------------------------------------------------------------------------
(***************************************************************************)
(* The byte tick: a snapshot under the registry's lock, sent without it.   *)
(***************************************************************************)
snapshot ==
    {[type |-> "bytes", id |-> c, n |-> bytes[c]] :
        c \in {d \in Locals : started[d] /\ local[d] # "closed"}}

TickReads ==
    /\ tick = "select"
    /\ Len(chan) < MaxQueue
    /\ snapshot # {}
    /\ held' = snapshot
    /\ tick' = "send"
    /\ UNCHANGED <<run, tui, chan, localVars, modelVars>>

\* Mutant: run leaves the byte tick alone.
TickSendsUnaborted ==
    /\ tick = "send"
    /\ \E event \in held :
         /\ Send(event)
         /\ held' = IF tui THEN held \ {event} ELSE {}
    /\ tick' = CASE ~tui -> "gone" [] held' # {} -> "send" [] OTHER -> "select"
    /\ UNCHANGED <<run, tui, localVars, modelVars>>

TickSends ==
    /\ tick = "send"
    /\ \E event \in held :
         /\ Send(event)
         /\ held' = IF tui THEN held \ {event} ELSE {}
    /\ tick' = CASE held' # {} -> "send"
                 [] held' = {} /\ (run = "ended" \/ ~tui) -> "gone"
                 [] OTHER -> "select"
    /\ UNCHANGED <<run, tui, localVars, modelVars>>

-----------------------------------------------------------------------------
(***************************************************************************)
(* ConnectModel::apply and the loop of the terminal task.                  *)
(***************************************************************************)
apply_forwards ==
    /\ forwards' = TRUE
    /\ UNCHANGED <<rows, total, closed>>

apply_opened(c) ==
    /\ rows' = IF forwards THEN [rows EXCEPT ![c] = {0}] ELSE rows
    /\ UNCHANGED <<forwards, total, closed>>

\* Mutants: counters are added up, or make a row when there is none.
apply_bytes_adding(c, n) ==
    /\ rows' = [rows EXCEPT ![c] = {m + n : m \in @}]
    /\ UNCHANGED <<forwards, total, closed>>

apply_bytes_always(c, n) ==
    /\ rows' = [rows EXCEPT ![c] = {n}]
    /\ UNCHANGED <<forwards, total, closed>>

apply_bytes(c, n) ==
    /\ rows' = [rows EXCEPT ![c] = IF @ = {} THEN {} ELSE {n}]
    /\ UNCHANGED <<forwards, total, closed>>

\* Mutant: the bytes of a row are dropped with it.
apply_closed_only(c) ==
    /\ rows' = [rows EXCEPT ![c] = {}]
    /\ closed' = closed + 1
    /\ UNCHANGED <<forwards, total>>

apply_closed(c) ==
    /\ total' = total + SumSet(rows[c])
    /\ rows' = [rows EXCEPT ![c] = {}]
    /\ closed' = closed + 1
    /\ UNCHANGED forwards

apply(event) ==
    \/ event.type = "forwards" /\ apply_forwards
    \/ event.type = "opened" /\ apply_opened(event.id)
    \/ event.type = "bytes" /\ apply_bytes(event.id, event.n)
    \/ event.type = "closed" /\ apply_closed(event.id)

Receive ==
    /\ tui /\ chan # << >>
    /\ chan' = Tail(chan)
    /\ apply(Head(chan))
    /\ UNCHANGED <<run, tui, localVars, tick, held>>

\* recv returns None: all senders are dropped and nothing is left to receive.
SendersDropped ==
    /\ run = "ended"
    /\ tick \in {"off", "gone"}
    /\ \A c \in Locals : local[c] \in {"idle", "closed"}

TuiEnds ==
    /\ tui /\ chan = << >> /\ SendersDropped
    /\ tui' = FALSE
    /\ UNCHANGED <<run, chan, localVars, tick, held, modelVars>>

\* notify_waiters wakes whoever waits now: run and the byte tick, if they do.
Quit ==
    /\ tui
    /\ tui' = FALSE
    /\ chan' = << >>
    /\ run' = IF run = "waiting" THEN "woken" ELSE run
    /\ tick' = IF tick = "select" THEN "gone" ELSE tick
    /\ UNCHANGED <<localVars, held, modelVars>>

-----------------------------------------------------------------------------
Run == Announce \/ RunFails \/ RunStarts \/ RunWaits \/ Stop

Local(c) == Create(c) \/ Admit(c) \/ Opened(c) \/ Relay(c) \/ Close(c)

Terminal == Receive \/ TuiEnds

\* connect_cmd returns once both run and the terminal task have.
Next ==
    /\ run # "ended" \/ tui
    /\ \/ Run \/ Interrupt
       \/ \E c \in Locals : Local(c)
       \/ TickReads \/ TickSends
       \/ Terminal \/ Quit

Spec == Init /\ [][Next]_vars

\* Tasks are scheduled; a local connection, the user and signals are free.
Fairness ==
    /\ WF_vars(Run) /\ WF_vars(TickSends) /\ WF_vars(Terminal)
    /\ \A c \in Locals : WF_vars(Opened(c))

FairSpec == Spec /\ Fairness

-----------------------------------------------------------------------------
Events ==
    [type : {"forwards"}] \cup [type : {"opened", "closed"}, id : Locals]
      \cup [type : {"bytes"}, id : Locals, n : 0 .. MaxBytes]

\* Type invariant of run, the registry, the channel and the view model.
TypeOK ==
    /\ run \in {"start", "setup", "started", "waiting", "woken", "ended"}
    /\ tui \in BOOLEAN /\ forwards \in BOOLEAN
    /\ chan \in IF tui THEN Seq(Events) ELSE {<< >>}
    /\ held \subseteq Events
    /\ local \in [Locals -> {"idle", "created", "admitted", "relaying", "closed"}]
    /\ started \in [Locals -> BOOLEAN]
    /\ bytes \in [Locals -> 0 .. MaxBytes]
    /\ tick \in {"off", "select", "send", "gone"}
    /\ rows \in [Locals -> SUBSET Nat]
    /\ total \in Nat /\ closed \in 0 .. Cardinality(Locals)

Pending(type) == {e.id : e \in {chan[i] : i \in {j \in DOMAIN chan : chan[j].type = type}}}

\* The view is the registry as of the events received: a connection has a row
\* from its announcement to its closure and never afterwards, although byte
\* counts may come before the one and after the other, and every connection
\* that ends, "failed/denied dials" too (model.rs:256), is counted once.
ViewFollowsRegistry ==
    tui =>
        /\ \A c \in Locals :
              (rows[c] # {}) <=>
                  /\ started[c] /\ local[c] # "admitted"
                  /\ c \notin Pending("opened")
                  /\ local[c] = "closed" => c \in Pending("closed")
        /\ closed + Cardinality(Pending("closed"))
             = Cardinality({c \in Locals : local[c] = "closed"})

Shown == total + SumFunction([c \in Locals |-> SumSet(rows[c])])

\* The summary's byte total is never more than was relayed: it "undercounts"
\* (model.rs:80).
NeverOverstated == Shown <= SumFunction(bytes)

\* A byte total on the screen never goes back, not when a connection closes
\* and not when a snapshot taken earlier is received late.
TotalsOnlyGrow == [][Shown' >= Shown]_vars

\* "All senders dropped: connect::run has finished" (tui.rs:75), the other way
\* round: when run has returned, by an early error too, and no local
\* connection is left, the terminal task ends and the terminal is restored.
ScreenIsRestored == (run = "ended" /\ \A c \in Locals : local[c] \in {"idle", "closed"}) ~> ~tui

=============================================================================

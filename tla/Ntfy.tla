-------------------------------- MODULE Ntfy --------------------------------
(***************************************************************************)
(* Push notifications: the drain task of tmite-core/src/daemon/notify.rs   *)
(* with its cooldown, the ntfy.* requests that manage ntfy.toml, and the   *)
(* IPC server that carries them (daemon/ipc.rs) while the daemon runs      *)
(* (daemon/mod.rs).                                                        *)
(*                                                                         *)
(* Every request comes from a command of its own over a connection of its  *)
(* own (ipc_call in tmite/src/main.rs) and is served by a task of its own, *)
(* on another thread than the drain task.  File operations are not awaited *)
(* but do run side by side: ntfy.toml is read in one step and replaced in  *)
(* three (TmpFile).                                                        *)
(*                                                                         *)
(* Simplifications.  A notification is its (kind, subject) pair; the topic *)
(* an enable generates is the request itself.  Time since an event is      *)
(* counted up to the cooldown.  Requests are well-formed lines; peer.* and *)
(* daemon.* requests other than daemon.stop are in the other modules.      *)
(***************************************************************************)
EXTENDS Naturals, Sequences

CONSTANTS
    Requests,     \* admin commands
    Methods,      \* the methods each one may call
    Keys,         \* (kind, subject) pairs of notifications
    Cooldown,     \* COOLDOWN
    SendTimeout,  \* SEND_TIMEOUT
    MaxEvents,    \* bound: notifications sent
    MaxRestarts   \* bound: times the daemon is started again

ASSUME NtfyAssumption ==
    /\ Methods \in [Requests -> SUBSET {"enable", "disable", "status", "test", "stop"}]
    /\ Cooldown \in Nat \ {0}
    /\ SendTimeout \in Nat
    /\ MaxEvents \in Nat /\ MaxRestarts \in Nat

VARIABLES
    running,   \* the daemon runs
    stopping,  \* stop_tx was used
    restarts,  \* how often it was started again
    rpc,       \* where a request stands
    answer,    \* its reply
    queue,     \* notifications sent to the drain task
    events,    \* how many there were
    since,     \* Cooldown::last, as the time since then
    posting,   \* the notification being posted, and to which topic
    elapsed,   \* for how long
    file, tmp, open, data,  \* ntfy.toml, as in TmpFile
    sincePost, \* history: time since a notification was last posted
    clash,     \* history: two enables were between load and rename at once
    void       \* history: enables that a later disable has undone

diskVars == <<file, tmp, open, data>>
drainVars == <<queue, events, since, posting, elapsed, sincePost>>
ntfyVars == <<running, stopping, restarts, rpc, answer, drainVars, diskVars, clash, void>>

Disk == INSTANCE TmpFile WITH Writers <- Requests

\* An Option is a set: empty, or with one element.
NtfyInit ==
    /\ running = TRUE /\ stopping = FALSE /\ restarts = 0
    /\ rpc = [r \in Requests |-> "idle"]
    /\ answer = [r \in Requests |-> {}]
    /\ queue = << >> /\ events = 0
    /\ since = [k \in Keys |-> Cooldown]
    /\ posting = {} /\ elapsed = 0
    /\ Disk!NoFile
    /\ sincePost = [k \in Keys |-> Cooldown]
    /\ clash = FALSE /\ void = {}

Goto(r, point) == rpc' = [rpc EXCEPT ![r] = point]

-----------------------------------------------------------------------------
(***************************************************************************)
(* ipc_call, serve, handle_conn and dispatch.                              *)
(***************************************************************************)
\* The command connects and sends its line, for which a task is spawned, or
\* it finds no daemon.
ipc_call(r) ==
    /\ rpc[r] = "idle"
    /\ \E m \in Methods[r] : Goto(r, IF running THEN m ELSE "cut")
    /\ UNCHANGED <<running, stopping, restarts, answer, drainVars, diskVars, clash, void>>

\* The task's result is queued for the connection's writer.
Respond(r, result) ==
    /\ Goto(r, "reply")
    /\ answer' = [answer EXCEPT ![r] = {result}]

\* The writer sends the reply, then the connection closes.
Deliver(r) ==
    /\ running /\ rpc[r] = "reply"
    /\ Goto(r, "done")
    /\ UNCHANGED <<running, stopping, restarts, answer, drainVars, diskVars, clash, void>>

\* daemon.stop: the signal is sent before the reply.
Stop(r) ==
    /\ running /\ rpc[r] = "stop"
    /\ stopping' = TRUE
    /\ Respond(r, "ok")
    /\ UNCHANGED <<running, restarts, drainVars, diskVars, clash, void>>

\* run returns on daemon.stop or Ctrl-C.  Every task ends with the process,
\* the cooldown is forgotten and replies not yet sent are lost.
Shutdown ==
    /\ running
    /\ running' = FALSE /\ stopping' = FALSE
    /\ LET ended(r) == rpc[r] \in {"idle", "done"} IN
         /\ rpc' = [r \in Requests |-> IF ended(r) THEN rpc[r] ELSE "cut"]
         /\ answer' = [r \in Requests |-> IF ended(r) THEN answer[r] ELSE {}]
    /\ queue' = << >> /\ posting' = {} /\ elapsed' = 0
    /\ since' = [k \in Keys |-> Cooldown]
    /\ sincePost' = [k \in Keys |-> Cooldown]
    /\ open' = [r \in Requests |-> {}]
    /\ UNCHANGED <<restarts, events, file, tmp, data, clash, void>>

\* run is called again; the files are as they were left.
Start ==
    /\ ~running
    /\ restarts < MaxRestarts
    /\ restarts' = restarts + 1
    /\ running' = TRUE
    /\ UNCHANGED <<stopping, rpc, answer, drainVars, diskVars, clash, void>>

-----------------------------------------------------------------------------
(***************************************************************************)
(* The ntfy.* requests.  Between its load and its rename an enable is in   *)
(* its window.                                                             *)
(***************************************************************************)
InWindow(r) == rpc[r] \in {"create", "write", "rename"}

\* NtfyConfig::load.  A text is the Option of a topic it parses to.
Config == UNION Disk!Text
Unreadable == file # {} /\ Config = {}

\* All topics have one length: written over another one, a text has its own
\* topic, and if something else goes on after it, it may not parse.
Over(r) == {{r}} \cup (IF Disk!Under(r) = {} THEN {} ELSE {{}})

\* Already enabled, a server that is no URL, or a file that does not parse.
EnableRefused(r) ==
    /\ running /\ rpc[r] = "enable"
    /\ \/ Config # {} /\ Respond(r, "refused")
       \/ Respond(r, "invalid")
       \/ Unreadable /\ Respond(r, "error")
    /\ UNCHANGED <<running, stopping, restarts, drainVars, diskVars, clash, void>>

\* Mutant: an enable replaces the topic in use.
EnableUnchecked(r) ==
    /\ running /\ rpc[r] = "enable"
    /\ Goto(r, "create")
    /\ UNCHANGED <<running, stopping, restarts, answer, drainVars, diskVars, clash, void>>

EnableChecked(r) ==
    /\ running /\ rpc[r] = "enable"
    /\ file = {}
    /\ Goto(r, "create")
    /\ clash' = (clash \/ \E q \in Requests : InWindow(q))
    /\ UNCHANGED <<running, stopping, restarts, answer, drainVars, diskVars, void>>

EnableCreates(r) ==
    /\ running /\ rpc[r] = "create"
    /\ Disk!CreateTmp(r)
    /\ Goto(r, "write")
    /\ UNCHANGED <<running, stopping, restarts, answer, drainVars, clash, void>>

EnableWrites(r) ==
    /\ running /\ rpc[r] = "write"
    /\ \E text \in Over(r) : Disk!WriteTmp(r, text)
    /\ Goto(r, "rename")
    /\ UNCHANGED <<running, stopping, restarts, answer, drainVars, clash, void>>

EnableRenames(r) ==
    /\ running /\ rpc[r] = "rename"
    /\ IF Disk!Renamable
       THEN Disk!RenameTmp /\ Respond(r, "enabled")
       ELSE UNCHANGED diskVars /\ Respond(r, "error")
    /\ UNCHANGED <<running, stopping, restarts, drainVars, clash, void>>

Disable(r) ==
    /\ running /\ rpc[r] = "disable"
    /\ Disk!RemoveFile
    /\ Respond(r, IF file = {} THEN "absent" ELSE "ok")
    /\ void' = void \cup {q \in Requests : answer[q] = {"enabled"}}
    /\ UNCHANGED <<running, stopping, restarts, drainVars, clash>>

\* ntfy.toml or its directory cannot be written.
FileFails(r) ==
    /\ running /\ (InWindow(r) \/ rpc[r] = "disable")
    /\ Respond(r, "error")
    /\ UNCHANGED <<running, stopping, restarts, drainVars, diskVars, clash, void>>

\* Mutant: a file that does not parse ends the task without a reply.
StatusPanics(r) ==
    /\ running /\ rpc[r] = "status"
    /\ ~Unreadable
    /\ Respond(r, IF file = {} THEN "off" ELSE "on")
    /\ UNCHANGED <<running, stopping, restarts, drainVars, diskVars, clash, void>>

Status(r) ==
    /\ running /\ rpc[r] = "status"
    /\ Respond(r, IF Unreadable THEN "error" ELSE IF file = {} THEN "off" ELSE "on")
    /\ UNCHANGED <<running, stopping, restarts, drainVars, diskVars, clash, void>>

Test(r) ==
    /\ running /\ rpc[r] = "test"
    /\ IF Config = {}
       THEN Respond(r, IF file = {} THEN "refused" ELSE "error")
       ELSE Goto(r, "testing") /\ UNCHANGED answer
    /\ UNCHANGED <<running, stopping, restarts, drainVars, diskVars, clash, void>>

\* The test notification is posted, refused by the server, or out of time.
TestEnds(r) ==
    /\ running /\ rpc[r] = "testing"
    /\ \E result \in {"ok", "error"} : Respond(r, result)
    /\ UNCHANGED <<running, stopping, restarts, drainVars, diskVars, clash, void>>

-----------------------------------------------------------------------------
(***************************************************************************)
(* The event sources and the drain task.  Admitting a notification,        *)
(* loading the configuration and starting the post are not separated by an *)
(* await.                                                                  *)
(***************************************************************************)
Notify(k) ==
    /\ running
    /\ events < MaxEvents
    /\ events' = events + 1
    /\ queue' = Append(queue, k)
    /\ UNCHANGED <<running, stopping, restarts, rpc, answer, since, posting, elapsed, sincePost,
                   diskVars, clash, void>>

\* Mutant: a notification is admitted without being recorded.
admit_unrecorded(k) == since[k] >= Cooldown /\ UNCHANGED since

admit(k) == since[k] >= Cooldown /\ since' = [since EXCEPT ![k] = 0]

\* The cooldown is over: the notification is posted, or dropped if there is
\* no configuration or it does not parse.
Take ==
    /\ running /\ posting = {} /\ queue # << >>
    /\ queue' = Tail(queue)
    /\ admit(Head(queue))
    /\ posting' = {[key |-> Head(queue), topic |-> t] : t \in Config}
    /\ sincePost' = IF posting' = {} THEN sincePost ELSE [sincePost EXCEPT ![Head(queue)] = 0]
    /\ UNCHANGED <<running, stopping, restarts, rpc, answer, events, elapsed, diskVars, clash, void>>

Suppress ==
    /\ running /\ posting = {} /\ queue # << >>
    /\ since[Head(queue)] < Cooldown
    /\ queue' = Tail(queue)
    /\ UNCHANGED <<running, stopping, restarts, rpc, answer, events, since, posting, elapsed, sincePost,
                   diskVars, clash, void>>

\* Mutant: a failed post is tried again.
PostEndsIfAccepted ==
    /\ running /\ posting # {}
    /\ \E p \in posting : p.topic \in Config
    /\ posting' = {} /\ elapsed' = 0
    /\ UNCHANGED <<running, stopping, restarts, rpc, answer, queue, events, since, sincePost,
                   diskVars, clash, void>>

\* The server has it, or it is given up: a failure is only logged.
PostEnds ==
    /\ running /\ posting # {}
    /\ posting' = {} /\ elapsed' = 0
    /\ UNCHANGED <<running, stopping, restarts, rpc, answer, queue, events, since, sincePost,
                   diskVars, clash, void>>

Older(age) == IF age < Cooldown THEN age + 1 ELSE age

TimePasses ==
    /\ running
    /\ posting # {} => elapsed < SendTimeout
    /\ elapsed' = IF posting = {} THEN 0 ELSE elapsed + 1
    /\ since' = [k \in Keys |-> Older(since[k])]
    /\ sincePost' = [k \in Keys |-> Older(sincePost[k])]
    /\ UNCHANGED <<running, stopping, restarts, rpc, answer, queue, events, posting, diskVars,
                   clash, void>>

-----------------------------------------------------------------------------
Enable(r) ==
    \/ EnableRefused(r) \/ EnableChecked(r) \/ EnableCreates(r) \/ EnableWrites(r)
    \/ EnableRenames(r)

Serve(r) ==
    \/ Deliver(r) \/ Stop(r) \/ Enable(r) \/ Disable(r) \/ FileFails(r)
    \/ Status(r) \/ Test(r) \/ TestEnds(r)

Drain == Take \/ Suppress \/ PostEnds

NtfyNext ==
    \/ \E r \in Requests : ipc_call(r) \/ Serve(r)
    \/ \E k \in Keys : Notify(k)
    \/ Drain \/ TimePasses \/ Shutdown \/ Start

NtfySpec == NtfyInit /\ [][NtfyNext]_ntfyVars

\* Tasks are scheduled and a post ends by its deadline; a daemon that was told
\* to stop stops.
Fairness ==
    /\ \A r \in Requests : WF_ntfyVars(Serve(r))
    /\ WF_ntfyVars(Drain)
    /\ WF_ntfyVars(stopping /\ Shutdown)

FairSpec == NtfySpec /\ Fairness

-----------------------------------------------------------------------------
\* Type invariant of the drain task, the requests and ntfy.toml.
NtfyTypeOK ==
    /\ running \in BOOLEAN /\ stopping \in BOOLEAN /\ restarts \in 0 .. MaxRestarts
    /\ rpc \in [Requests -> {"idle", "enable", "disable", "status", "test", "stop",
                             "create", "write", "rename", "testing", "reply", "done", "cut"}]
    /\ answer \in [Requests -> SUBSET {"ok", "enabled", "refused", "invalid", "error", "absent",
                                       "on", "off"}]
    /\ queue \in Seq(Keys) /\ events \in 0 .. MaxEvents
    /\ since \in [Keys -> 0 .. Cooldown] /\ sincePost \in [Keys -> 0 .. Cooldown]
    /\ posting \subseteq [key : Keys, topic : Requests] /\ elapsed \in 0 .. SendTimeout
    /\ file \in SUBSET Requests /\ tmp \in SUBSET Requests
    /\ open \in [Requests -> SUBSET Requests] /\ data \in [Requests -> SUBSET SUBSET Requests]
    /\ clash \in BOOLEAN /\ void \subseteq Requests

\* "Minimum spacing between two notifications with the same (event kind,
\* subject)" (notify.rs:20), counted between the moments they are posted.
PostsAreSpaced ==
    [][posting = {} => \A p \in posting' : sincePost[p.key] = Cooldown]_ntfyVars

\* "no silent topic rotation" (docs/design.md:609): the topic an enable has
\* returned is the one in ntfy.toml until a disable, unless two enables ran
\* at the same time; and ntfy.toml then always parses.
ToldTopicIsUsed ==
    ~clash =>
        /\ ~Unreadable
        /\ \A r \in Requests \ void :
              answer[r] = {"enabled"} => Config = {r}

\* Requests sent and not answered.
Waiting == {r \in Requests : rpc[r] \notin {"idle", "done", "cut"}}

\* Every request is answered, or its daemon is gone: a moment comes when none
\* is left waiting (dispatch replies on every path, daemon/ipc.rs:110).
EveryRequestAnswered == (Waiting # {}) ~> (Waiting = {})

\* No failed, slow or impossible post keeps later notifications from being
\* handled by drain (notify.rs:351).
EveryEventTaken == (queue # << >>) ~> (queue = << >>)

=============================================================================

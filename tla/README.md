# A verification of tmite

TLA+ specifications of tmite, the TLC configurations that check them on small
instances, and TLAPS proofs of the properties that matter most for every value
of the constants.

tmite forwards TCP connections through an iroh (QUIC) connection between a
client and a daemon.  An admin *invites* a client, compares its NodeId and
accepts it; the client is then a *peer*, and may forward to the targets the
admin *allows* it.

## The system and its parts

| part | source | what it keeps | who runs it |
|---|---|---|---|
| peer table | `daemon/state.rs` | peers, rules, `state.toml` | any task, under one lock |
| invite manager | `daemon/invite.rs` | pending invites; per invite a decision, a `Notify`, two channels, a pair slot, a reject delay | one serving task per invite, one handler task per connection |
| IPC server | `daemon/ipc.rs` | nothing of its own | one task per request |
| data plane | `daemon/main_ep.rs` | the reject delay of the main endpoint | one task per connection and per stream |
| session registry | `daemon/sessions.rs` | live connections, announced forwards, live counts | those tasks |
| byte relay | `daemon/main_ep.rs`, `client/connect.rs` | buffers | two pumps per stream |
| notifications | `daemon/notify.rs` | `ntfy.toml`, cooldowns | one draining task |
| daemon assembly | `daemon/mod.rs` | – | start and stop |
| admin terminal | `tmite/src/main.rs` | the prompt | one process per command |
| client session | `client/session.rs` | the cached connection, its published status | every local connection |
| connect command | `client/connect.rs` | listeners | one task per local connection, watchers |
| pair command | `client/pair.rs` | – | one process |
| client store | `fsio.rs` | `servers.toml`, key files | pair and connect |
| TUI model | `client/model.rs` | what is on the screen | events from those tasks |
| protocol | `tmite-proto`, `stream_io.rs`, `net.rs` | frames, codes, limits, endpoints | – |

Paths are relative to `src/tmite-core/src/` unless they start with a crate.
The parts interact in five places: the invite handlers and the data plane share
the peer table; the terminal and the invite share the IPC connection; client
and daemon exchange frames and then relayed bytes; the commands of a client
share the files of its data directory; everything reports to the notification
channel, which never blocks the sender.

## Modules

| module | models | role |
|---|---|---|
| `PeerTable` | `PersistedState` and what each `State` method computes | pure operators |
| `PeerStore` | `State`: memory, file, crash, restart, failing writes | state machine |
| `Pairing` | the promise of `peer.invite` | abstract specification |
| `Invite` | `InviteManager`, `invite_serve`, the pair handlers, the terminal | state machine |
| `DataPlane` | `DataPlaneHandler`, `handle_stream`, `Sessions`, with the table changing meanwhile | state machine |
| `ClientSession` | `Session`, `handle_local`, the path watch and `run` as the tasks that share it | state machine |
| `ConnectView` | `connect::run`, `ConnRegistry`, `ConnectModel::apply`, the terminal task | state machine |
| `ClientStore` | what `upsert`, `set_forwards` and the lookups compute | pure operators |
| `TmpFile` | a file replaced by writing a temporary one and renaming it, at the level of inodes | operators shared by `PairClient` and `Ntfy` |
| `PairClient` | the processes `tmite pair` and `tmite connect --save-defaults` over one data directory, and the daemon's verdict | state machine |
| `Pipe` | the promise of a forwarded connection: two byte streams with half-close | abstract specification |
| `Relay` | frames, `relay_local`, `relay` and `pump` over bounded transports | state machine |
| `Ntfy` | `Cooldown`, `drain`, `ntfy.toml`, `ntfy.*` and `daemon.stop`, stop and start of the daemon | state machine |
| `MC…` | – | instances for TLC |
| `PeerTableProofs` | – | lemmas about the operators of `PeerTable` |
| `DaemonFilesProofs` | – | proofs about the daemon's two files, `PeerStore` and `Ntfy` |
| `InviteProofs`, `DataPlaneProofs`, `ClientSessionProofs`, `ConnectViewProofs`, `PairClientProofs`, `RelayProofs` | – | proofs about those modules |

### PeerTable and PeerStore

A table is a sequence of peers and a set of rules.  The peers keep their order
because `peer_by_node` returns the first match; the order of the rules shows
only in the index that `peer.allow` prints.  Timestamps are dropped.  Each
mutating method is an operator that returns the new table, whether the method
goes on to `persist_locked`, and its reply.

`PeerStore` runs these operators.  One action is one whole call, reply
included, because the state lock is held throughout.  The write may succeed,
fail (memory keeps the change, as in the code), or the process may die before
or after the rename.  `Restart` is `State::load`.  A crash is one of the
process; the code does not `fsync`, so power failures are not modelled.

### Invite

| code | model |
|---|---|
| `InviteManager::create` | `CheckCreate`, `InsertEntry` (the lock is released in between) |
| `run_invite_endpoint` | `EndpointUp`, `EndpointFails` |
| the four branches of the biased `select!` in `invite_serve` | `TakeOutcome`, `TakeDecide`, `Deadline`, `TakeIncoming` |
| the inline sleep and handshake | `DelayOver`, `Handshake` |
| after the loop | `Flush`, `CloseEndpoint`, `Finish` |
| `finish`: the reply, and after the lock on the entries the removal | `finish`, `Leave` |
| `refuse_pair_busy` | `RefuseBusy` |
| `handle_pair_conn_inner` up to `PAIR_WAIT` | `HelloFails`, `HelloNameTaken`, `HelloOk` |
| its wait loop | `Listen`, `ReadDecision`, `ClientLeft`, `PromptTimeout` |
| its verdicts | `Denied`, `RecordOk`, `RecordFails`, `SendOutcome` |
| `handle_pair_conn` | `Release` |
| `invite_cmd` and `decide` | `Answer`; `IpcClose` when the terminal goes away |
| `peer.rm --force` | `Rm` |

`Dial` and `Vanish` are the clients and the network; `DeadlinePasses` is the
clock.  A step runs a task from one point where another task can be noticed to
the next: an `await` that only takes an uncontended lock for one assignment is
not such a point.  The wait for the ack of a verdict is the time between the
step that writes the verdict and the next step of the handler.

`Notify` is modelled by what tokio documents: `notify_waiters` wakes the
`Notified` futures that exist (handlers at `"waiting"`) and leaves no permit.

Left out: invite codes and key derivation (a connection is one that reached
the right endpoint); notifications, which are sent on an unbounded channel and
change nothing here; `Outcome::Cancelled`, which `invite_serve` cannot reach,
because the entry of the invite keeps a sender of the command channel and only
`invite_serve` closes the endpoint; the tasks between the socket and
`InviteManager::decide`, so two answers of one terminal are queued in the order
they were given.

`Pairing` says what all this is for: an invite registers at most one of the
clients that dial it and is answered once, and the answer *paired* names the
client it registered.  `Invite` implements it with the confirmed clients as
registrations and the result of `peer.invite` as the answer.

### DataPlane

| code | model |
|---|---|
| `accept`: lookup and first poll of the reject-delay lock | `Lookup` |
| its two ways on, each with the lock | `Reject`, `Admit` (`register` included) |
| `connection_loop` | `AcceptStream`; `LoopEnds` with `unregister` |
| the first frame in `handle_stream` | `NoFrame`, `Hello`, `Deny`, `Validate`, `Forward` |
| dial, the `OK`, the relay | `DialFails`, `Dialled`, `RelayEnds` |
| `add_peer`, `peer.allow`, `peer.revoke`, `peer.rm` | `Pair`, `Allow`, `Revoke`, `Remove` |

`Connect` and `Close` are the clients and the network.  tokio's mutex is fair,
so the tasks at the reject-delay lock form a queue, and the holder sleeps.  The
shape check of targets is the constant `WellFormed`; relaying is one state
(`Relay` has the rest); the cap on concurrent streams is QUIC's.  Three history
variables serve the properties: `latest`, the connection of a node that registered last; `grants`,
every target the admin allowed with the node it was allowed to; and `orphans`,
the connections whose peer was removed under them.  An orphan keeps the name it
was authenticated as: the design calls the peer record "immutable for the
connection's life" (`docs/design.md:330`).

### ClientSession

| code | model |
|---|---|
| `Session::get`: the lock, the cache, the dial, the hello | `Lock`, `GetCached`, `StartDial`, `DialOk`, `HelloOk`, `GetFails` |
| `invalidate` and `set_state` | `Lock`, `Clear`, `Load`, `Publish` |
| `handle_local` | `Accept`, `Request`, `RequestFails`, `ReplyOk`, `ReplyRefused`, `RelayEnds`; `RetryOnce` is its loop |
| path watch with the TUI (asks on every tick) and without (waits for the path events to end) | `Tick`; `PathsEnd` |
| startup validation and shutdown | `Validate`, `Stop` |

`Lose` is the network.  The lock is a queue, because tokio's mutex is fair, and
it is held from the test of the cache to the end of the hello.  `Load` and
`Publish` are two steps: `set_state` reads the counter and sends afterwards.
`RequestFails` may happen on a live connection, since the deadline inside
`read_frame` equals the one around it (`connect.rs:554`).  `made` counts the
connections that were established, for the property about the counter.

### ConnectView

| code | model |
|---|---|
| `connect::run` | `Announce`, `RunFails`, `RunStarts`, `RunWaits`, `Interrupt`, `Stop` |
| `handle_local` with `ConnRegistry` and `ConnHandle` | `Create`, `Admit`, `Opened`, `Relay`, `Close` |
| the byte tick | `TickReads`, `TickSends` |
| `ConnectModel::apply` | `apply_forwards`, `apply_opened`, `apply_bytes`, `apply_closed` |
| the loop of `tui::run` | `Receive`, `TuiEnds`, `Quit` |

The unbounded channel is a sequence that closes when its last sender is gone.
One counter stands for the two of a connection; status and path events, which
replace a value as a whole, and drawing are left out.

### PairClient, ClientStore and TmpFile

| code | model |
|---|---|
| the prompt for the code | `CodeOk`, `CodeInvalid` |
| `load_or_create_keypair` | `KeyLoad`, `KeyCreate`, `KeyWrite` |
| dial, hello, `PAIR_WAIT` | `DialFails`, `Hello`, `ReadWait`, `NoWait` |
| the verdict and its two deadlines | `ReadVerdict`, `VerdictLost`, `VerdictTimeout`, `TimePasses` |
| `ClientStore::load`, `upsert`, `set_forwards` | `LoadAndUpsert`, `LoadAndSetForwards`, `LoadFails` |
| `ClientStore::save` | `Create`, `Write`, `Rename`, `SaveFails` |

`Confirm`, `Deny` and `ClientLost` are the daemon's handler as its client sees
it, and `Kill` ends a process anywhere.  `TmpFile` keeps inodes apart from
names: two processes may have one temporary file open, and a writer goes on
writing to a file that another process has renamed.  A writer that has opened
the same temporary file as one that wrote before it writes over that text, and
where its own is shorter the other's goes on from there.  `Over` lists what
this leaves: the rest from an entry on, which parses and may repeat a name or a
server; a torn entry, with which the file does not parse; or keys the last entry
lacked, its forwards among them.  A write that fails half way is not modelled.
The history variable
`clash` holds the processes whose time between load and rename overlapped.  A
process may die; a power failure is not modelled (the code does not `fsync`).

### Relay and Pipe

A forwarded connection has three transports in each direction: TCP, one QUIC
stream, TCP.  Each is a bounded buffer that its writer can finish and that can
be cut.  `Request`, `ReadReply`, `ReadForward`, `Refuse` and `StartDaemon` are
the frames before the relay, read piece by piece from the stream that carries
the relayed bytes afterwards.  Four pumps (`PumpRead`, `PumpWrite`, `PumpEnds`,
`PumpIdle`) are `pump` in both directions on both sides, `Count` is
`pump_counted`, and `ClientReturns` and `DaemonReturns` are the two `join!`s.
`ForwardFails` and `ReplyFails` are a frame that does not come, or not in time:
the stream is dropped.  The client then tries once more on another stream; that
is `RetryOnce` of `ClientSession`, and `Relay` follows one stream.
`Pipe` says what the two applications may see.  `Relay` implements it with the
identity on the variables of the applications.

### Ntfy

| code | model |
|---|---|
| a request of the IPC server, its reply | `ipc_call`, `Deliver` |
| `ntfy.enable` with `NtfyConfig::save` | `EnableRefused`, `EnableChecked`, `EnableCreates`, `EnableWrites`, `EnableRenames`, `FileFails` |
| `ntfy.disable`, `ntfy.status`, `ntfy.test` | `Disable`, `Status`, `Test`, `TestEnds` |
| `daemon.stop`, the end of `daemon::run`, its next start | `Stop`, `Shutdown`, `Start` |
| `Notifier::notify`, `drain` with `Cooldown::admit` | `Notify`, `Take`, `Suppress`, `PostEnds` |

The specification is `NtfySpec`: `DaemonFilesProofs` extends `PeerStore` and this
module, so the two share no name.  `TimePasses` is the clock.  A topic is named after the request that made it.
All topics have the same length, so of two writers of one temporary file the
later one's topic stands; what goes on after its text may keep the file from
parsing.
`sincePost` is the time since the last post of a key, for the property about
spacing; the cooldown is kept in memory, so it starts afresh with the daemon.

## Runs

| run | instance | checks |
|---|---|---|
| `PeerStore` | three names against a cap of two peers and of two rules; writes may fail, crashes anywhere | `TablesConsistent`, `AckedUnlessWriteFailed`, `RulesOnlyLeaveOnRequest` |
| `Invite` | one invite, two clients, another invite that may take its name, fairness | `RecordsAtMostOnce`, `ConfirmNeedsAccept`, `ResultIsTruthful`, `DeniedIsUnregistered`, `EveryInviteResolves`, `SlotComesBack`, `KeepsPromise` |
| `DataPlane` | one client that connects twice, two streams, one name, two nodes, fairness | `ServedAsGranted`, `LatestIsListed`, `LiveIsExact`, `KnownIsAdmitted`, `EndedIsUnlisted` |
| `ClientSession` | two local connections, watcher and startup, two connections to the server, a stream limit of one, fairness | `RedialsCountReconnects`, `EstablishedIsHeld`, `RetryIsFresh`, `EveryLocalAnswered`, `WatchedLossIsNoticed` |
| `ConnectView` | two local connections of two bytes each, fairness | `TypeOK`, `ViewFollowsRegistry`, `NeverOverstated`, `TotalsOnlyGrow`, `ScreenIsRestored` |
| `PairClient` | two `pair` processes and a `connect --save-defaults`, two servers, two names | `TypeOK`, `OneIdentity`, `FileIsDistinct`, `TornNeedsClash`, `PairedIsKept`, `ForwardsSurvivePairing` |
| `Relay` | two bytes one way and one back, frames of two symbols, one byte of TCP buffer, idle timeout on, fairness | `TypeOK`, `CountersAreBetween`, `KeepsPipe`, `HalfCloseArrives`, `RelaysReturn` |
| `Ntfy` | two `ntfy.enable` and one request of any other kind, two notifications, one restart, fairness | `ToldTopicIsUsed`, `PostsAreSpaced`, `EveryRequestAnswered`, `EveryEventTaken` |

All of these pass.  Every property has a *mutant* in `PROJECT.json`: a version
of a modelled definition with a plausible bug, under which TLC finds the
property violated.  `TypeOK` is proved of every state machine; three runs check
it as well.

*Bounds.*  Three names, two nodes and caps of two let a table be empty, full
with a request still to come, and in between, and let a name be freed and taken
again.  Two clients at one invite are a handler and a client that is refused as
busy or takes the slot after it is released, which is what a late outcome needs
to meet a second handler; the action `Rival` takes the invite's name for another
client, so that `add_peer` can fail under the lock.  Writes succeed in that run: a
client denied because of a failing one stays in the table until a restart, so
`DeniedIsUnregistered` would not hold; the other theorems about invites cover both.  On the data plane two
connections of one node are an old one and its re-dial, or an unknown one that
sleeps with the lock and a paired one behind it; two streams of one connection
may count for the same target; one name and two nodes let the name change hands.
`MaxDelay` counts doublings of the reject delay.  Two local connections at a
stream limit of one make the second wait for the first; with two connections to
the server one is lost and replaced; `MaxConns` and `MaxRedials` bound the dials
and the ticks that dial.  `MaxQueue` makes the byte tick rest while two events
wait, which delays snapshots but loses none.  Three processes are the least with
which a third can find what two that overlapped have left; `ReadTimeout` is the
unit of time, and the prompt lasts four of them as in the code (30 s and 120 s).
In the relay a TCP buffer of one byte is full after every write, and the QUIC
window holds a frame and one byte.  `Cooldown = 2` and `SendTimeout = 1` let a
post last for part of the cooldown; two notifications of one key are what
spacing is about.  Three requests are two enables that race and a third that
meets them at any point.

*Deadlock* is not checked where the system may stop: invites, processes and
forwarded connections end, a `connect` that was stopped is over, and a daemon
that was stopped need not be started again.  It is checked for the peer store,
the data plane and the client session.

*Fairness* (`FairSpec`).  Weak fairness of a task that can run is what the tokio
runtime gives, and weak fairness of a timer is the clock.

- Invites: every serving task and every handler.  Nothing is assumed of clients
  or admins.  In particular `accept_bi` has no timeout, so a handler that waits
  for the client's stream is fair only once the connection is lost.
  `EveryInviteResolves` assumes in its own statement that the deadline passes.
  `SlotComesBack` does not: the slot comes back from a handler long before the
  deadline, except from one whose client stays and opens no stream.
- Data plane: the tasks of connections, which includes that the sleep under the
  lock ends.  Streams, targets and relays are not fair: `EndedIsUnlisted` holds
  although a relay may never end.
- Client session: `get` and `invalidate` of every task (dial and hello have
  deadlines), the steps of a local connection that have a deadline, the end of
  the path events of a lost connection.  Neither `open_bi` at the stream limit
  nor the loss of a connection nor the end of a relay is assumed.
- Connect view: `run`, the byte tick and the terminal task.  That a local
  connection ends is not assumed; `ScreenIsRestored` starts where all have.
- Relay: the tasks of both sides.  Of the applications it assumes that they
  read what arrives and close in return when their peer has closed or their
  connection was cut; without that no relay returns, with or without tmite.
- Ntfy: requests, the drain task (a post has a deadline) and the shutdown once
  a stop was received.  That the daemon is started again is not assumed.

### Where code and documents differ

Each of these runs checks one sentence of the repository and TLC shows how the
code breaks it.

| run | statement | what happens |
|---|---|---|
| `PeerStoreRetry` | "written atomically … on every mutation" (`docs/design.md:105`) | A failed write leaves the rule in memory.  The retry finds it there and is acknowledged without a write; a restart loses it. |
| `InviteMixup` | "pairing completes after the admin compares the client's NodeId on both terminals" (`README.md:115`) | The decision is a field of the invite.  An accept given for a client that left releases the next one. |
| `InviteWakeup` | denied only "if … no `peer.invite.decide` arrives within 120 s" (`docs/design.md:236`) | The accept is taken up after `pair_request` was emitted and before the handler's `select!`: nobody is woken. |
| `PairDeadline` | "Confirmation may legitimately take up to the 120 s prompt timeout plus human latency; bound generously" (`client/pair.rs:138`) | `read_frame` has a deadline of 30 s of its own: the client exits while its prompt is open. |

More differences are plain from the code and have no run.

Invites and data plane:

- The deadline may pass while a confirmed client has not acked: the invite is
  reported as "an invite expired without a pairing" (`daemon/notify.rs:240`)
  and the client is registered all the same.
- A client that connects to an invite and opens no stream holds the pair slot
  until the deadline, since `accept_bi` has no timeout (`invite.rs:471`); every
  other client is refused as busy meanwhile.  `SlotComesBack` excepts it.
- Nothing tells an invite that its terminal is gone, where `docs/design.md:53`
  has it "Killed on … IPC disconnect".  It ends at its deadline.
- The cap of "≤ 8 pending invites" (`docs/design.md:487`) is tested under one
  lock and the entry inserted under a later one (`CheckCreate`, `InsertEntry`).
- `decide` is acknowledged when its command is queued; a loop that has already
  ended never takes it up.
- `InviteError::NameTaken` is answered `internal` where `docs/design.md:272` says
  `name_taken`.
- The reject delay of an invite is reset when the QUIC handshake completes where
  `docs/design.md:281` says "by a successful session establishment".
- `sessions.rs:2` speaks of "one entry per connected peer"; of two live
  connections of one node the newer is listed, and when it ends the older goes on
  unlisted.  `LatestIsListed` says just what holds.
- A revoke that is acknowledged while a target is being dialled does not stop
  that stream.
- A client whose record fails for I/O is denied, and stays in the table until a
  restart, because `add_peer` pushes it before it writes (`state.rs:133`).
- `handle_pair_conn` releases the slot also when a peer was recorded, where its
  comment says "without a recorded peer".  The comment at `invite.rs:620` draws
  the conclusion that "a racing connection can still land here after the slot
  was released by a recorded peer".  It cannot: `RecordsAtMostOnce` and the
  theorem `OnePeerPerInvite` contradict the comment, and the branch below it is
  never taken.  The first half of the same comment, "unreachable while only one
  pair connection runs at a time", is true.

Client:

- "Per-stream errors never touch session state" (`connect.rs:513`), but a stream
  that the daemon drops without a reply, or whose inner deadline fires first,
  invalidates a live connection.  `invalidate` does not say which connection it
  is about, so a late one drops the successor.
- `docs/design.md:343` leaves the re-dial to "the next accepted TCP conn"; with
  the TUI the path watch also dials whenever nothing is cached, and a local
  connection tries a second time by itself.
- `Reconnecting` may stay published next to a cached connection, because the
  status is published after the lock is released.
- A `q` pressed before `run` waits wakes nobody (`connect.rs:97`, `358`).
- The terminal task waits for all senders to be dropped, and an idle local
  connection, which nobody aborts, keeps one: `connect` then does not return
  after Ctrl-C (`tmite/src/main.rs:811`, `tui.rs:75`).
- The verdict's inner timeout is reported with exit code 1, where
  `docs/design.md:447` has 4 for "pairing: awaiting admin".
- Two processes that save `servers.toml` at once may lose an entry, leave a file
  that does not parse or, if one writes over the longer text of the other, a file
  that parses and lists a name or a server twice (`fsio.rs:181`; two pairings and
  what a third has stored before).  `PairedIsKept`, `TornNeedsClash` and
  `FileIsDistinct` are stated for the rest.
- A process killed between creating and writing the key file leaves a blank file,
  which every later command rejects (`fsio.rs:114`).

Notifications and daemon:

- The cooldown is applied before `ntfy.toml` is read, where `docs/design.md:624`
  has it after: a notification that is not sent, for want of a configuration or
  because the post fails, still silences the next one of its key.
- Two enables at once both succeed and one topic is lost, against "no silent
  topic rotation" (`docs/design.md:609`); `ToldTopicIsUsed` covers the rest.
- The reply to `daemon.stop` may be lost with the runtime (`daemon/mod.rs:103`).
- The end of the daemon removes whatever socket is at its path (`mod.rs:114`),
  and a failing bind of it is only logged (`mod.rs:79`).

## Proofs

All theorems hold for any sets of names, nodes, invites, connections, processes,
requests and notifications and for any limits; the assumptions on the constants
(`LimitsAssumption`, `InviteAssumption`, `DataPlaneAssumption`,
`SessionAssumption`, `ViewAssumption`, `PairAssumption`, `RelayAssumption`,
`NtfyAssumption`) give their types, that the streams of the data plane and the
connections of the view are finitely many, that no process is of two kinds, that
a frame fits on the QUIC stream and, in the relay, at most 99 symbols of payload
and 99 bytes in a direction, which keeps headers, payload and bytes apart.

*The store.*  `Sound(st)` says that a table is well typed, its names are unique,
its rules have peers and it is within the limits.  `PeerTableProofs` shows that
every method preserves it.  The work is in `remove_peer`: `DropPeerKeepsOthers`
says which peers are left.  The inductive invariant of `PeerStore` is
`Sound` of memory and of the file: a crash puts the file into memory, so neither
half is inductive alone.  Theorems: `TypeCorrect`, `TablesStayConsistent`,
and, as long as no write has failed, `AcknowledgedSurvives`; for that one the
invariant adds that memory and file then agree while the daemon is up.
`RulesLeaveOnRequest` is about steps: it looks at what each method does to the
rules, and needs that a daemon that is down has nothing in memory
(`DownIsEmpty`), so that a start loses nothing.

*Invites.*  None of the properties is inductive.  The invariant `IInv` adds:

- `QuietBefore`: no connection gets anywhere before its endpoint is bound;
- the slot is taken exactly while one handler runs (`SlotHeldByOneHandler`);
- `NobodyPassesOutcome`: while an outcome is queued no other handler of the
  invite is accepted.  This is the argument for the early release of the slot:
  the `select!` is biased, so the serving task takes the outcome before it takes
  a further decision, and a handler that started after the release is not woken
  with an accept before the loop ends;
- `NobodyAfterPeer`, `PeerEndsLoop`: from the moment a peer is recorded, its
  outcome is on its way to end the loop;
- `ConfirmedIsRecorded`, `OneConfirmed`, `PairedIsConfirmed`,
  `FailedIsOver`, `RepliesAtTheEnd`: what has been written to clients, what is in
  the channel, what the serving task holds and what the reply says agree;
- `AskedOnce`, `DecisionsAreAnswers`: a decision in the command channel or in the
  invite comes from an answer of the admin;
- `OutcomesHaveCause`: an outcome in the channel, in the serving task or in the
  reply has the cause `ResultIsTruthful` asks for.  The deadline may overtake a
  confirmed client, whose outcome is then dropped; a reply without a cause of its
  own never takes its place.

Each conjunct has a lemma of its own with one step per action it depends on.
The theorems are `TypeCorrect`, `OneHandlerPerInvite`, `OnePeerPerInvite`,
`ConfirmedAfterAccept`, `TruthfulReply`, `FinalReply` and the refinement
`InviteKeepsPromise`.  `OnePeerPerInvite` proves that the branch of
`invite.rs:618` is never reached, early release included, which settles the two
halves of its comment (above).

Who is in the peer table is a second argument over the first: an entry comes
from a handler that pushed it (`AddedPeer`, `RemovedPeer`), and a verdict is
never overwritten once it is decided (`VerdictsAreFinal`).  `ListedWasConfirmed`
says so for every instance: a client is listed only if a client of its node and
name was confirmed, or was pushed and denied because the write of `state.toml`
then failed.  `DeniedStaysOut` draws `DeniedIsUnregistered` from it, for any
invites and connections, under the two conditions without which it is false of
the code: writes succeed, and a client does not come a second time for the same
name (it may be denied once and accepted later).  The run has both.

*The data plane.*  Each property has its own strengthening, over types and the
soundness of the table.  `LatestIsListed` needs that a node's last registered
connection is one of that node.  `LiveIsExact` is inductive: the two counting
lemmas are about the cardinality of the set of relaying streams.
`ServedAsGranted` needs two facts about the table: every rule was granted to the
node that has the rule's name *now* (`RulesAreGranted`; it holds through re-use
of a name because `remove_peer` takes the rules along and `add_peer` refuses a
name that is taken), and the name a connection was authenticated as still
belongs to its node unless the peer was removed (`NamesAreKept`).  The theorem
covers what the run's single name cannot: a node paired under several names.
Theorems: `TypeCorrect`, `RegistryFollowsRedials`, `ServedWasGranted`,
`LiveCountsAreExact`.

*The client session.*  The argument is that the session's lock is held from the
test of the cache to the end of the hello.  `DialerHolds` says so, and
`HelloIsNew` that the connection whose hello is under way is in nobody's hands.
From these follow `DialsAreCounted` (a dial after the first success was counted
before it could succeed) and `DroppedIsNotCached`: a local connection that has
invalidated a connection cannot be handed the same one, since what is cached
afterwards was dialled later.  `WorksWithOne` and `IdleIsFirst` tie the program
points to the attempt.  Theorems: `TypeCorrect`, `RedialsAreCounted`,
`StatusIsHeld`, `RetriesAreFresh`.

*Pairing on the client.*  The key: what a process works with is what the key file
holds (`KeyIsTheFile`), because `create_new` lets one process through and nobody
has a key before.  The list: `UpsertKeeps` and `SetForwardsKeeps` show that a
list without duplicates stays one, keeps its servers and, in a pairing, their
forwards; so the list that is being saved and the one in `servers.toml` are free
of duplicates (`ListsAreDistinct`).  This, too, is until two processes save at
once: nothing is claimed of a text written over another one.  The file: as long as no two processes were between
load and rename at once (`Undisturbed`), the one that is there has the temporary
file for itself, that file is never the inode of `servers.toml`
(`InodesAreFresh`), and its list lacks nothing that `servers.toml` has
(`NothingIsDropped`), so that its rename keeps every earlier pairing.  That a
pairing with success was recorded follows the frames: only verdicts come after
the first frame, and a confirmation only after the record (`FramesInOrder`).
Theorems: `KeysAgree`, `FileStaysDistinct`, `OnlyClashesTear`,
`PairingsAreKept`, `ForwardsAreKept` and `Typed`.  The type invariant holds
with overlapping saves too: it needs that the last attempt at a code ends the
command, and `OverType`, that whatever is written over whatever leaves entries
and torn entries.  `upsert` and `set_forwards` then meet lists with duplicates,
so what they change is the entry at the least index that matches (`FirstIsFound`,
from the well-founded order of the library).

*The view of `connect`.*  The invariant is about what is on its way.  An event in
the channel, or in the snapshot that the byte tick has still to send, says
something that was true when it was sent and in part still is (`Facts`): a
connection that is announced has no row yet, a byte count is no more than was
relayed and no less than its row shows.  Events of one connection come in the
order of its life (`InTurn`), which is what makes a count that arrives after the
end harmless.  The totals are sums over all connections: `Totals` bounds what
the ended ones have left, `Rows` what the others show.  The lemmas about sums
are proved from the definition of the community module's fold: the sum over a
finite set exists and is unique because every family of its subsets has a
smallest member (`Smallest`, from the well-founded order of the library), and a
comparison of two sums follows in the same way.  Theorems: `Typed`, `Followed`,
`Understated`, and `Grown` for the steps.

*The relay.*  In each direction a byte passes five places: the local transport,
the buffer of the pump before the stream, the stream, the buffer of the pump
behind it and the last transport.  `Line` names how many bytes have come past
each, and says that every place holds the bytes between two of these numbers, in
order, and all of them unless it was cut.  No sequence is put together or
compared as a whole: that the bytes are numbered makes each place a statement
about indices, so no induction is needed.  On the stream the bytes come behind
what is left of a frame (`Skip`); `RequestFrame` and `ReplyFrame` follow the
frames, `Handlers` where the two sides stand meanwhile, and `Ends` that without
a fault an end of stream moves on only behind all bytes.  Theorems: `Typed`,
`Counted`, and the refinement `ImplementsPipe`: a read is a delivery of the next
byte, an end that is seen comes after all of them, every other step is one of
the pipe's or a stutter.

*Notifications.*  `PostsAreSpaced` needs `RecordedFirst`: the cooldown has a
notification on record no later than it is posted, so the age it tests is never
more than the time since the last post.  `ToldTopicIsUsed` needs what an enable
relies on between its test and its rename, as long as no two of them overlap
(`Undisturbed`): it is alone, there is no `ntfy.toml`, the temporary file it has
open is blank and is the one under the temporary name, and what it has written
is there when it renames.  Theorems: `NtfyTypeCorrect`, `PostsSpaced`,
`ToldTopicStays`.

*Only model-checked.*  Liveness is outside the proof system used here:
`EveryInviteResolves`, `SlotComesBack`, `KnownIsAdmitted`, `EndedIsUnlisted`,
`EveryLocalAnswered`, `WatchedLossIsNoticed`, `ScreenIsRestored`,
`HalfCloseArrives`, `RelaysReturn`, `EveryRequestAnswered`, `EveryEventTaken`.
Every safety invariant, every action property and both refinements that the
passing runs check are proved as well, `DeniedIsUnregistered` under the
conditions above.

## Not modelled

`PROJECT.json` lists every part with its status.  Left out:

- drawing the TUI, formatting, the wording of notifications and of errors;
- directories, permissions and the binding of sockets, which keep no state the
  rest depends on;
- parsing of forwards, targets and server URLs, which only decide whether a
  command starts;
- the cryptographic derivation of codes and keys and the checksums of codes (the
  repository's vectors test them);
- the data types of the IPC messages and the read-only requests;
- the internals of iroh, tokio and the HTTP client, of which the modules assume
  what the code relies on: ordered streams with half-close, fair mutexes,
  `notify_waiters` without a permit, bounded posts.

`Invite` and `PairClient` are not composed into one module: their product is out
of TLC's reach.  They meet in the frames of the verdict, and each has the other
side as the set of what it may do: `Dial` and `Vanish` in `Invite`, `Confirm`,
`Deny` and `ClientLost` in `PairClient`.

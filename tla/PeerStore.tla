------------------------------ MODULE PeerStore ------------------------------
(***************************************************************************)
(* The peer table together with its file, state.toml: every mutation runs  *)
(* under the state lock and then replaces the file by writing a temporary  *)
(* one and renaming it (State::persist_locked).  The write or the rename   *)
(* may fail, and the process may die before or after the rename.           *)
(*                                                                         *)
(* One action is one whole call of a State method, reply included, because *)
(* the lock is held throughout.  The rename is atomic, so a restart reads  *)
(* either the old table or the new one and never a torn file; a left-over  *)
(* temporary file is truncated by the next write and never read.  A crash  *)
(* is one of the process: the code does not fsync, and power failures are  *)
(* outside the model.                                                      *)
(***************************************************************************)
EXTENDS PeerTable

VARIABLES
    mem,     \* State::inner, the table under the lock
    disk,    \* the table in state.toml
    up,      \* whether the daemon process runs
    reply,   \* the last reply, with the request it answers
    failed   \* history: a request's write failed and none has succeeded since

vars == <<mem, disk, up, reply, failed>>

Results == {"none", "ok", "name_taken", "peer_cap", "not_found", "rule_cap",
            "peer_has_rules", "io"}

Request == [op : {"add_peer"}, name : Names, node : Nodes]
             \cup [op : {"allow", "revoke"}, name : Names, target : Targets]
             \cup [op : {"rm"}, name : Names, force : BOOLEAN]
             \cup [op : {"none"}]

Reply == [ask : Request, res : Results]

NoReply == [ask |-> [op |-> "none"], res |-> "none"]

Init ==
    /\ mem = EmptyTable
    /\ disk = EmptyTable
    /\ up = TRUE
    /\ reply = NoReply
    /\ failed = FALSE

-----------------------------------------------------------------------------
\* A persist_locked that writes the table as it was before the call.
PersistStale(st) == mem' = st /\ disk' = mem /\ UNCHANGED up

\* persist_locked succeeds: the file now holds the table in memory.
PersistOk(st) == mem' = st /\ disk' = st /\ UNCHANGED up

\* It fails: the caller returns the error and the table in memory stays
\* as it was mutated.
PersistFails(st) == mem' = st /\ UNCHANGED <<disk, up>>

\* The process dies inside the call, before or after the rename.
CrashInPersist(st) ==
    /\ up' = FALSE
    /\ disk' \in {disk, st}
    /\ mem' = EmptyTable

\* One call of a State method with result r; ask is the request it answers.
Call(r, ask) ==
    /\ up
    /\ \/ /\ ~ r.persists
          /\ reply' = [ask |-> ask, res |-> r.res]
          /\ UNCHANGED <<mem, disk, up, failed>>
       \/ /\ r.persists
          /\ PersistOk(r.table)
          /\ reply' = [ask |-> ask, res |-> "ok"]
          /\ failed' = FALSE
       \/ /\ r.persists
          /\ PersistFails(r.table)
          /\ reply' = [ask |-> ask, res |-> "io"]
          /\ failed' = TRUE
       \/ /\ r.persists
          /\ CrashInPersist(r.table)
          /\ reply' = NoReply
          /\ UNCHANGED failed

AddPeer(n, d) ==
    Call(add_peer(mem, n, d),
         [op |-> "add_peer", name |-> n, node |-> d])

AddRule(n, t) ==
    Call(add_rule(mem, n, t),
         [op |-> "allow", name |-> n, target |-> t])

RemoveRule(n, t) ==
    Call(remove_rule(mem, n, t),
         [op |-> "revoke", name |-> n, target |-> t])

RemovePeer(n, force) ==
    Call(remove_peer(mem, n, force),
         [op |-> "rm", name |-> n, force |-> force])

\* touch_last_seen rewrites the file and ignores the outcome.
TouchLastSeen(d) ==
    /\ up
    /\ peer_by_node(mem, d) # {}
    /\ PersistOk(mem) \/ PersistFails(mem)
    /\ UNCHANGED <<reply, failed>>

Crash ==
    /\ up
    /\ up' = FALSE
    /\ mem' = EmptyTable
    /\ UNCHANGED <<disk, reply, failed>>

\* State::load: a missing file is an empty table, which disk starts as.
Restart ==
    /\ ~ up
    /\ up' = TRUE
    /\ mem' = disk
    /\ UNCHANGED <<disk, reply, failed>>

Next ==
    \/ \E n \in Names, d \in Nodes : AddPeer(n, d)
    \/ \E n \in Names, t \in Targets : AddRule(n, t)
    \/ \E n \in Names, t \in Targets : RemoveRule(n, t)
    \/ \E n \in Names, force \in BOOLEAN : RemovePeer(n, force)
    \/ \E d \in Nodes : TouchLastSeen(d)
    \/ Crash
    \/ Restart

Spec == Init /\ [][Next]_vars

-----------------------------------------------------------------------------
\* Type invariant of the store: both tables are tables, the reply is one
\* that some State method can return.
TypeOK ==
    /\ mem \in Table
    /\ disk \in Table
    /\ up \in BOOLEAN
    /\ reply \in Reply
    /\ failed \in BOOLEAN

\* Whatever fails and whenever the daemon dies, the table in memory and the
\* table a restart would load have unique names, no rule without its peer
\* (rm cascades, state.rs:207), and stay within MAX_PEERS and MAX_RULES.
TablesConsistent == Consistent(mem) /\ Consistent(disk)

\* What a successful reply says about the table st.
Established(st, ask) ==
    CASE ask.op = "add_peer" ->
           \E k \in DOMAIN st.peers : st.peers[k] = [name |-> ask.name, node |-> ask.node]
      [] ask.op = "allow" -> rule_allows(st, ask.name, ask.target)
      [] ask.op = "revoke" -> ~ rule_allows(st, ask.name, ask.target)
      [] ask.op = "rm" -> is_name_free(st, ask.name)
      [] OTHER -> TRUE

\* What an acknowledged request established is in the file, so it survives
\* a crash at any later moment: an added peer or rule is there, a revoked
\* rule or a removed peer is not (state.toml is "written atomically
\* (tempfile + rename) on every mutation", docs/design.md:105).
AckedIsDurable == reply.res = "ok" => Established(disk, reply.ask)

\* The same, as long as no request's write has failed or one has succeeded
\* since: whatever calls write nothing because nothing changed
\* (state.rs:161), and through crashes and restarts.
AckedUnlessWriteFailed == ~ failed => AckedIsDurable

\* No step takes a peer's rules away except a revoke of that rule, a forced
\* rm of that peer, or the loss of memory in a crash: rm without --force
\* refuses while rules exist (StateError::PeerHasRules).
RulesOnlyLeaveOnRequest ==
    [][\A r \in mem.rules :
          \/ r \in mem'.rules
          \/ RemoveRule(r.peer, r.target)
          \/ RemovePeer(r.peer, TRUE)
          \/ ~ up']_vars

==============================================================================

-------------------------- MODULE DaemonFilesProofs --------------------------
(***************************************************************************)
(* Proofs about the two files the daemon keeps and what it promises about  *)
(* them: state.toml (PeerStore) and ntfy.toml (Ntfy).                      *)
(*                                                                         *)
(* PeerStore, for all names, nodes, targets and limits: both tables stay   *)
(* sound through failures and crashes, and, unless the last write of a     *)
(* request failed, memory and file agree and what was acknowledged is in   *)
(* the file.  Rules leave memory on request only.                          *)
(*                                                                         *)
(* Ntfy, for any number of requests, subjects and daemon restarts, and any *)
(* cooldown: posts are spaced, and the topic an enable has returned stays  *)
(* in use.                                                                 *)
(***************************************************************************)
EXTENDS PeerStore, Ntfy, PeerTableProofs

IInv == TypeOK /\ Sound(mem) /\ Sound(disk)

\* One call of a State method, with a sound result and a well-formed request,
\* keeps both tables sound whichever way it ends.
LEMMA CallSound ==
    ASSUME NEW r, NEW ask \in Request, IInv,
           Sound(r.table), r.res \in Results,
           Call(r, ask)
    PROVE  IInv'
<1>1. reply' \in Reply
  <2>1. NoReply \in Reply
    BY Zenon DEF NoReply, Reply, Request, Results
  <2>2. "ok" \in Results /\ "io" \in Results
    BY DEF Results
  <2>3. \A res \in Results : [ask |-> ask, res |-> res] \in Reply
    BY DEF Reply
  <2> QED
    BY <2>1, <2>2, <2>3, Zenon DEF Call
<1>2. Sound(mem') /\ Sound(disk') /\ up' \in BOOLEAN /\ failed' \in BOOLEAN
  BY EmptyTableSound, Zenon DEF Call, PersistOk, PersistFails, CrashInPersist, IInv, TypeOK
<1> QED
  BY <1>1, <1>2 DEF IInv, TypeOK, Sound

\* Every step keeps both tables sound.
LEMMA StepSound == IInv /\ [Next]_vars => IInv'
<1> SUFFICES ASSUME IInv, [Next]_vars PROVE IInv'
  BY Zenon
<1>1. ASSUME NEW n \in Names, NEW d \in Nodes, AddPeer(n, d) PROVE IInv'
  <2>1. add_peer(mem, n, d).res \in Results
    BY Zenon DEF add_peer, Return, Store, Results
  <2>2. [op |-> "add_peer", name |-> n, node |-> d] \in Request
    BY Zenon DEF Request
  <2> QED
    BY <1>1, <2>1, <2>2, CallSound, AddPeerSound, Zenon DEF AddPeer, IInv
<1>2. ASSUME NEW n \in Names, NEW t \in Targets, AddRule(n, t) PROVE IInv'
  <2>1. add_rule(mem, n, t).res \in Results
    BY Zenon DEF add_rule, Return, Store, Results
  <2>2. [op |-> "allow", name |-> n, target |-> t] \in Request
    BY Zenon DEF Request
  <2> QED
    BY <1>2, <2>1, <2>2, CallSound, AddRuleSound, ZenonT(40) DEF AddRule, IInv
<1>3. ASSUME NEW n \in Names, NEW t \in Targets, RemoveRule(n, t) PROVE IInv'
  <2>1. remove_rule(mem, n, t).res \in Results
    BY DEF remove_rule, Return, Store, Results
  <2>2. [op |-> "revoke", name |-> n, target |-> t] \in Request
    BY Zenon DEF Request
  <2> QED
    BY <1>3, <2>1, <2>2, CallSound, RemoveRuleSound, ZenonT(40) DEF RemoveRule, IInv
<1>4. ASSUME NEW n \in Names, NEW force \in BOOLEAN, RemovePeer(n, force) PROVE IInv'
  <2>1. remove_peer(mem, n, force).res \in Results
    BY Zenon DEF remove_peer, Return, Store, Results
  <2>2. [op |-> "rm", name |-> n, force |-> force] \in Request
    BY DEF Request
  <2> QED
    BY <1>4, <2>1, <2>2, CallSound, RemovePeerSound, Zenon DEF RemovePeer, IInv
<1>5. ASSUME NEW d \in Nodes, TouchLastSeen(d) PROVE IInv'
  BY <1>5, Zenon DEF TouchLastSeen, PersistOk, PersistFails, IInv, TypeOK
<1>6. ASSUME Crash PROVE IInv'
  BY <1>6, EmptyTableSound, Zenon DEF Crash, IInv, TypeOK, Sound
<1>7. ASSUME Restart PROVE IInv'
  BY <1>7, Zenon DEF Restart, IInv, TypeOK
<1>8. ASSUME UNCHANGED vars PROVE IInv'
  BY <1>8, Zenon DEF vars, IInv, TypeOK
<1> QED
  BY <1>1, <1>2, <1>3, <1>4, <1>5, <1>6, <1>7, <1>8, SMTT(30) DEF Next

\* Both tables are sound when the daemon first starts.
LEMMA InitSound == Init => IInv
<1>1. NoReply \in Reply
  BY Zenon DEF NoReply, Reply, Request, Results
<1> QED
  BY <1>1, EmptyTableSound, Zenon DEF Init, IInv, TypeOK, Sound

\* Both tables are sound in every reachable state of the store.
LEMMA AlwaysSound == Spec => []IInv
BY InitSound, StepSound, PTL DEF Spec

\* The state of the store is well typed after any history of calls, failed
\* writes, crashes and restarts.
THEOREM TypeCorrect == Spec => []TypeOK
<1>1. IInv => TypeOK
  BY Zenon DEF IInv
<1> QED
  BY <1>1, AlwaysSound, PTL

\* Whatever fails and whenever the daemon dies, both the table in memory and
\* the one a restart would load have unique names, no rule without its peer,
\* and stay within the limits.
THEOREM TablesStayConsistent == Spec => []TablesConsistent
<1>1. IInv => TablesConsistent
  BY Zenon DEF IInv, Sound, TablesConsistent
<1> QED
  BY <1>1, AlwaysSound, PTL

-----------------------------------------------------------------------------
(***************************************************************************)
(* Durability needs one more fact: a running daemon whose last write       *)
(* succeeded holds in memory what the file holds, so a call that changes   *)
(* nothing and therefore writes nothing still answers for the file.        *)
(***************************************************************************)
DInv == IInv /\ (~ failed => (up => mem = disk) /\ AckedIsDurable)

\* A call whose result table holds what its reply will say leaves a durable
\* state behind.
LEMMA CallDurable ==
    ASSUME NEW r, NEW ask, DInv, IInv',
           ~ r.persists => r.table = mem,
           r.persists \/ r.res = "ok" => Established(r.table, ask),
           Call(r, ask)
    PROVE  DInv'
<1>1. CASE ~ r.persists /\ ~ failed
  <2>1. /\ reply' = [ask |-> ask, res |-> r.res]
        /\ UNCHANGED <<mem, disk, up>>
        /\ up
    BY <1>1, Zenon DEF Call
  <2>2. reply'.res = r.res /\ reply'.ask = ask /\ disk' = r.table
    BY <1>1, <2>1, Zenon DEF DInv
  <2> QED
    BY <1>1, <2>1, <2>2 DEF DInv, AckedIsDurable
<1>2. CASE PersistOk(r.table) /\ reply' = [ask |-> ask, res |-> "ok"] /\ r.persists
  BY <1>2, Zenon DEF PersistOk, DInv, AckedIsDurable
<1>3. CASE CrashInPersist(r.table) /\ reply' = NoReply
  BY <1>3, Zenon DEF CrashInPersist, DInv, NoReply, AckedIsDurable
<1>4. CASE failed'
  BY <1>4, Zenon DEF DInv
<1>5. \/ ~ r.persists /\ failed' = failed
      \/ PersistOk(r.table) /\ reply' = [ask |-> ask, res |-> "ok"] /\ r.persists
      \/ CrashInPersist(r.table) /\ reply' = NoReply
      \/ failed'
  BY Zenon DEF Call
<1> QED
  BY <1>1, <1>2, <1>3, <1>4, <1>5, ZenonT(40)

\* After add_peer succeeds the peer is in the table it returns.
LEMMA AddPeerEstablishes ==
    ASSUME NEW st, Sound(st), NEW n \in Names, NEW d \in Nodes,
           NEW r, r = add_peer(st, n, d)
    PROVE  /\ ~ r.persists => r.table = st
           /\ r.persists \/ r.res = "ok" =>
                Established(r.table, [op |-> "add_peer", name |-> n, node |-> d])
<1> DEFINE p == [name |-> n, node |-> d]
<1>1. CASE ~ is_name_free(st, n) \/ Len(st.peers) >= MaxPeers
  BY <1>1, Zenon DEF add_peer, Return
<1>2. CASE is_name_free(st, n) /\ ~ (Len(st.peers) >= MaxPeers)
  <2>1. r.persists /\ r.table.peers = Append(st.peers, p)
    BY <1>2 DEF add_peer, Store, WithPeer
  <2>2. st.peers \in Seq(Peer) /\ p \in Peer
    BY Zenon DEF Sound, Table, Peer
  <2>3. Len(st.peers) + 1 \in DOMAIN r.table.peers /\ r.table.peers[Len(st.peers) + 1] = p
    BY <2>1, <2>2
  <2> QED
    BY <2>1, <2>3, Zenon DEF Established
<1> QED
  BY <1>1, <1>2, Zenon

\* After add_rule succeeds the rule is in the table it returns.
LEMMA AddRuleEstablishes ==
    ASSUME NEW st, NEW n \in Names, NEW t \in Targets, NEW r, r = add_rule(st, n, t)
    PROVE  /\ ~ r.persists => r.table = st
           /\ r.persists \/ r.res = "ok" =>
                Established(r.table, [op |-> "allow", name |-> n, target |-> t])
BY Zenon DEF add_rule, Return, Store, WithRules, Established, rule_allows

\* After remove_rule succeeds the rule is not in the table it returns.
LEMMA RemoveRuleEstablishes ==
    ASSUME NEW st, NEW n \in Names, NEW t \in Targets, NEW r, r = remove_rule(st, n, t)
    PROVE  /\ ~ r.persists => r.table = st
           /\ r.persists \/ r.res = "ok" =>
                Established(r.table, [op |-> "revoke", name |-> n, target |-> t])
<1>1. CASE is_name_free(st, n)
  BY <1>1, Zenon DEF remove_rule, Return
<1>2. CASE ~ is_name_free(st, n)
  BY <1>2, Zenon DEF remove_rule, Return, Store, WithRules, Established, rule_allows
<1> QED
  BY <1>1, <1>2, Zenon

\* After remove_peer succeeds the name is free in the table it returns.
LEMMA RemovePeerEstablishes ==
    ASSUME NEW st, Sound(st), NEW n \in Names, NEW force \in BOOLEAN,
           NEW r, r = remove_peer(st, n, force)
    PROVE  /\ ~ r.persists => r.table = st
           /\ r.persists \/ r.res = "ok" => Established(r.table, [op |-> "rm", name |-> n, force |-> force])
<1>1. CASE is_name_free(st, n)
  BY <1>1, Zenon DEF remove_peer, Return, Established
<1>2. CASE ~ is_name_free(st, n) /\ rules_of(st, n) # {} /\ ~ force
  BY <1>2, Zenon DEF remove_peer, Return
<1>3. CASE ~ is_name_free(st, n) /\ ~ (rules_of(st, n) # {} /\ ~ force)
  <2>1. r.persists /\ r.table.peers = DropPeer(st.peers, n)
    BY <1>3, Zenon DEF remove_peer, Store
  <2>2. is_name_free(r.table, n)
    <3>1. \A k \in DOMAIN DropPeer(st.peers, n) : DropPeer(st.peers, n)[k].name # n
      BY <1>3, DropPeerKeepsOthers, Zenon
    <3> QED
      BY <2>1, <3>1, Zenon DEF is_name_free
  <2> QED
    BY <2>1, <2>2, Zenon DEF Established
<1> QED
  BY <1>1, <1>2, <1>3, Zenon

\* A request that the daemon acknowledged is in state.toml, so a crash at any
\* moment loses nothing that was acknowledged, unless the last write of a
\* request failed.  (Then it need not hold: PeerStoreRetry.cfg.)
THEOREM AcknowledgedSurvives == Spec => []AckedUnlessWriteFailed
<1>1. Init => DInv
  BY InitSound DEF Init, DInv, AckedIsDurable, NoReply
<1>2. DInv /\ [Next]_vars => DInv'
  <2> SUFFICES ASSUME DInv, [Next]_vars PROVE DInv'
    BY Zenon
  <2>0. IInv' /\ Sound(mem)
    BY StepSound, Zenon DEF DInv, IInv
  <2>1. ASSUME NEW n \in Names, NEW d \in Nodes, AddPeer(n, d) PROVE DInv'
    <3> DEFINE r == add_peer(mem, n, d)
               ask == [op |-> "add_peer", name |-> n, node |-> d]
    <3>1. /\ ~ r.persists => r.table = mem
          /\ r.persists \/ r.res = "ok" => Established(r.table, ask)
      BY <2>0, AddPeerEstablishes, Zenon
    <3>2. Call(r, ask)
      BY <2>1, Zenon DEF AddPeer
    <3> HIDE DEF r, ask
    <3> QED
      BY <2>0, <3>1, <3>2, CallDurable, Zenon
  <2>2. ASSUME NEW n \in Names, NEW t \in Targets, AddRule(n, t) PROVE DInv'
    <3> DEFINE r == add_rule(mem, n, t)
               ask == [op |-> "allow", name |-> n, target |-> t]
    <3>1. /\ ~ r.persists => r.table = mem
          /\ r.persists \/ r.res = "ok" => Established(r.table, ask)
      BY <2>0, AddRuleEstablishes, Zenon
    <3>2. Call(r, ask)
      BY <2>2, Zenon DEF AddRule
    <3> HIDE DEF r, ask
    <3> QED
      BY <2>0, <3>1, <3>2, CallDurable, Zenon
  <2>3. ASSUME NEW n \in Names, NEW t \in Targets, RemoveRule(n, t) PROVE DInv'
    <3> DEFINE r == remove_rule(mem, n, t)
               ask == [op |-> "revoke", name |-> n, target |-> t]
    <3>1. /\ ~ r.persists => r.table = mem
          /\ r.persists \/ r.res = "ok" => Established(r.table, ask)
      BY <2>0, RemoveRuleEstablishes, Zenon
    <3>2. Call(r, ask)
      BY <2>3, Zenon DEF RemoveRule
    <3> HIDE DEF r, ask
    <3> QED
      BY <2>0, <3>1, <3>2, CallDurable, Zenon
  <2>4. ASSUME NEW n \in Names, NEW force \in BOOLEAN, RemovePeer(n, force) PROVE DInv'
    <3> DEFINE r == remove_peer(mem, n, force)
               ask == [op |-> "rm", name |-> n, force |-> force]
    <3>1. /\ ~ r.persists => r.table = mem
          /\ r.persists \/ r.res = "ok" => Established(r.table, ask)
      BY <2>0, RemovePeerEstablishes, Zenon
    <3>2. Call(r, ask)
      BY <2>4, Zenon DEF RemovePeer
    <3> HIDE DEF r, ask
    <3> QED
      BY <2>0, <3>1, <3>2, CallDurable, Zenon
  <2>5. ASSUME NEW d \in Nodes, TouchLastSeen(d) PROVE DInv'
    BY <2>0, <2>5, Zenon DEF TouchLastSeen, PersistOk, PersistFails, DInv, AckedIsDurable
  <2>6. ASSUME Crash PROVE DInv'
    BY <2>0, <2>6, Zenon DEF Crash, DInv, AckedIsDurable
  <2>7. ASSUME Restart PROVE DInv'
    BY <2>0, <2>7, Zenon DEF Restart, DInv, AckedIsDurable
  <2>8. ASSUME UNCHANGED vars PROVE DInv'
    BY <2>0, <2>8, Zenon DEF vars, DInv, AckedIsDurable
  <2> QED
    BY <2>1, <2>2, <2>3, <2>4, <2>5, <2>6, <2>7, <2>8, ZenonT(40) DEF Next
<1>3. DInv => AckedUnlessWriteFailed
  BY Zenon DEF DInv, AckedUnlessWriteFailed
<1> QED
  BY <1>1, <1>2, <1>3, PTL DEF Spec

-----------------------------------------------------------------------------
\* A daemon that is down has nothing in memory.
DownIsEmpty == ~ up => mem = EmptyTable

\* One call takes a rule from memory only if its result does, or the process
\* dies in it.
LEMMA CallKeepsRules ==
    ASSUME NEW r, NEW ask, Call(r, ask), NEW rule \in mem.rules,
           r.persists => rule \in r.table.rules
    PROVE  rule \in mem'.rules \/ ~ up'
BY Zenon DEF Call, PersistOk, PersistFails, CrashInPersist

\* Over any history of calls, failed writes, crashes and restarts, a rule
\* leaves the table in memory only by a revoke of it, a forced rm of its peer
\* (StateError::PeerHasRules refuses the others) or a crash.
THEOREM RulesLeaveOnRequest == Spec => RulesOnlyLeaveOnRequest
<1>1. Init => DownIsEmpty
  BY Zenon DEF Init, DownIsEmpty
<1>2. DownIsEmpty /\ [Next]_vars => DownIsEmpty'
  BY ZenonT(40) DEF DownIsEmpty, Next, vars, AddPeer, AddRule, RemoveRule, RemovePeer, Call, PersistOk,
         PersistFails, CrashInPersist, TouchLastSeen, Crash, Restart
<1>3. IInv /\ DownIsEmpty /\ [Next]_vars =>
        [\A r \in mem.rules : \/ r \in mem'.rules
                              \/ RemoveRule(r.peer, r.target)
                              \/ RemovePeer(r.peer, TRUE)
                              \/ ~ up']_vars
  <2> SUFFICES ASSUME IInv, DownIsEmpty, Next, NEW rule \in mem.rules
               PROVE  \/ rule \in mem'.rules
                      \/ RemoveRule(rule.peer, rule.target)
                      \/ RemovePeer(rule.peer, TRUE)
                      \/ ~ up'
    BY Zenon
  <2>0. rule = [peer |-> rule.peer, target |-> rule.target]
    BY Zenon DEF IInv, TypeOK, Table, Rule
  <2>1. ASSUME NEW n \in Names, NEW d \in Nodes, AddPeer(n, d)
        PROVE  rule \in mem'.rules \/ ~ up'
    <3>1. add_peer(mem, n, d).persists => rule \in add_peer(mem, n, d).table.rules
      BY DEF add_peer, Return, Store, WithPeer
    <3> QED
      BY <2>1, <3>1, CallKeepsRules, Zenon DEF AddPeer
  <2>2. ASSUME NEW n \in Names, NEW t \in Targets, AddRule(n, t)
        PROVE  rule \in mem'.rules \/ ~ up'
    <3>1. add_rule(mem, n, t).persists => rule \in add_rule(mem, n, t).table.rules
      BY Zenon DEF add_rule, Return, Store, WithRules
    <3> QED
      BY <2>2, <3>1, CallKeepsRules, Zenon DEF AddRule
  <2>3. ASSUME NEW n \in Names, NEW t \in Targets, RemoveRule(n, t)
        PROVE  rule \in mem'.rules \/ RemoveRule(rule.peer, rule.target) \/ ~ up'
    <3>1. CASE rule = [peer |-> n, target |-> t]
      BY <2>3, <3>1, Zenon
    <3>2. CASE rule # [peer |-> n, target |-> t]
      <4>1. remove_rule(mem, n, t).persists => rule \in remove_rule(mem, n, t).table.rules
        BY <3>2, Zenon DEF remove_rule, Return, Store, WithRules
      <4> QED
        BY <2>3, <4>1, CallKeepsRules, Zenon DEF RemoveRule
    <3> QED
      BY <3>1, <3>2, Zenon
  <2>4. ASSUME NEW n \in Names, NEW force \in BOOLEAN, RemovePeer(n, force)
        PROVE  rule \in mem'.rules \/ RemovePeer(rule.peer, TRUE) \/ ~ up'
    <3>1. CASE rule.peer = n /\ force
      BY <2>4, <3>1, Zenon
    <3>2. CASE rule.peer # n \/ ~ force
      <4>1. remove_peer(mem, n, force).persists =>
              rule \in remove_peer(mem, n, force).table.rules
        BY <3>2, Zenon DEF remove_peer, Return, Store, rules_of
      <4> QED
        BY <2>4, <4>1, CallKeepsRules, Zenon DEF RemovePeer
    <3> QED
      BY <3>1, <3>2, Zenon
  <2>5. ASSUME NEW d \in Nodes, TouchLastSeen(d) PROVE rule \in mem'.rules
    BY <2>5, Zenon DEF TouchLastSeen, PersistOk, PersistFails
  <2>6. Crash => ~ up'
    BY Zenon DEF Crash
  <2>7. ~ Restart
    BY DEF Restart, DownIsEmpty, EmptyTable
  <2> QED
    BY <2>1, <2>2, <2>3, <2>4, <2>5, <2>6, <2>7, Zenon DEF Next
<1> QED
  BY <1>1, <1>2, <1>3, AlwaysSound, PTL DEF Spec, RulesOnlyLeaveOnRequest

-----------------------------------------------------------------------------
(***************************************************************************)
(* ntfy.toml and the notifications.                                        *)
(*                                                                         *)
(* The spacing rests on the cooldown never being younger than the last     *)
(* post.  The topic rests on ntfy.toml not being there while an enable is  *)
(* in its window: its inodes are written to only when they are not the     *)
(* file's.                                                                 *)
(***************************************************************************)
USE DEF drainVars, diskVars

Answers == {"ok", "enabled", "refused", "invalid", "error", "absent", "on", "off"}

\* A notification is recorded by the cooldown no later than it is posted.
RecordedFirst == \A k \in Keys : since[k] <= sincePost[k]

\* What an enable in its window relies on.
WindowIsAlone == \A q, r \in Requests : InWindow(q) /\ InWindow(r) => q = r
WindowIsUnconfigured == \A r \in Requests : InWindow(r) => file = {}
OpenIsBlank ==
    \A r \in Requests : rpc[r] = "write" =>
        tmp # {} /\ open[r] = tmp /\ \A i \in tmp : data[i] = {}
TmpIsWritten ==
    \A r \in Requests : rpc[r] = "rename" => tmp # {} /\ \A i \in tmp : data[i] = {{r}}

Undisturbed ==
    /\ WindowIsAlone
    /\ WindowIsUnconfigured
    /\ OpenIsBlank
    /\ TmpIsWritten

NtfyInv ==
    /\ NtfyTypeOK
    /\ RecordedFirst
    /\ ~clash => Undisturbed
    /\ ToldTopicIsUsed

-----------------------------------------------------------------------------
\* What ntfy.toml parses to is a topic some enable has generated.
LEMMA ConfigIsTopic == NtfyTypeOK => Config \subseteq Requests
BY DEF NtfyTypeOK, Config, Disk!Text

\* A reply is one of the answers, and it leaves the other answers alone.
LEMMA ReplyType ==
    ASSUME NtfyTypeOK, NEW r \in Requests, NEW result \in Answers, Respond(r, result)
    PROVE  /\ rpc' \in [Requests -> {"idle", "enable", "disable", "status", "test", "stop",
                                     "create", "write", "rename", "testing", "reply", "done",
                                     "cut"}]
           /\ answer' \in [Requests -> SUBSET Answers]
BY Zenon DEF NtfyTypeOK, Respond, Goto, Answers

\* Every step of the daemon and of its clients keeps every variable in its type.
LEMMA NtfyTypeStep == NtfyTypeOK /\ [NtfyNext]_ntfyVars => NtfyTypeOK'
<1> SUFFICES ASSUME NtfyTypeOK, [NtfyNext]_ntfyVars PROVE NtfyTypeOK'
  OBVIOUS
<1> USE DEF NtfyTypeOK
<1>1. ASSUME NEW r \in Requests, ipc_call(r) \/ Deliver(r) PROVE NtfyTypeOK'
  <2>1. PICK point \in {"enable", "disable", "status", "test", "stop", "cut", "done"} :
               rpc' = [rpc EXCEPT ![r] = point]
    BY <1>1, NtfyAssumption, Zenon DEF ipc_call, Deliver, Goto
  <2>2. UNCHANGED <<running, stopping, restarts, answer, drainVars, diskVars, clash, void>>
    BY <1>1, Zenon DEF ipc_call, Deliver
  <2> QED
    BY <2>1, <2>2, Zenon
<1>2. ASSUME NEW r \in Requests, NEW result \in Answers, Respond(r, result),
             UNCHANGED <<running, restarts, drainVars, clash>>,
             stopping' \in BOOLEAN, void' \subseteq Requests,
             file' \in SUBSET Requests, tmp' \in SUBSET Requests, UNCHANGED <<open, data>>
      PROVE  NtfyTypeOK'
  BY <1>2, ReplyType, Zenon DEF Answers
<1>3. ASSUME NEW r \in Requests, Stop(r) \/ EnableRefused(r) \/ FileFails(r) \/ Status(r)
                                  \/ TestEnds(r)
      PROVE  NtfyTypeOK'
  BY <1>2, <1>3, ZenonT(40) DEF Stop, EnableRefused, FileFails, Status, TestEnds, Answers
<1>4. ASSUME NEW r \in Requests, EnableChecked(r) PROVE NtfyTypeOK'
  BY <1>4, Zenon DEF EnableChecked, Goto
<1>5. ASSUME NEW r \in Requests, EnableCreates(r) PROVE NtfyTypeOK'
  BY <1>5, Zenon DEF EnableCreates, Goto, Disk!CreateTmp
<1>6. ASSUME NEW r \in Requests, EnableWrites(r) PROVE NtfyTypeOK'
  <2>1. PICK text \in Over(r) :
           data' = [i \in Requests |-> IF i \in open[r] THEN {text} ELSE data[i]]
    BY <1>6, Zenon DEF EnableWrites, Disk!WriteTmp
  <2>2. {text} \in SUBSET SUBSET Requests
    <3>1. text = {r} \/ text = {}
      BY <2>1 DEF Over
    <3>2. text \in SUBSET Requests
      BY <3>1, SMTT(30)
    <3> QED
      BY <3>2, SMTT(30)
  <2>3. data' \in [Requests -> SUBSET SUBSET Requests]
    BY <2>1, <2>2, Zenon
  <2> QED
    BY <1>6, <2>3, Zenon DEF EnableWrites, Goto, Disk!WriteTmp
<1>7. ASSUME NEW r \in Requests, EnableRenames(r) PROVE NtfyTypeOK'
  BY <1>2, <1>7, Zenon DEF EnableRenames, Disk!RenameTmp, Answers
<1>8. ASSUME NEW r \in Requests, Disable(r) PROVE NtfyTypeOK'
  BY <1>2, <1>8, ZenonT(40) DEF Disable, Disk!RemoveFile, Answers
<1>9. ASSUME NEW r \in Requests, Test(r) PROVE NtfyTypeOK'
  <2>1. CASE Config = {}
    BY <1>2, <1>9, <2>1, ZenonT(40) DEF Test, Answers
  <2>2. CASE Config # {}
    BY <1>9, <2>2, ZenonT(40) DEF Test, Goto
  <2> QED
    BY <2>1, <2>2, ZenonT(40)
<1>10. ASSUME NEW k \in Keys, Notify(k) PROVE NtfyTypeOK'
  BY <1>10, NtfyAssumption, SMTT(30) DEF Notify
<1>11. CASE Take
  <2>1. Head(queue) \in Keys /\ queue' \in Seq(Keys)
    BY <1>11, SMTT(30) DEF Take
  <2>2. since' \in [Keys -> 0 .. Cooldown] /\ sincePost' \in [Keys -> 0 .. Cooldown]
    BY <1>11, <2>1, NtfyAssumption, SMTT(30) DEF Take, admit
  <2>3. posting' \subseteq [key : Keys, topic : Requests]
    BY <1>11, <2>1, ConfigIsTopic, SMTT(30) DEF Take
  <2> QED
    BY <1>11, <2>1, <2>2, <2>3, ZenonT(40) DEF Take
<1>12. CASE Suppress
  <2>1. queue' \in Seq(Keys)
    BY <1>12 DEF Suppress
  <2> QED
    BY <1>12, <2>1, Zenon DEF Suppress
<1>17. CASE PostEnds
  BY <1>17, NtfyAssumption, SMTT(30) DEF PostEnds
<1>13. CASE TimePasses
  <2>1. since' \in [Keys -> 0 .. Cooldown] /\ sincePost' \in [Keys -> 0 .. Cooldown]
    BY <1>13, NtfyAssumption, SMTT(30) DEF TimePasses, Older
  <2>2. elapsed' \in 0 .. SendTimeout
    BY <1>13, NtfyAssumption, SMTT(30) DEF TimePasses
  <2> QED
    BY <1>13, <2>1, <2>2, ZenonT(40) DEF TimePasses
<1>14. CASE Shutdown
  <2>1. /\ since' \in [Keys -> 0 .. Cooldown] /\ sincePost' \in [Keys -> 0 .. Cooldown]
        /\ elapsed' \in 0 .. SendTimeout
    BY <1>14, NtfyAssumption, SMTT(30) DEF Shutdown
  <2>2. queue' \in Seq(Keys) /\ posting' \subseteq [key : Keys, topic : Requests]
    BY <1>14, SMTT(30) DEF Shutdown
  <2>3. /\ rpc' \in [Requests -> {"idle", "enable", "disable", "status", "test", "stop",
                                  "create", "write", "rename", "testing", "reply", "done",
                                  "cut"}]
        /\ answer' \in [Requests -> SUBSET Answers]
        /\ open' \in [Requests -> SUBSET Requests]
    BY <1>14, SMTT(30) DEF Shutdown, Answers
  <2> QED
    BY <1>14, <2>1, <2>2, <2>3, ZenonT(40) DEF Shutdown, Answers
<1>15. CASE Start
  BY <1>15, NtfyAssumption, SMTT(30) DEF Start
<1>16. CASE UNCHANGED ntfyVars
  BY <1>16, SMTT(30) DEF ntfyVars
<1> QED
  BY <1>1, <1>3, <1>4, <1>5, <1>6, <1>7, <1>8, <1>9, <1>10, <1>11, <1>12, <1>13, <1>14, <1>15, <1>16, <1>17, ZenonT(40)
  DEF NtfyNext, Serve, Enable, Drain

\* Time passes for the cooldown as it does for the posts.
LEMMA RecordedStep == NtfyTypeOK /\ RecordedFirst /\ [NtfyNext]_ntfyVars => RecordedFirst'
<1> SUFFICES ASSUME NtfyTypeOK, RecordedFirst, [NtfyNext]_ntfyVars, NEW k \in Keys
             PROVE  since'[k] <= sincePost'[k]
  BY DEF RecordedFirst
<1>t. /\ since \in [Keys -> 0 .. Cooldown] /\ sincePost \in [Keys -> 0 .. Cooldown]
      /\ since[k] <= sincePost[k] /\ Cooldown \in Nat
  BY NtfyAssumption DEF NtfyTypeOK, RecordedFirst
<1>1. CASE Take
  <2>1. /\ since' = [since EXCEPT ![Head(queue)] = 0]
        /\ sincePost' = sincePost \/ sincePost' = [sincePost EXCEPT ![Head(queue)] = 0]
    BY <1>1, SMTT(30) DEF Take, admit
  <2> QED
    BY <1>t, <2>1, SMTT(30)
<1>2. CASE TimePasses
  BY <1>t, <1>2, SMTT(30) DEF TimePasses, Older
<1>3. CASE Shutdown
  BY <1>t, <1>3 DEF Shutdown
<1>4. CASE UNCHANGED <<since, sincePost>>
  BY <1>t, <1>4, ZenonT(40)
<1>5. ASSUME NEW r \in Requests, ipc_call(r) \/ Serve(r) PROVE UNCHANGED <<since, sincePost>>
  BY <1>5, ZenonT(40)
  DEF ipc_call, Serve, Deliver, Stop, Enable, EnableRefused, EnableChecked, EnableCreates,
      EnableWrites, EnableRenames, Disable, FileFails, Status, Test, TestEnds
<1>6. ASSUME NEW j \in Keys, Notify(j) PROVE UNCHANGED <<since, sincePost>>
  BY <1>6, Zenon DEF Notify
<1>7. ASSUME Suppress \/ PostEnds \/ Start \/ UNCHANGED ntfyVars PROVE UNCHANGED <<since, sincePost>>
  BY <1>7, Zenon DEF Suppress, PostEnds, Start, ntfyVars
<1> QED
  BY <1>1, <1>2, <1>3, <1>4, <1>5, <1>6, <1>7, SMTT(30) DEF NtfyNext, Drain

\* A step that does not touch ntfy.toml, takes no enable into or along its
\* window and returns no topic.
NtfyQuiet ==
    /\ UNCHANGED <<file, tmp, data, clash, void>>
    /\ \A r \in Requests : InWindow(r)' => rpc'[r] = rpc[r] /\ open'[r] = open[r]
    /\ \A r \in Requests : answer'[r] = {"enabled"} => answer[r] = {"enabled"}

\* What the daemon does besides enabling and disabling is quiet.
LEMMA OthersAreQuiet ==
    ASSUME NtfyTypeOK
    PROVE  /\ \A r \in Requests : ipc_call(r) \/ Deliver(r) \/ Stop(r) \/ EnableRefused(r) \/ FileFails(r)
                                   \/ Status(r) \/ Test(r) \/ TestEnds(r) => NtfyQuiet
           /\ \A k \in Keys : Notify(k) => NtfyQuiet
           /\ Drain \/ TimePasses \/ Shutdown \/ Start \/ UNCHANGED ntfyVars => NtfyQuiet
<1>1. ASSUME NEW r \in Requests, ipc_call(r) \/ Deliver(r) PROVE NtfyQuiet
  <2>1. PICK point \in {"enable", "disable", "status", "test", "stop", "cut", "done"} :
               rpc' = [rpc EXCEPT ![r] = point]
    BY <1>1, NtfyAssumption, Zenon DEF ipc_call, Deliver, Goto
  <2>2. UNCHANGED <<diskVars, answer, clash, void>>
    BY <1>1, Zenon DEF ipc_call, Deliver
  <2> QED
    BY <2>1, <2>2 DEF NtfyTypeOK, NtfyQuiet, InWindow
<1>2. ASSUME NEW r \in Requests, NEW result \in Answers \ {"enabled"}, Respond(r, result),
             UNCHANGED <<diskVars, clash, void>>
      PROVE  NtfyQuiet
  BY <1>2, Zenon DEF NtfyTypeOK, NtfyQuiet, InWindow, Respond, Goto
<1>3. ASSUME NEW r \in Requests, Stop(r) \/ EnableRefused(r) \/ FileFails(r) \/ Status(r)
                                  \/ TestEnds(r)
      PROVE  NtfyQuiet
  BY <1>2, <1>3, Zenon DEF Stop, EnableRefused, FileFails, Status, TestEnds, Answers
<1>4. ASSUME NEW r \in Requests, Test(r) PROVE NtfyQuiet
  <2>1. CASE Config = {}
    BY <1>2, <1>4, <2>1, SMTT(30) DEF Test, Answers
  <2>2. CASE Config # {}
    BY <1>4, <2>2, Zenon DEF NtfyTypeOK, NtfyQuiet, InWindow, Test, Goto
  <2> QED
    BY <2>1, <2>2, SMTT(30)
<1>5. ASSUME NEW k \in Keys, Notify(k) PROVE NtfyQuiet
  BY <1>5, SMTT(30) DEF NtfyQuiet, Notify, InWindow
<1>6. ASSUME Drain \/ TimePasses \/ Start \/ UNCHANGED ntfyVars PROVE NtfyQuiet
  BY <1>6 DEF NtfyQuiet, Drain, Take, Suppress, PostEnds, TimePasses, Start, ntfyVars, InWindow
<1>7. ASSUME Shutdown PROVE NtfyQuiet
  BY <1>7, Zenon DEF NtfyTypeOK, NtfyQuiet, Shutdown, InWindow
<1> QED
  BY <1>1, <1>3, <1>4, <1>5, <1>6, <1>7, ZenonT(40)

\* A quiet step leaves what the windows rely on, and the topic in use.
LEMMA NtfyQuietStep ==
    ASSUME NtfyInv, NtfyQuiet
    PROVE  (~clash => Undisturbed)' /\ ToldTopicIsUsed'
<1>1. ASSUME ~clash PROVE Undisturbed'
  <2>1. Undisturbed
    BY <1>1, SMTT(30) DEF NtfyInv
  <2>2. WindowIsAlone' /\ WindowIsUnconfigured'
    BY <2>1 DEF NtfyQuiet, Undisturbed, WindowIsAlone, WindowIsUnconfigured, InWindow
  <2>3. OpenIsBlank' /\ TmpIsWritten'
    BY <2>1, SMTT(30) DEF NtfyQuiet, Undisturbed, OpenIsBlank, TmpIsWritten, InWindow
  <2> QED
    BY <2>2, <2>3 DEF Undisturbed
<1>2. Config' = Config /\ (Unreadable' <=> Unreadable)
  BY DEF NtfyQuiet, Config, Disk!Text, Unreadable
<1>3. ToldTopicIsUsed'
  BY <1>2 DEF NtfyInv, NtfyQuiet, ToldTopicIsUsed
<1> QED
  BY <1>1, <1>3 DEF NtfyQuiet

\* While an enable is in its window no topic is in use.
LEMMA NoneInUse ==
    ASSUME NtfyInv, ~clash, file = {}, NEW r \in Requests \ void
    PROVE  answer[r] # {"enabled"}
BY DEF NtfyInv, ToldTopicIsUsed, Config, Disk!Text

\* An enable that finds no ntfy.toml enters a window of its own.
LEMMA CheckedStep ==
    ASSUME NtfyInv, NEW r \in Requests, EnableChecked(r)
    PROVE  (~clash => Undisturbed)' /\ ToldTopicIsUsed'
<1>1. /\ UNCHANGED <<answer, void, diskVars>> /\ file = {}
      /\ ~clash' => ~clash /\ \A q \in Requests : ~InWindow(q)
  BY Zenon DEF EnableChecked
<1>2. ToldTopicIsUsed'
  BY <1>1, SMTT(30) DEF NtfyInv, ToldTopicIsUsed, Config, Disk!Text, Unreadable
<1>3. ASSUME ~clash' PROVE Undisturbed'
  <2>1. \A q \in Requests : InWindow(q)' => q = r /\ rpc'[q] = "create"
    BY <1>1, <1>3, SMTT(30) DEF EnableChecked, Goto, InWindow, NtfyInv, NtfyTypeOK
  <2> QED
    BY <1>1, <2>1, SMTT(30)
    DEF Undisturbed, WindowIsAlone, WindowIsUnconfigured, OpenIsBlank, TmpIsWritten, InWindow
<1> QED
  BY <1>2, <1>3

\* The temporary file it opens is blank, whoever has left it behind.
LEMMA CreatesStep ==
    ASSUME NtfyInv, NEW r \in Requests, EnableCreates(r)
    PROVE  (~clash => Undisturbed)' /\ ToldTopicIsUsed'
<1> SUFFICES ASSUME ~clash PROVE Undisturbed' /\ ToldTopicIsUsed'
  BY DEF EnableCreates, ToldTopicIsUsed
<1>t. Undisturbed /\ NtfyTypeOK /\ InWindow(r)
  BY DEF NtfyInv, EnableCreates, InWindow
<1>1. file = {} /\ file' = {}
  BY <1>t, SMTT(30) DEF Undisturbed, WindowIsUnconfigured, EnableCreates, Disk!CreateTmp
<1>2. ToldTopicIsUsed'
  BY <1>1, NoneInUse, SMTT(30) DEF EnableCreates, ToldTopicIsUsed, Config, Disk!Text, Unreadable
<1>3. \A q \in Requests : InWindow(q)' => q = r /\ rpc'[q] = "write"
  BY <1>t DEF EnableCreates, Goto, NtfyTypeOK, Undisturbed, WindowIsAlone, InWindow
<1>4. tmp' # {} /\ open'[r] = tmp' /\ \A i \in tmp' : data'[i] = {}
  BY <1>t, Zenon DEF EnableCreates, Disk!CreateTmp, NtfyTypeOK
<1> QED
  BY <1>1, <1>2, <1>3, <1>4, SMTT(30)
  DEF Undisturbed, WindowIsAlone, WindowIsUnconfigured, OpenIsBlank, TmpIsWritten, InWindow

\* What it writes to a blank file is what the file then holds.
LEMMA WritesStep ==
    ASSUME NtfyInv, NEW r \in Requests, EnableWrites(r)
    PROVE  (~clash => Undisturbed)' /\ ToldTopicIsUsed'
<1> SUFFICES ASSUME ~clash PROVE Undisturbed' /\ ToldTopicIsUsed'
  BY DEF EnableWrites, ToldTopicIsUsed
<1>t. Undisturbed /\ NtfyTypeOK /\ InWindow(r) /\ rpc[r] = "write"
  BY SMTT(30) DEF NtfyInv, EnableWrites, InWindow
<1>1. file = {} /\ file' = {}
  BY <1>t, SMTT(30) DEF Undisturbed, WindowIsUnconfigured, EnableWrites, Disk!WriteTmp
<1>2. ToldTopicIsUsed'
  BY <1>1, NoneInUse, SMTT(30) DEF EnableWrites, ToldTopicIsUsed, Config, Disk!Text, Unreadable
<1>3. \A q \in Requests : InWindow(q)' => q = r /\ rpc'[q] = "rename"
  BY <1>t, SMTT(30) DEF EnableWrites, Goto, NtfyTypeOK, Undisturbed, WindowIsAlone, InWindow
<1>4. tmp # {} /\ open[r] = tmp /\ \A i \in tmp : data[i] = {}
  BY <1>t, SMTT(30) DEF Undisturbed, OpenIsBlank
<1>5. Over(r) = {{r}}
  BY <1>4 DEF Over, Disk!Under
<1>6. data' = [i \in Requests |-> IF i \in open[r] THEN {{r}} ELSE data[i]]
  BY <1>5, Zenon DEF EnableWrites, Disk!WriteTmp
<1>7. tmp' # {} /\ \A i \in tmp' : data'[i] = {{r}}
  <2>1. tmp' = tmp /\ \A i \in tmp : i \in Requests
    BY <1>t, Zenon DEF EnableWrites, Disk!WriteTmp, NtfyTypeOK
  <2> QED
    BY <1>4, <1>6, <2>1, Zenon
<1> QED
  BY <1>1, <1>2, <1>3, <1>7, SMTT(30)
  DEF Undisturbed, WindowIsAlone, WindowIsUnconfigured, OpenIsBlank, TmpIsWritten, InWindow

\* The topic it returns is the one it has put in use, and the only one.
LEMMA RenamesStep ==
    ASSUME NtfyInv, NEW r \in Requests, EnableRenames(r)
    PROVE  (~clash => Undisturbed)' /\ ToldTopicIsUsed'
<1> SUFFICES ASSUME ~clash PROVE Undisturbed' /\ ToldTopicIsUsed'
  BY DEF EnableRenames, ToldTopicIsUsed
<1>t. Undisturbed /\ NtfyTypeOK /\ InWindow(r) /\ rpc[r] = "rename"
  BY DEF NtfyInv, EnableRenames, InWindow
<1>1. tmp # {} /\ \A i \in tmp : data[i] = {{r}}
  BY <1>t, SMTT(30) DEF Undisturbed, TmpIsWritten
<1>2. file' = tmp /\ data' = data /\ Respond(r, "enabled") /\ void' = void
  BY <1>1, SMTT(30) DEF EnableRenames, Disk!Renamable, Disk!RenameTmp
<1>3. \A q \in Requests : ~InWindow(q)'
  BY <1>t, <1>2 DEF Respond, Goto, NtfyTypeOK, Undisturbed, WindowIsAlone, InWindow
<1>4. Config' = {r}
  <2>1. Disk!Text' = {{r}}
    BY <1>1, <1>2 DEF Disk!Text
  <2> QED
    BY <2>1, Zenon DEF Config
<1>5. ASSUME NEW q \in Requests \ void, answer'[q] = {"enabled"} PROVE q = r
  <2>1. file = {}
    BY <1>t DEF Undisturbed, WindowIsUnconfigured
  <2> QED
    BY <1>t, <1>2, <1>5, <2>1, NoneInUse, SMTT(30) DEF Respond, NtfyTypeOK
<1>6. ToldTopicIsUsed'
  BY <1>2, <1>4, <1>5 DEF ToldTopicIsUsed, Unreadable
<1> QED
  BY <1>3, <1>6, SMTT(30)
  DEF Undisturbed, WindowIsAlone, WindowIsUnconfigured, OpenIsBlank, TmpIsWritten, InWindow

\* A disable takes every topic out of use, and leaves the windows alone.
LEMMA DisableStep ==
    ASSUME NtfyInv, NEW r \in Requests, Disable(r)
    PROVE  (~clash => Undisturbed)' /\ ToldTopicIsUsed'
<1> SUFFICES ASSUME ~clash PROVE Undisturbed' /\ ToldTopicIsUsed'
  BY DEF Disable, ToldTopicIsUsed
<1>t. Undisturbed /\ NtfyTypeOK
  BY DEF NtfyInv
<1>1. /\ file' = {} /\ UNCHANGED <<tmp, open, data>>
      /\ void' = void \cup {q \in Requests : answer[q] = {"enabled"}}
  BY DEF Disable, Disk!RemoveFile
<1>2. ASSUME NEW q \in Requests, answer'[q] = {"enabled"} PROVE answer[q] = {"enabled"}
  BY <1>t, <1>2, Zenon DEF Disable, Respond, NtfyTypeOK
<1>3. ToldTopicIsUsed'
  BY <1>1, <1>2, SMTT(30) DEF ToldTopicIsUsed, Unreadable
<1>4. \A q \in Requests : InWindow(q)' => rpc'[q] = rpc[q]
  BY <1>t DEF Disable, Respond, Goto, NtfyTypeOK, InWindow
<1>5. WindowIsAlone' /\ WindowIsUnconfigured'
  BY <1>t, <1>1, <1>4, SMTT(30) DEF Undisturbed, WindowIsAlone, WindowIsUnconfigured, InWindow
<1>6. OpenIsBlank' /\ TmpIsWritten'
  BY <1>t, <1>1, <1>4 DEF Undisturbed, OpenIsBlank, TmpIsWritten, InWindow
<1> QED
  BY <1>3, <1>5, <1>6, SMTT(30) DEF Undisturbed

-----------------------------------------------------------------------------
\* The daemon starts without ntfy.toml, with no request and no notification.
LEMMA NtfyInitSound == NtfyInit => NtfyInv
<1> SUFFICES ASSUME NtfyInit PROVE NtfyInv
  OBVIOUS
<1> USE DEF NtfyInit, Disk!NoFile
<1>1. NtfyTypeOK
  <2>1. running \in BOOLEAN /\ stopping \in BOOLEAN /\ clash \in BOOLEAN
    BY Zenon
  <2>2. /\ restarts \in 0 .. MaxRestarts /\ events \in 0 .. MaxEvents
        /\ elapsed \in 0 .. SendTimeout
        /\ since \in [Keys -> 0 .. Cooldown] /\ sincePost \in [Keys -> 0 .. Cooldown]
    BY NtfyAssumption
  <2>3. queue \in Seq(Keys)
    OBVIOUS
  <2> QED
    BY <2>1, <2>2, <2>3 DEF NtfyTypeOK
<1>2. RecordedFirst
  BY NtfyAssumption, SMTT(30) DEF RecordedFirst
<1>3. Undisturbed
  BY DEF Undisturbed, WindowIsAlone, WindowIsUnconfigured, OpenIsBlank, TmpIsWritten, InWindow
<1>4. ToldTopicIsUsed
  BY DEF ToldTopicIsUsed, Unreadable
<1> QED
  BY <1>1, <1>2, <1>3, <1>4 DEF NtfyInv

\* The inductive invariant holds throughout.
LEMMA NtfyInvariance == NtfySpec => []NtfyInv
<1>1. NtfyInv /\ [NtfyNext]_ntfyVars => NtfyInv'
  <2> SUFFICES ASSUME NtfyInv, [NtfyNext]_ntfyVars PROVE NtfyInv'
    OBVIOUS
  <2>t. NtfyTypeOK /\ RecordedFirst
    BY DEF NtfyInv
  <2>1. NtfyTypeOK' /\ RecordedFirst'
    BY <2>t, NtfyTypeStep, RecordedStep, SMTT(30)
  <2>2. (~clash => Undisturbed)' /\ ToldTopicIsUsed'
    BY <2>t, OthersAreQuiet, NtfyQuietStep, CheckedStep, CreatesStep, WritesStep, RenamesStep,
       DisableStep, SMTT(30) DEF NtfyNext, Serve, Enable
  <2> QED
    BY <2>1, <2>2 DEF NtfyInv
<1> QED
  BY <1>1, NtfyInitSound, PTL DEF NtfySpec

\* The drain task, the requests and ntfy.toml stay in their types.
THEOREM NtfyTypeCorrect == NtfySpec => []NtfyTypeOK
<1>1. NtfyInv => NtfyTypeOK
  BY DEF NtfyInv
<1> QED
  BY <1>1, NtfyInvariance, PTL

\* "Minimum spacing between two notifications with the same (event kind,
\* subject)" (notify.rs:20), for any number of subjects and any cooldown.
THEOREM PostsSpaced == NtfySpec => PostsAreSpaced
<1>1. NtfyInv /\ [NtfyNext]_ntfyVars =>
        [posting = {} => \A p \in posting' : sincePost[p.key] = Cooldown]_ntfyVars
  <2> SUFFICES ASSUME NtfyInv, NtfyNext, posting = {}, NEW p \in posting'
               PROVE  sincePost[p.key] = Cooldown
    BY DEF NtfyInv
  <2>1. Take
    <3>1. ASSUME NEW r \in Requests, ipc_call(r) \/ Serve(r) PROVE posting' = posting
      BY <3>1, ZenonT(40)
      DEF ipc_call, Serve, Deliver, Stop, Enable, EnableRefused, EnableChecked, EnableCreates,
          EnableWrites, EnableRenames, Disable, FileFails, Status, Test, TestEnds
    <3>2. ASSUME NEW k \in Keys, Notify(k) PROVE posting' = posting
      BY <3>2, SMTT(30) DEF Notify
    <3>3. Suppress \/ PostEnds \/ TimePasses \/ Shutdown \/ Start => posting' = {}
      BY SMTT(30) DEF Suppress, PostEnds, TimePasses, Shutdown, Start
    <3> QED
      BY <3>1, <3>2, <3>3, SMTT(30) DEF NtfyNext, Drain
  <2>2. p.key = Head(queue) /\ since[Head(queue)] >= Cooldown /\ Head(queue) \in Keys
    <3>1. /\ posting' = {[key |-> Head(queue), topic |-> t] : t \in Config}
          /\ since[Head(queue)] >= Cooldown /\ queue # << >>
      BY <2>1, Zenon DEF Take, admit
    <3>2. queue \in Seq(Keys)
      BY Zenon DEF NtfyInv, NtfyTypeOK
    <3>3. Head(queue) \in Keys
      BY <3>1, <3>2, SMTT(30)
    <3>4. p.key = Head(queue)
      BY <3>1, SMTT(30)
    <3> QED
      BY <3>1, <3>3, <3>4, Zenon
  <2> QED
    BY <2>2, NtfyAssumption, SMTT(30) DEF NtfyInv, NtfyTypeOK, RecordedFirst
<1> QED
  BY <1>1, NtfyInvariance, PTL DEF NtfySpec, PostsAreSpaced

\* "no silent topic rotation" (docs/design.md:609): unless two enables have
\* run at the same time, the topic an enable has returned stays the one in
\* use until a disable, over any number of requests and daemon restarts.
THEOREM ToldTopicStays == NtfySpec => []ToldTopicIsUsed
<1>1. NtfyInv => ToldTopicIsUsed
  BY DEF NtfyInv
<1> QED
  BY <1>1, NtfyInvariance, PTL

==============================================================================

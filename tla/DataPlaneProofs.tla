--------------------------- MODULE DataPlaneProofs ---------------------------
(***************************************************************************)
(* Proofs about DataPlane for all peers, connections and streams: types,   *)
(* the registry after re-dials, the live counts, and that a client is only *)
(* served what was granted to its node.                                    *)
(***************************************************************************)
EXTENDS DataPlane, PeerTableProofs

\* The table stays sound, as the lemmas about its operations need it.
TInv == TypeOK /\ Sound(table)

\* The entries of a table are peers.
LEMMA PeersTyped ==
    ASSUME NEW st, Sound(st), NEW k \in DOMAIN st.peers
    PROVE  /\ st.peers[k].name \in Names
           /\ st.peers[k].node \in Nodes
           /\ st.peers[k] = [name |-> st.peers[k].name, node |-> st.peers[k].node]
<1>1. st.peers \in Seq(Peer)
  BY DEF Sound, Table
<1>2. st.peers[k] \in Peer
  BY <1>1
<1> QED
  BY <1>2 DEF Peer

\* What peer_by_node finds is an entry of the table with that node id.
LEMMA FoundIsListed ==
    ASSUME NEW st, Sound(st), NEW d \in Nodes, NEW p \in peer_by_node(st, d)
    PROVE  \E k \in DOMAIN st.peers :
               /\ st.peers[k] = [name |-> p.name, node |-> d]
               /\ p.name \in Names
<1>1. PICK k \in DOMAIN st.peers : p = st.peers[k] /\ st.peers[k].node = d
  BY DEF peer_by_node
<1>2. p.name \in Names /\ p = [name |-> p.name, node |-> d]
  BY <1>1, PeersTyped, ZenonT(40)
<1> QED
  BY <1>1, <1>2

\* The step of a connection's task keeps every variable in its type.
LEMMA ConnTypes ==
    ASSUME TInv, NEW c \in Conns, Conn(c) \/ Connect(c) \/ Close(c)
    PROVE  TInv'
<1>0. NodeOf[c] \in Nodes /\ MaxDelay \in Nat
  BY DataPlaneAssumption, Zenon
<1> USE DEF TInv, TypeOK, Goto
<1>1. CASE Lookup(c)
  <2>1. \A p \in peer_by_node(table, NodeOf[c]) : p.name \in Names
    BY <1>0, FoundIsListed, Zenon
  <2>2. name' \in [Conns -> SUBSET Names]
    <3>1. CASE UNCHANGED name
      BY <3>1, Zenon
    <3>2. ASSUME NEW p \in peer_by_node(table, NodeOf[c]),
                 name' = [name EXCEPT ![c] = {p.name}]
          PROVE  name' \in [Conns -> SUBSET Names]
      BY <2>1, <3>2
    <3> QED
      BY <1>1, <3>1, <3>2, Zenon DEF Lookup
  <2>3. pc' \in [Conns -> {"idle", "arrived", "unknown", "known", "looping", "done"}]
    BY <1>1, ZenonT(40) DEF Lookup
  <2>4. waiters' \in Seq(Conns)
    BY <1>1 DEF Lookup
  <2>5. UNCHANGED <<delay, closed, entryVars, streamVars, adminVars>>
    BY <1>1, Zenon DEF Lookup
  <2> QED
    BY <2>2, <2>3, <2>4, <2>5, SMTT(30) DEF entryVars, streamVars, adminVars
<1>2. CASE Reject(c)
  <2>1. delay' \in 0 .. MaxDelay
    BY <1>0, <1>2, SMTT(30) DEF Reject, Escalated
  <2> QED
    BY <1>2, <2>1, SMTT(30) DEF Reject, HoldsLock, entryVars, streamVars, adminVars
<1>3. CASE Admit(c)
  BY <1>0, <1>3, SMTT(30) DEF Admit, HoldsLock, register, streamVars, adminVars
<1>4. CASE LoopEnds(c)
  BY <1>0, <1>4, SMTT(30) DEF LoopEnds, unregister, streamVars, adminVars
<1>5. CASE Connect(c)
  BY <1>5 DEF Connect, entryVars, streamVars, adminVars
<1>6. CASE Close(c)
  BY <1>6, ZenonT(40) DEF Close, entryVars, streamVars, adminVars
<1> QED
  BY <1>1, <1>2, <1>3, <1>4, <1>5, <1>6, ZenonT(40) DEF Conn

\* So does the step of a stream's task.
LEMMA StreamTypes ==
    ASSUME TInv, NEW s \in Streams, Stream(s)
    PROVE  TInv'
<1>0. ConnOf[s] \in Conns
  BY DataPlaneAssumption
<1> USE DEF TInv, TypeOK, connVars, adminVars
<1>1. CASE AcceptStream(s) \/ NoFrame(s)
  BY <1>1, ZenonT(40) DEF AcceptStream, NoFrame, entryVars
<1>2. ASSUME NEW t \in Targets, Deny(s, t) \/ Validate(s, t) \/ Forward(s, t) PROVE TInv'
  <2>1. CASE Deny(s, t)
    BY <2>1, Zenon DEF Deny, Answer, entryVars
  <2>2. CASE Validate(s, t)
    BY <2>2 DEF Validate, Answer, entryVars
  <2>3. CASE Forward(s, t)
    BY <2>3 DEF Forward, entryVars
  <2> QED
    BY <1>2, <2>1, <2>2, <2>3, SMTT(30)
<1>3. ASSUME NEW announced \in SUBSET Targets, Hello(s, announced) PROVE TInv'
  BY <1>0, <1>3, Zenon DEF Hello, Answer
<1>4. CASE DialFails(s)
  BY <1>4 DEF DialFails, Answer, entryVars
<1>5. live[ConnOf[s]] \in [Targets -> Nat]
  BY <1>0
<1>6. CASE Dialled(s)
  <2>1. forward_open(s) => live' \in [Conns -> [Targets -> Nat]]
    BY <1>0, <1>5 DEF forward_open
  <2> QED
    BY <1>6, <2>1, Zenon DEF Dialled, Answer
<1>7. CASE RelayEnds(s)
  <2>1. live' \in [Conns -> [Targets -> Nat]]
    BY <1>0, <1>5, <1>7 DEF RelayEnds, forward_close
  <2> QED
    BY <1>7, <2>1, ZenonT(40) DEF RelayEnds
<1> QED
  BY <1>1, <1>2, <1>3, <1>4, <1>6, <1>7, ZenonT(40) DEF Stream

\* So does a change of the table by a pairing or the admin.
LEMMA AdminTypes ==
    ASSUME TInv, Admin
    PROVE  TInv'
<1> USE DEF TInv, TypeOK, connVars, entryVars, streamVars
<1>1. ASSUME NEW n \in Names, NEW d \in Nodes, Pair(n, d) PROVE TInv'
  BY <1>1, AddPeerSound, Zenon DEF Pair, Sound
<1>2. ASSUME NEW n \in Names, NEW t \in Targets, Allow(n, t) PROVE TInv'
  <2>1. Sound(table')
    BY <1>2, AddRuleSound DEF Allow
  <2>2. \A k \in DOMAIN table.peers : table.peers[k].node \in Nodes
    BY PeersTyped, ZenonT(40)
  <2>3. grants' \subseteq [node : Nodes, target : Targets]
    BY <1>2, <2>2, SMTT(30) DEF Allow
  <2> QED
    BY <1>2, <2>1, <2>3, ZenonT(40) DEF Allow, Sound
<1>3. ASSUME NEW n \in Names, NEW t \in Targets, Revoke(n, t) PROVE TInv'
  BY <1>3, RemoveRuleSound, SMTT(30) DEF Revoke, Sound
<1>4. ASSUME NEW n \in Names, NEW force \in BOOLEAN, Remove(n, force) PROVE TInv'
  <2>1. Sound(table')
    BY <1>4, RemovePeerSound DEF Remove
  <2> QED
    BY <1>4, <2>1, SMTT(30) DEF Remove, Sound
<1> QED
  BY <1>1, <1>2, <1>3, <1>4, Zenon DEF Admin

\* Types and the soundness of the table hold in every reachable state.
LEMMA AlwaysTyped == Spec => []TInv
<1>1. Init => TInv
  BY EmptyTableSound, DataPlaneAssumption DEF Init, TInv, TypeOK, Sound
<1>2. TInv /\ [Next]_vars => TInv'
  <2> SUFFICES ASSUME TInv, [Next]_vars PROVE TInv'
    OBVIOUS
  <2>1. CASE UNCHANGED vars
    BY <2>1 DEF vars, connVars, entryVars, streamVars, adminVars, TInv, TypeOK
  <2> QED
    BY <2>1, ConnTypes, StreamTypes, AdminTypes DEF Next
<1> QED
  BY <1>1, <1>2, PTL DEF Spec

\* Every variable of the main endpoint keeps its type, for all constants; in
\* particular the reject delay stays within its cap.
THEOREM TypeCorrect == Spec => []TypeOK
<1>1. TInv => TypeOK
  BY Zenon DEF TInv
<1> QED
  BY <1>1, AlwaysTyped, PTL

-----------------------------------------------------------------------------
(***************************************************************************)
(* The registry.  The invariant also says that a node's last registered    *)
(* connection is one of that node.                                         *)
(***************************************************************************)
RInv == LatestIsListed /\ \A d \in Nodes : \A c \in latest[d] : NodeOf[c] = d

\* Only Admit and LoopEnds write the registry; other steps leave the
\* connections that are being served where they are.
LEMMA RegistryStep == TInv /\ RInv /\ [Next]_vars => RInv'
<1> SUFFICES ASSUME TInv, RInv, [Next]_vars PROVE RInv'
  OBVIOUS
<1> USE DEF RInv, LatestIsListed
<1>t. /\ pc \in [Conns -> {"idle", "arrived", "unknown", "known", "looping", "done"}]
      /\ sessions \in [Nodes -> SUBSET Conns] /\ latest \in [Nodes -> SUBSET Conns]
      /\ NodeOf \in [Conns -> Nodes]
  BY DataPlaneAssumption DEF TInv, TypeOK
<1>1. ASSUME NEW c \in Conns, Admit(c) PROVE RInv'
  BY <1>1, <1>t DEF Admit, register, Goto
<1>2. ASSUME NEW c \in Conns, LoopEnds(c) PROVE RInv'
  BY <1>2, <1>t DEF LoopEnds, unregister, Goto
<1>3. ASSUME UNCHANGED <<sessions, latest>>,
             \A c \in Conns : (pc'[c] = "looping") <=> (pc[c] = "looping")
      PROVE  RInv'
  BY <1>3, <1>t, SMTT(30)
<1>4. ASSUME NEW c \in Conns, Lookup(c) \/ Reject(c) \/ Connect(c) \/ Close(c)
      PROVE  RInv'
  BY <1>3, <1>4, <1>t DEF Lookup, Reject, Connect, Close, Goto, entryVars
<1>5. ASSUME NEW s \in Streams, Stream(s) PROVE RInv'
  <2>1. UNCHANGED <<sessions, latest, pc>>
    BY <1>5, Zenon DEF Stream, AcceptStream, NoFrame, Deny, Validate, Forward, Hello, DialFails,
                Dialled, RelayEnds, connVars, entryVars
  <2> QED
    BY <1>3, <2>1, Zenon
<1>6. CASE Admin \/ UNCHANGED vars
  <2>1. UNCHANGED <<sessions, latest, pc>>
    BY <1>6, Zenon DEF Admin, Pair, Allow, Revoke, Remove, vars, connVars, entryVars
  <2> QED
    BY <1>3, <2>1, Zenon
<1> QED
  BY <1>1, <1>2, <1>4, <1>5, <1>6 DEF Next, Conn

\* However connections of a node overlap, the registry lists only
\* connections that are being served, and the one that registered last until
\* it ends.
THEOREM RegistryFollowsRedials == Spec => []LatestIsListed
<1>1. Init => RInv
  BY DEF Init, RInv, LatestIsListed
<1>2. RInv => LatestIsListed
  BY DEF RInv
<1> QED
  BY <1>1, <1>2, RegistryStep, AlwaysTyped, PTL DEF Spec

-----------------------------------------------------------------------------
(***************************************************************************)
(* What is served was granted.  The argument needs two facts about the     *)
(* table: every rule in it was granted to the node that has the rule's     *)
(* name now, and the name a connection was authenticated as still belongs  *)
(* to its node, unless the peer was removed.                               *)
(***************************************************************************)
RulesAreGranted ==
    \A r \in table.rules : \A k \in DOMAIN table.peers :
        table.peers[k].name = r.peer =>
            [node |-> table.peers[k].node, target |-> r.target] \in grants

NamesAreKept ==
    \A c \in Conns : c \notin orphans =>
        \A n \in name[c] : \E k \in DOMAIN table.peers :
            table.peers[k] = [name |-> n, node |-> NodeOf[c]]

GInv == RulesAreGranted /\ NamesAreKept /\ ServedAsGranted

\* A pairing takes a free name, and no rule names a free name.
LEMMA PairGranted ==
    ASSUME TInv, GInv, NEW n \in Names, NEW d \in Nodes, Pair(n, d)
    PROVE  GInv'
<1>1. CASE table' = table
  BY <1>1, ZenonT(40) DEF Pair, GInv, RulesAreGranted, NamesAreKept, ServedAsGranted, connVars,
              streamVars
<1>2. CASE table' # table
  <2> DEFINE p == [name |-> n, node |-> d]
  <2>1. is_name_free(table, n) /\ table' = WithPeer(table, n, d)
    BY <1>2 DEF Pair, add_peer, Return, Store
  <2>2. table'.peers = Append(table.peers, p) /\ table'.rules = table.rules
    BY <2>1 DEF WithPeer
  <2>3. table.peers \in Seq(Peer) /\ p \in Peer
    BY DEF TInv, Sound, Table, Peer
  <2>4. /\ DOMAIN table'.peers = DOMAIN table.peers \cup {Len(table.peers) + 1}
        /\ \A k \in DOMAIN table.peers : table'.peers[k] = table.peers[k]
        /\ table'.peers[Len(table.peers) + 1] = p
    BY <2>2, <2>3, SMTT(30)
  <2>5. \A r \in table.rules : r.peer # n
    BY <2>1 DEF TInv, Sound, Consistent, RulesHavePeers, is_name_free
  <2>6. UNCHANGED <<grants, orphans, name, task, target>>
    BY DEF Pair, connVars, streamVars
  <2>7. RulesAreGranted'
    <3> SUFFICES ASSUME NEW r \in table.rules, NEW k \in DOMAIN table'.peers,
                        table'.peers[k].name = r.peer
                 PROVE  [node |-> table'.peers[k].node, target |-> r.target] \in grants
      BY <2>2, <2>6, Zenon DEF RulesAreGranted
    <3>1. p.name = n /\ r.peer # n
      BY <2>5, Zenon
    <3>2. k \in DOMAIN table.peers
      BY <2>4, <3>1, SMTT(30)
    <3> QED
      BY <2>4, <3>2, Zenon DEF GInv, RulesAreGranted
  <2>8. NamesAreKept'
    BY <2>4, <2>6 DEF GInv, NamesAreKept
  <2>9. ServedAsGranted'
    BY <2>6, Zenon DEF GInv, ServedAsGranted
  <2> QED
    BY <2>7, <2>8, <2>9 DEF GInv
<1> QED
  BY <1>1, <1>2, Zenon

\* peer.allow records the grant with the rule.
LEMMA AllowGranted ==
    ASSUME TInv, GInv, NEW n \in Names, NEW t \in Targets, Allow(n, t)
    PROVE  GInv'
<1>1. /\ table'.peers = table.peers
      /\ table'.rules \subseteq table.rules \cup {[peer |-> n, target |-> t]}
  BY Zenon DEF Allow, add_rule, Return, Store, WithRules
<1>2. grants \subseteq grants' /\ UNCHANGED <<orphans, name, task, target>>
  BY Zenon DEF Allow, connVars, streamVars
<1>3. RulesAreGranted'
  <2> SUFFICES ASSUME NEW r \in table'.rules, NEW k \in DOMAIN table.peers,
                      table.peers[k].name = r.peer
               PROVE  [node |-> table.peers[k].node, target |-> r.target] \in grants'
    BY <1>1, SMTT(30) DEF RulesAreGranted
  <2>1. CASE r \in table.rules
    BY <1>2, <2>1, SMTT(30) DEF GInv, RulesAreGranted
  <2>2. CASE r = [peer |-> n, target |-> t]
    <3>1. rule_allows(table', n, t) /\ r.peer = n /\ r.target = t
      BY <2>2, SMTT(30) DEF rule_allows
    <3> HIDE DEF rule_allows
    <3>2. k \in {j \in DOMAIN table.peers :
                    table.peers[j].name = n /\ rule_allows(table', n, t)}
      BY <3>1, SMTT(30)
    <3> QED
      BY <3>1, <3>2, SMTT(30) DEF Allow
  <2> QED
    BY <1>1, <2>1, <2>2, ZenonT(40)
<1>4. NamesAreKept'
  BY <1>1, <1>2, SMTT(30) DEF GInv, NamesAreKept
<1>5. ServedAsGranted'
  BY <1>2, SMTT(30) DEF GInv, ServedAsGranted
<1> QED
  BY <1>3, <1>4, <1>5 DEF GInv

\* peer.revoke only takes rules away.
LEMMA RevokeGranted ==
    ASSUME TInv, GInv, NEW n \in Names, NEW t \in Targets, Revoke(n, t)
    PROVE  GInv'
<1>1. table'.peers = table.peers /\ table'.rules \subseteq table.rules
  BY DEF Revoke, remove_rule, Return, Store, WithRules
<1>2. UNCHANGED <<grants, orphans, name, task, target>>
  BY DEF Revoke, connVars, streamVars
<1> QED
  BY <1>1, <1>2, SMTT(30) DEF GInv, RulesAreGranted, NamesAreKept, ServedAsGranted

\* peer.rm takes the rules of the peer along; connections authenticated as
\* the peer become orphans, those of other peers keep their entries.
LEMMA RemoveGranted ==
    ASSUME TInv, GInv, NEW n \in Names, NEW force \in BOOLEAN, Remove(n, force)
    PROVE  GInv'
<1>1. CASE table' = table
  BY <1>1, SMTT(30) DEF Remove, GInv, RulesAreGranted, NamesAreKept, ServedAsGranted, connVars,
              streamVars
<1>2. CASE table' # table
  <2> DEFINE peers == DropPeer(table.peers, n)
  <2>1. ~ is_name_free(table, n) /\ table'.peers = peers /\ table'.rules \subseteq table.rules
    BY <1>2 DEF Remove, remove_peer, Return, Store
  <2>2. /\ \A k \in DOMAIN peers : peers[k].name # n
        /\ \A k \in DOMAIN peers : \E j \in DOMAIN table.peers : peers[k] = table.peers[j]
        /\ \A j \in DOMAIN table.peers : table.peers[j].name # n =>
              \E k \in DOMAIN peers : peers[k] = table.peers[j]
    <3>1. Sound(table) /\ ~ is_name_free(table, n)
      BY <2>1, Zenon DEF TInv
    <3>2. /\ \A k \in DOMAIN peers :
                /\ peers[k].name # n
                /\ \E j \in DOMAIN table.peers : peers[k] = table.peers[j]
          /\ \A j \in DOMAIN table.peers : table.peers[j].name # n =>
                \E k \in DOMAIN peers : peers[k] = table.peers[j]
      BY <3>1, DropPeerKeepsOthers, ZenonT(40)
    <3> HIDE DEF peers
    <3> QED
      BY <3>2, Zenon
  <2> HIDE DEF peers
  <2>3. is_name_free(table', n)
    BY <2>1, <2>2, SMTT(30) DEF is_name_free
  <2>4. orphans' = orphans \cup {c \in Conns : n \in name[c]}
    BY <2>3 DEF Remove
  <2>5. UNCHANGED <<grants, name, task, target>>
    BY DEF Remove, connVars, streamVars
  <2>6. RulesAreGranted'
    <3> SUFFICES ASSUME NEW r \in table'.rules, NEW k \in DOMAIN peers, peers[k].name = r.peer
                 PROVE  [node |-> peers[k].node, target |-> r.target] \in grants
      BY <2>1, <2>5, Zenon DEF RulesAreGranted
    <3>1. PICK j \in DOMAIN table.peers : peers[k] = table.peers[j]
      BY <2>2, Zenon
    <3>2. r \in table.rules
      BY <2>1, Zenon
    <3>3. [node |-> table.peers[j].node, target |-> r.target] \in grants
      BY <3>1, <3>2, Zenon DEF GInv, RulesAreGranted
    <3> QED
      BY <3>1, <3>3, Zenon
  <2>7. NamesAreKept'
    <3> SUFFICES ASSUME NEW c \in Conns, c \notin orphans', NEW m \in name[c]
                 PROVE  \E k \in DOMAIN peers :
                            peers[k] = [name |-> m, node |-> NodeOf[c]]
      BY <2>1, <2>5 DEF NamesAreKept
    <3>1. m # n /\ c \notin orphans
      BY <2>4, Zenon
    <3>2. PICK j \in DOMAIN table.peers : table.peers[j] = [name |-> m, node |-> NodeOf[c]]
      BY <3>1 DEF GInv, NamesAreKept
    <3>3. table.peers[j].name # n
      BY <3>1, <3>2
    <3> QED
      BY <2>2, <3>2, <3>3, ZenonT(40)
  <2>8. ServedAsGranted'
    BY <2>4, <2>5, ZenonT(40) DEF GInv, ServedAsGranted
  <2> QED
    BY <2>6, <2>7, <2>8, Zenon DEF GInv
<1> QED
  BY <1>1, <1>2, ZenonT(40)

\* A lookup authenticates a connection as an entry of its own node.
LEMMA ConnGranted ==
    ASSUME TInv, GInv, NEW c \in Conns, Conn(c) \/ Connect(c) \/ Close(c)
    PROVE  GInv'
<1>1. UNCHANGED <<table, grants, orphans, task, target>>
  BY Zenon DEF Conn, Lookup, Reject, Admit, LoopEnds, Connect, Close, streamVars, adminVars
<1>2. NamesAreKept'
  <2>1. CASE UNCHANGED name
    BY <1>1, <2>1, ZenonT(40) DEF GInv, NamesAreKept
  <2>2. ASSUME NEW p \in peer_by_node(table, NodeOf[c]),
               name' = [name EXCEPT ![c] = {p.name}]
        PROVE  NamesAreKept'
    <3>1. NodeOf[c] \in Nodes /\ name \in [Conns -> SUBSET Names]
      BY DataPlaneAssumption, ZenonT(40) DEF TInv, TypeOK
    <3>2. \E k \in DOMAIN table.peers :
             table.peers[k] = [name |-> p.name, node |-> NodeOf[c]]
      BY <3>1, FoundIsListed DEF TInv
    <3>3. \A b \in Conns : name'[b] = IF b = c THEN {p.name} ELSE name[b]
      BY <2>2, <3>1
    <3> QED
      BY <1>1, <3>2, <3>3 DEF GInv, NamesAreKept
  <2> QED
    BY <2>1, <2>2, Zenon DEF Conn, Lookup, Reject, Admit, LoopEnds, Connect, Close
<1> QED
  BY <1>1, <1>2 DEF GInv, RulesAreGranted, ServedAsGranted

\* A stream goes on to dial only by a rule of the name its connection has.
LEMMA StreamGranted ==
    ASSUME TInv, GInv, NEW s \in Streams, Stream(s)
    PROVE  GInv'
<1>1. UNCHANGED <<table, grants, orphans, name>>
  BY Zenon DEF Stream, AcceptStream, NoFrame, Deny, Validate, Forward, Hello, DialFails, Dialled,
         RelayEnds, connVars, adminVars
<1>2. RulesAreGranted' /\ NamesAreKept'
  BY <1>1, Zenon DEF GInv, RulesAreGranted, NamesAreKept
<1>t. /\ task \in [Streams -> {"idle", "reading", "dialling", "relaying", "done"}]
      /\ target \in [Streams -> SUBSET Targets] /\ ConnOf[s] \in Conns
  BY DataPlaneAssumption, SMTT(30) DEF TInv, TypeOK
<1>3. CASE \E t \in Targets : Forward(s, t)
  <2>1. PICK t \in Targets : Forward(s, t)
    BY <1>3, ZenonT(40)
  <2>2. PICK n \in name[ConnOf[s]] : [peer |-> n, target |-> t] \in table.rules
    BY <2>1 DEF Forward, Allowed, rule_allows
  <2>3. ASSUME ConnOf[s] \notin orphans
        PROVE  [node |-> NodeOf[ConnOf[s]], target |-> t] \in grants
    <3>1. PICK k \in DOMAIN table.peers :
             table.peers[k] = [name |-> n, node |-> NodeOf[ConnOf[s]]]
      BY <1>t, <2>2, <2>3, ZenonT(40) DEF GInv, NamesAreKept
    <3>2. table.peers[k].name = n /\ table.peers[k].node = NodeOf[ConnOf[s]]
      BY <3>1
    <3> QED
      BY <2>2, <3>2, Zenon DEF GInv, RulesAreGranted
  <2>4. \A u \in Streams : /\ task'[u] = IF u = s THEN "dialling" ELSE task[u]
                           /\ target'[u] = IF u = s THEN {t} ELSE target[u]
    BY <1>t, <2>1, ZenonT(40) DEF Forward
  <2>5. ServedAsGranted'
    BY <1>1, <2>3, <2>4, ZenonT(40) DEF GInv, ServedAsGranted
  <2> QED
    BY <1>2, <2>5 DEF GInv
<1>4. CASE ~ \E t \in Targets : Forward(s, t)
  <2>1. /\ UNCHANGED target
        /\ \A u \in Streams : task'[u] \in {"dialling", "relaying"} =>
              task[u] \in {"dialling", "relaying"}
    BY <1>t, <1>4, Zenon DEF Stream, AcceptStream, NoFrame, Deny, Validate, Hello, DialFails, Dialled,
                      RelayEnds, Answer
  <2>2. ServedAsGranted'
    BY <1>1, <2>1, Zenon DEF GInv, ServedAsGranted
  <2> QED
    BY <1>2, <2>2 DEF GInv
<1> QED
  BY <1>3, <1>4, Zenon

\* A target is dialled for a client only if it was granted to a peer with the
\* client's node id, for any number of peers, names and overlapping changes,
\* as long as the peer the connection was authenticated as is not removed.
THEOREM ServedWasGranted == Spec => []ServedAsGranted
<1>1. Init => GInv
  <2> SUFFICES ASSUME Init PROVE GInv
    OBVIOUS
  <2>1. /\ table.rules = {}
        /\ \A c \in Conns : name[c] = {}
        /\ \A s \in Streams : target[s] = {}
    BY DEF Init, EmptyTable
  <2> QED
    BY <2>1, Zenon DEF GInv, RulesAreGranted, NamesAreKept, ServedAsGranted
<1>2. TInv /\ GInv /\ [Next]_vars => GInv'
  <2> SUFFICES ASSUME TInv, GInv, [Next]_vars PROVE GInv'
    OBVIOUS
  <2>1. CASE UNCHANGED vars
    BY <2>1, Zenon DEF vars, connVars, entryVars, streamVars, adminVars, GInv, RulesAreGranted,
                NamesAreKept, ServedAsGranted
  <2>2. CASE Admin
    BY <2>2, PairGranted, AllowGranted, RevokeGranted, RemoveGranted DEF Admin
  <2> QED
    BY <2>1, <2>2, ConnGranted, StreamGranted, Zenon DEF Next
<1>3. GInv => ServedAsGranted
  BY DEF GInv
<1> QED
  BY <1>1, <1>2, <1>3, AlwaysTyped, PTL DEF Spec

-----------------------------------------------------------------------------
(***************************************************************************)
(* The live counts.                                                        *)
(***************************************************************************)
Relaying(c, t) ==
    {s \in Streams : ConnOf[s] = c /\ t \in target[s] /\ task[s] = "relaying"}

\* A stream that starts to relay is counted for its connection and target.
LEMMA OpenCounts ==
    ASSUME TInv, LiveIsExact, NEW s \in Streams, task[s] = "dialling",
           forward_open(s), UNCHANGED target, task' = [task EXCEPT ![s] = "relaying"]
    PROVE  LiveIsExact'
<1> SUFFICES ASSUME NEW c \in Conns, NEW t \in Targets
             PROVE  live'[c][t] = Cardinality(Relaying(c, t)')
  BY DEF LiveIsExact, Relaying
<1>t. /\ live \in [Conns -> [Targets -> Nat]] /\ ConnOf \in [Streams -> Conns]
      /\ task \in [Streams -> {"idle", "reading", "dialling", "relaying", "done"}]
      /\ live[c][t] = Cardinality(Relaying(c, t))
  BY DataPlaneAssumption, Zenon DEF TInv, TypeOK, LiveIsExact, Relaying
<1>f. IsFiniteSet(Relaying(c, t)) /\ s \notin Relaying(c, t)
  BY DataPlaneAssumption, FS_Subset, Zenon DEF Relaying
<1>1. CASE c = ConnOf[s] /\ t \in target[s]
  <2>1. Relaying(c, t)' = Relaying(c, t) \cup {s}
    BY <1>1, <1>t, ZenonT(40) DEF Relaying
  <2>2. live'[c][t] = live[c][t] + 1
    BY <1>1, <1>t DEF forward_open
  <2>3. Cardinality(Relaying(c, t) \cup {s}) = Cardinality(Relaying(c, t)) + 1
    BY <1>f, FS_AddElement, Zenon
  <2> QED
    BY <1>t, <2>1, <2>2, <2>3, Zenon
<1>2. CASE ~ (c = ConnOf[s] /\ t \in target[s])
  <2>1. Relaying(c, t)' = Relaying(c, t)
    BY <1>2, <1>t, ZenonT(40) DEF Relaying
  <2>2. live'[c][t] = live[c][t]
    BY <1>2, <1>t, SMTT(30) DEF forward_open
  <2> QED
    BY <1>t, <2>1, <2>2, Zenon
<1> QED
  BY <1>1, <1>2, Zenon

\* A relay that ends is taken off; its count was not zero.
LEMMA CloseCounts ==
    ASSUME TInv, LiveIsExact, NEW s \in Streams, task[s] = "relaying",
           forward_close(s), UNCHANGED target, task' = [task EXCEPT ![s] = "done"]
    PROVE  LiveIsExact'
<1> SUFFICES ASSUME NEW c \in Conns, NEW t \in Targets
             PROVE  live'[c][t] = Cardinality(Relaying(c, t)')
  BY DEF LiveIsExact, Relaying
<1>t. /\ live \in [Conns -> [Targets -> Nat]] /\ ConnOf \in [Streams -> Conns]
      /\ task \in [Streams -> {"idle", "reading", "dialling", "relaying", "done"}]
      /\ live[c][t] = Cardinality(Relaying(c, t))
  BY DataPlaneAssumption, Zenon DEF TInv, TypeOK, LiveIsExact, Relaying
<1>f. IsFiniteSet(Relaying(c, t))
  BY DataPlaneAssumption, FS_Subset, Zenon DEF Relaying
<1>1. CASE c = ConnOf[s] /\ t \in target[s]
  <2>1. Relaying(c, t)' = Relaying(c, t) \ {s} /\ s \in Relaying(c, t)
    BY <1>1, <1>t, Zenon DEF Relaying
  <2>2. live[c][t] > 0
    <3>1. Cardinality(Relaying(c, t)) # 0
      BY <1>f, <2>1, FS_EmptySet
    <3>2. live[c][t] \in Nat
      BY <1>t, Zenon
    <3> QED
      BY <1>t, <3>1, <3>2, SMTT(30)
  <2>3. live'[c][t] = live[c][t] - 1
    BY <1>1, <1>t, <2>2 DEF forward_close
  <2>4. Cardinality(Relaying(c, t) \ {s}) = Cardinality(Relaying(c, t)) - 1
    BY <1>f, <2>1, FS_RemoveElement, ZenonT(40)
  <2> QED
    BY <1>t, <2>1, <2>3, <2>4, Zenon
<1>2. CASE ~ (c = ConnOf[s] /\ t \in target[s])
  <2>1. Relaying(c, t)' = Relaying(c, t)
    BY <1>2, <1>t, Zenon DEF Relaying
  <2>2. live'[c][t] = live[c][t]
    BY <1>2, <1>t, ZenonT(40) DEF forward_close
  <2> QED
    BY <1>t, <2>1, <2>2
<1> QED
  BY <1>1, <1>2, SMTT(30)

\* Other steps neither start nor end a relay and do not write the counts; a
\* stream only gets its target before it relays.
LEMMA OthersKeepCounts ==
    ASSUME LiveIsExact, UNCHANGED live,
           \A s \in Streams : (task'[s] = "relaying") <=> (task[s] = "relaying"),
           \A s \in Streams : task[s] = "relaying" => target'[s] = target[s]
    PROVE  LiveIsExact'
<1>1. \A c \in Conns, t \in Targets : Relaying(c, t)' = Relaying(c, t)
  BY DEF Relaying
<1> QED
  BY <1>1, SMTT(30) DEF LiveIsExact, Relaying

\* The live count that tmite admin status shows for a target is the number of
\* streams being relayed to it over the connection, for any number of streams
\* that open, fail and end in any order, also after the connection is gone.
THEOREM LiveCountsAreExact == Spec => []LiveIsExact
<1>1. Init => LiveIsExact
  <2> SUFFICES ASSUME Init, NEW c \in Conns, NEW t \in Targets
               PROVE  live[c][t] = Cardinality(Relaying(c, t))
    BY DEF LiveIsExact, Relaying
  <2>1. Relaying(c, t) = {}
    BY DEF Init, Relaying
  <2> QED
    BY <2>1, FS_EmptySet DEF Init
<1>2. TInv /\ LiveIsExact /\ [Next]_vars => LiveIsExact'
  <2> SUFFICES ASSUME TInv, LiveIsExact, [Next]_vars PROVE LiveIsExact'
    OBVIOUS
  <2>t. /\ task \in [Streams -> {"idle", "reading", "dialling", "relaying", "done"}]
        /\ target \in [Streams -> SUBSET Targets]
    BY DEF TInv, TypeOK
  <2>1. CASE UNCHANGED <<live, task, target>>
    BY <2>1, OthersKeepCounts
  <2>2. ASSUME NEW c \in Conns, Conn(c) \/ Connect(c) \/ Close(c)
        PROVE  UNCHANGED <<live, task, target>>
    BY <2>2, Zenon DEF Conn, Lookup, Reject, Admit, LoopEnds, Connect, Close, entryVars, streamVars
  <2>3. ASSUME Admin \/ UNCHANGED vars PROVE UNCHANGED <<live, task, target>>
    BY <2>3, Zenon DEF Admin, Pair, Allow, Revoke, Remove, vars, entryVars, streamVars
  <2>4. ASSUME NEW s \in Streams, Stream(s) PROVE LiveIsExact'
    <3>1. CASE task[s] = "dialling" /\ forward_open(s) /\ UNCHANGED target
               /\ task' = [task EXCEPT ![s] = "relaying"]
      BY <3>1, OpenCounts, Zenon
    <3>2. CASE RelayEnds(s)
      BY <3>2, CloseCounts, Zenon DEF RelayEnds
    <3>3. ASSUME UNCHANGED live, task[s] # "relaying",
                 \E point \in {"reading", "dialling", "done"} :
                     task' = [task EXCEPT ![s] = point],
                 \A u \in Streams : u # s => target'[u] = target[u]
          PROVE  LiveIsExact'
      BY <2>t, <3>3, OthersKeepCounts
    <3>4. CASE AcceptStream(s) \/ NoFrame(s) \/ DialFails(s)
      BY <3>3, <3>4, ZenonT(40) DEF AcceptStream, NoFrame, DialFails, Answer, entryVars
    <3>5. ASSUME NEW t \in Targets, Deny(s, t) \/ Validate(s, t) PROVE LiveIsExact'
      BY <3>3, <3>5 DEF Deny, Validate, Answer, entryVars
    <3>6. ASSUME NEW t \in Targets, Forward(s, t) PROVE LiveIsExact'
      BY <2>t, <3>3, <3>6, ZenonT(40) DEF Forward, entryVars
    <3>7. ASSUME NEW announced \in SUBSET Targets, Hello(s, announced) PROVE LiveIsExact'
      BY <3>3, <3>7, SMTT(30) DEF Hello, Answer
    <3>8. CASE Dialled(s)
      BY <3>1, <3>3, <3>8 DEF Dialled, Answer
    <3> QED
      BY <2>4, <3>2, <3>4, <3>5, <3>6, <3>7, <3>8, SMTT(30) DEF Stream
  <2> QED
    BY <2>1, <2>2, <2>3, <2>4, SMTT(30) DEF Next
<1> QED
  BY <1>1, <1>2, AlwaysTyped, PTL DEF Spec

=============================================================================

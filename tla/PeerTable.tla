------------------------------ MODULE PeerTable ------------------------------
(***************************************************************************)
(* The daemon's table of paired peers and access rules, PersistedState in  *)
(* tmite-core/src/daemon/state.rs, and what each method of State computes  *)
(* from it while it holds the state lock.  The operators are pure: the     *)
(* modules that extend this one decide when they run and what the disk     *)
(* does.                                                                   *)
(*                                                                         *)
(* Simplifications.  Timestamps are dropped.  The rules are a set: their   *)
(* order only shows in the index that peer.allow reports.  The peers keep  *)
(* their order, because peer_by_node returns the first match.              *)
(***************************************************************************)
EXTENDS Naturals, Sequences, FiniteSets

CONSTANTS
    Names,      \* peer names an admin may choose
    Nodes,      \* node ids of clients
    Targets,    \* forwarding targets
    MaxPeers,   \* limits::MAX_PEERS
    MaxRules    \* limits::MAX_RULES

ASSUME LimitsAssumption == MaxPeers \in Nat /\ MaxRules \in Nat

Peer == [name : Names, node : Nodes]
Rule == [peer : Names, target : Targets]
Table == [peers : Seq(Peer), rules : SUBSET Rule]

\* PersistedState::default(), what State::load starts from without a file.
EmptyTable == [peers |-> << >>, rules |-> {}]

is_name_free(st, n) == \A k \in DOMAIN st.peers : st.peers[k].name # n

rule_allows(st, n, t) == [peer |-> n, target |-> t] \in st.rules

rules_of(st, n) == {r \in st.rules : r.peer = n}

\* The Option<Peer> of peer_by_node, as the empty set or the set that holds
\* the first peer with this node id.
peer_by_node(st, d) ==
    {st.peers[k] : k \in {j \in DOMAIN st.peers :
        /\ st.peers[j].node = d
        /\ \A i \in 1 .. j - 1 : st.peers[i].node # d}}

-----------------------------------------------------------------------------
(***************************************************************************)
(* A mutating method returns the new table, whether it goes on to call     *)
(* persist_locked, and its reply if that call succeeds.                    *)
(***************************************************************************)
Return(st, res) == [table |-> st, persists |-> FALSE, res |-> res]
Store(st) == [table |-> st, persists |-> TRUE, res |-> "ok"]

\* Vec::push of a peer, and any change of the rules.
WithPeer(st, n, d) ==
    [peers |-> Append(st.peers, [name |-> n, node |-> d]), rules |-> st.rules]
WithRules(st, rules) == [peers |-> st.peers, rules |-> rules]

\* Vec::retain for the peers: names are unique, so at most one entry goes.
DropPeer(peers, n) ==
    IF \A k \in DOMAIN peers : peers[k].name # n THEN peers
    ELSE LET gone == CHOOSE k \in DOMAIN peers : peers[k].name = n
         IN  [k \in 1 .. Len(peers) - 1 |->
                 IF k < gone THEN peers[k] ELSE peers[k + 1]]

\* An add_peer that pushes before it looks for the name.
add_peer_push_first(st, n, d) ==
    IF ~ is_name_free(st, n) THEN Return(WithPeer(st, n, d), "name_taken")
    ELSE IF Len(st.peers) >= MaxPeers THEN Return(st, "peer_cap")
    ELSE Store(WithPeer(st, n, d))

add_peer(st, n, d) ==
    IF ~ is_name_free(st, n) THEN Return(st, "name_taken")
    ELSE IF Len(st.peers) >= MaxPeers THEN Return(st, "peer_cap")
    ELSE Store(WithPeer(st, n, d))

\* The cap is tested before the search for an existing rule.
add_rule(st, n, t) ==
    IF is_name_free(st, n) THEN Return(st, "not_found")
    ELSE IF Cardinality(st.rules) >= MaxRules THEN Return(st, "rule_cap")
    ELSE IF rule_allows(st, n, t) THEN Return(st, "ok")
    ELSE Store(WithRules(st, st.rules \cup {[peer |-> n, target |-> t]}))

remove_rule(st, n, t) ==
    IF is_name_free(st, n) THEN Return(st, "not_found")
    ELSE IF ~ rule_allows(st, n, t) THEN Return(st, "ok")
    ELSE Store(WithRules(st, st.rules \ {[peer |-> n, target |-> t]}))

\* A remove_peer that leaves the rules of the peer behind.
remove_peer_keeping_rules(st, n, force) ==
    IF is_name_free(st, n) THEN Return(st, "ok")
    ELSE IF rules_of(st, n) # {} /\ ~ force THEN Return(st, "peer_has_rules")
    ELSE Store([peers |-> DropPeer(st.peers, n), rules |-> st.rules])

\* A remove_peer that cascades without --force.
remove_peer_unforced(st, n, force) ==
    IF is_name_free(st, n) THEN Return(st, "ok")
    ELSE Store([peers |-> DropPeer(st.peers, n),
                rules |-> st.rules \ rules_of(st, n)])

remove_peer(st, n, force) ==
    IF is_name_free(st, n) THEN Return(st, "ok")
    ELSE IF rules_of(st, n) # {} /\ ~ force THEN Return(st, "peer_has_rules")
    ELSE Store([peers |-> DropPeer(st.peers, n),
                rules |-> st.rules \ rules_of(st, n)])

-----------------------------------------------------------------------------
(***************************************************************************)
(* What the rest of the daemon takes for granted about a table.            *)
(***************************************************************************)
NamesUnique(st) ==
    \A j, k \in DOMAIN st.peers : st.peers[j].name = st.peers[k].name => j = k

RulesHavePeers(st) == \A r \in st.rules : ~ is_name_free(st, r.peer)

WithinLimits(st) ==
    Len(st.peers) <= MaxPeers /\ Cardinality(st.rules) <= MaxRules

Consistent(st) == NamesUnique(st) /\ RulesHavePeers(st) /\ WithinLimits(st)

==============================================================================

--------------------------- MODULE PeerTableProofs ---------------------------
(***************************************************************************)
(* What the operations on the peer table preserve, for every table and all *)
(* limits.  A sound table is consistent and has finitely many rules: the   *)
(* cap of add_rule only means something for a finite set.                  *)
(***************************************************************************)
EXTENDS PeerTable, FiniteSetTheorems, TLAPS

Sound(st) == st \in Table /\ IsFiniteSet(st.rules) /\ Consistent(st)

\* The table a daemon starts with when there is no state.toml is sound.
LEMMA EmptyTableSound == Sound(EmptyTable)
<1>1. EmptyTable \in Table
  BY DEF EmptyTable, Table
<1>2. IsFiniteSet({}) /\ Cardinality({}) = 0
  BY FS_EmptySet
<1> QED
  BY <1>1, <1>2, LimitsAssumption
  DEF Sound, EmptyTable, Consistent, NamesUnique, RulesHavePeers,
      WithinLimits, is_name_free

\* State::add_peer keeps a table sound: it refuses a name that is taken and
\* a peer beyond MAX_PEERS.
LEMMA AddPeerSound ==
    ASSUME NEW st, Sound(st), NEW n \in Names, NEW d \in Nodes
    PROVE  Sound(add_peer(st, n, d).table)
<1> DEFINE p == [name |-> n, node |-> d]
           new == [peers |-> Append(st.peers, p), rules |-> st.rules]
<1>1. CASE ~ is_name_free(st, n) \/ Len(st.peers) >= MaxPeers
  BY <1>1, Zenon DEF add_peer, Return
<1>2. CASE is_name_free(st, n) /\ ~ (Len(st.peers) >= MaxPeers)
  <2>1. add_peer(st, n, d).table = new
    BY <1>2, Zenon DEF add_peer, Store, WithPeer
  <2>2. st.peers \in Seq(Peer) /\ p \in Peer /\ st \in Table
    BY Zenon DEF Sound, Table, Peer
  <2>4. new \in Table /\ IsFiniteSet(new.rules)
    BY <2>2 DEF Sound, Table
  <2>5. NamesUnique(new)
    BY <1>2, <2>2, SMTT(30) DEF Sound, Consistent, NamesUnique, is_name_free, Peer
  <2>6. RulesHavePeers(new)
    BY <2>2 DEF Sound, Consistent, RulesHavePeers, is_name_free, Peer
  <2>7. WithinLimits(new)
    BY <1>2, <2>2, LimitsAssumption DEF Sound, Consistent, WithinLimits
  <2> QED
    BY <2>1, <2>4, <2>5, <2>6, <2>7 DEF Sound, Consistent
<1> QED
  BY <1>1, <1>2

\* State::add_rule keeps a table sound: the peer exists and there is room.
LEMMA AddRuleSound ==
    ASSUME NEW st, Sound(st), NEW n \in Names, NEW t \in Targets
    PROVE  Sound(add_rule(st, n, t).table)
<1> DEFINE r == [peer |-> n, target |-> t]
           new == [peers |-> st.peers, rules |-> st.rules \cup {r}]
<1>1. CASE \/ is_name_free(st, n)
           \/ Cardinality(st.rules) >= MaxRules
           \/ rule_allows(st, n, t)
  BY <1>1 DEF add_rule, Return
<1>2. CASE /\ ~ is_name_free(st, n)
           /\ ~ (Cardinality(st.rules) >= MaxRules)
           /\ ~ rule_allows(st, n, t)
  <2>1. add_rule(st, n, t).table = new
    BY <1>2 DEF add_rule, Store, WithRules
  <2>3. new \in Table
    BY DEF Sound, Table, Rule
  <2>4. /\ IsFiniteSet(st.rules \cup {r})
        /\ Cardinality(st.rules \cup {r}) = Cardinality(st.rules) + 1
        /\ Cardinality(st.rules) \in Nat
    BY <1>2, FS_AddElement, FS_CardinalityType DEF Sound, rule_allows
  <2>5. RulesHavePeers(new)
    BY <1>2 DEF Sound, Consistent, RulesHavePeers, is_name_free
  <2>6. NamesUnique(new)
    BY DEF Sound, Consistent, NamesUnique
  <2>7. WithinLimits(new)
    BY <1>2, <2>4, LimitsAssumption DEF Sound, Consistent, WithinLimits
  <2> QED
    BY <2>1, <2>3, <2>4, <2>5, <2>6, <2>7, SMTT(30) DEF Sound, Consistent
<1> QED
  BY <1>1, <1>2

\* State::remove_rule keeps a table sound.
LEMMA RemoveRuleSound ==
    ASSUME NEW st, Sound(st), NEW n \in Names, NEW t \in Targets
    PROVE  Sound(remove_rule(st, n, t).table)
<1> DEFINE fewer == st.rules \ {[peer |-> n, target |-> t]}
           new == [peers |-> st.peers, rules |-> fewer]
<1>1. CASE is_name_free(st, n) \/ ~ rule_allows(st, n, t)
  BY <1>1 DEF remove_rule, Return
<1>2. CASE ~ is_name_free(st, n) /\ rule_allows(st, n, t)
  <2>1. remove_rule(st, n, t).table = new
    BY <1>2 DEF remove_rule, Store, WithRules
  <2>3. /\ IsFiniteSet(fewer)
        /\ Cardinality(fewer) <= Cardinality(st.rules)
        /\ Cardinality(fewer) \in Nat /\ Cardinality(st.rules) \in Nat
    BY FS_Subset, FS_CardinalityType, SMTT(30) DEF Sound
  <2>4. new \in Table /\ NamesUnique(new) /\ RulesHavePeers(new)
    BY DEF Sound, Table, Consistent, NamesUnique, RulesHavePeers, is_name_free
  <2>5. WithinLimits(new)
    BY <2>3, LimitsAssumption DEF Sound, Consistent, WithinLimits
  <2> QED
    BY <2>1, <2>3, <2>4, <2>5, SMTT(30) DEF Sound, Consistent
<1> QED
  BY <1>1, <1>2

\* What Vec::retain leaves of the peers when their names are unique: exactly
\* the peers with another name, in their order.
LEMMA DropPeerKeepsOthers ==
    ASSUME NEW st, Sound(st), NEW n \in Names, ~ is_name_free(st, n)
    PROVE  /\ DropPeer(st.peers, n) \in Seq(Peer)
           /\ Len(DropPeer(st.peers, n)) = Len(st.peers) - 1
           /\ \A k \in DOMAIN DropPeer(st.peers, n) :
                 /\ DropPeer(st.peers, n)[k].name # n
                 /\ \E j \in DOMAIN st.peers : DropPeer(st.peers, n)[k] = st.peers[j]
           /\ \A j \in DOMAIN st.peers : st.peers[j].name # n =>
                 \E k \in DOMAIN DropPeer(st.peers, n) :
                    DropPeer(st.peers, n)[k] = st.peers[j]
           /\ \A j, k \in DOMAIN DropPeer(st.peers, n) :
                 DropPeer(st.peers, n)[j].name = DropPeer(st.peers, n)[k].name => j = k
<1> DEFINE peers == st.peers
           gone == CHOOSE k \in DOMAIN peers : peers[k].name = n
           rest == [k \in 1 .. Len(peers) - 1 |->
                      IF k < gone THEN peers[k] ELSE peers[k + 1]]
<1>1. peers \in Seq(Peer)
  BY DEF Sound, Table
<1>2. gone \in DOMAIN peers /\ peers[gone].name = n
  BY DEF is_name_free
<1>3. DropPeer(peers, n) = rest
  BY <1>2 DEF DropPeer, is_name_free
<1>4. \A j, k \in DOMAIN peers : peers[j].name = peers[k].name => j = k
  BY DEF Sound, Consistent, NamesUnique
<1>5. Len(peers) \in Nat /\ DOMAIN peers = 1 .. Len(peers) /\ gone \in 1 .. Len(peers)
  BY <1>1, <1>2
<1> HIDE DEF gone
<1> DEFINE m == Len(peers) - 1
           at(k) == IF k < gone THEN k ELSE k + 1
<1>6. rest \in Seq(Peer) /\ Len(rest) = m /\ DOMAIN rest = 1 .. m
  <2>1. m \in Nat
    BY <1>5
  <2>2. rest \in [1 .. m -> Peer]
    BY <1>1, <1>5
  <2> HIDE DEF rest, m
  <2> QED
    BY <2>1, <2>2
<1>at. \A k \in 1 .. m : /\ rest[k] = peers[at(k)]
                         /\ at(k) \in DOMAIN peers
                         /\ at(k) # gone
                         /\ k \in Nat
  BY <1>5
<1>7. \A k \in DOMAIN rest :
         rest[k].name # n /\ \E j \in DOMAIN peers : rest[k] = peers[j]
  <2> HIDE DEF at, rest, m
  <2> QED
    BY <1>2, <1>4, <1>6, <1>at, SMTT(30)
<1>8. ASSUME NEW j \in DOMAIN peers, peers[j].name # n
      PROVE  \E k \in DOMAIN rest : rest[k] = peers[j]
  <2>1. CASE j < gone
    <3>1. j \in DOMAIN rest /\ rest[j] = peers[j]
      BY <1>5, <1>6, <2>1
    <3> QED
      BY <3>1
  <2>2. CASE j > gone
    <3>1. j - 1 \in DOMAIN rest /\ rest[j - 1] = peers[j]
      BY <1>5, <1>6, <2>2
    <3> QED
      BY <3>1
  <2> QED
    BY <1>2, <1>5, <1>8, <2>1, <2>2, SMTT(30)
<1>9. \A j, k \in DOMAIN rest : rest[j].name = rest[k].name => j = k
  <2>1. \A j, k \in 1 .. m : rest[j].name = rest[k].name => at(j) = at(k)
    <3> HIDE DEF at, rest, m
    <3> QED
      BY <1>4, <1>at
  <2>2. \A j, k \in 1 .. m : at(j) = at(k) => j = k
    BY <1>5
  <2> HIDE DEF at, rest, m
  <2> QED
    BY <1>6, <2>1, <2>2
<1> HIDE DEF rest
<1> QED
  BY <1>3, <1>6, <1>7, <1>8, <1>9, SMTT(30)

\* State::remove_peer keeps a table sound: the rules of the peer go with it.
LEMMA RemovePeerSound ==
    ASSUME NEW st, Sound(st), NEW n \in Names, NEW force \in BOOLEAN
    PROVE  Sound(remove_peer(st, n, force).table)
<1> DEFINE peers == DropPeer(st.peers, n)
           rules == st.rules \ rules_of(st, n)
           new == [peers |-> peers, rules |-> rules]
<1>1. CASE is_name_free(st, n) \/ (rules_of(st, n) # {} /\ ~ force)
  BY <1>1 DEF remove_peer, Return
<1>2. CASE ~ is_name_free(st, n) /\ ~ (rules_of(st, n) # {} /\ ~ force)
  <2>1. remove_peer(st, n, force).table = new
    BY <1>2 DEF remove_peer, Store
  <2>2. /\ IsFiniteSet(rules)
        /\ Cardinality(rules) <= Cardinality(st.rules)
        /\ Cardinality(rules) \in Nat /\ Cardinality(st.rules) \in Nat
    BY FS_Subset, FS_CardinalityType DEF Sound
  <2>3. /\ peers \in Seq(Peer)
        /\ Len(peers) = Len(st.peers) - 1
        /\ \A j \in DOMAIN st.peers : st.peers[j].name # n =>
              \E k \in DOMAIN peers : peers[k] = st.peers[j]
        /\ \A j, k \in DOMAIN peers : peers[j].name = peers[k].name => j = k
    BY <1>2, DropPeerKeepsOthers, ZenonT(40)
  <2> HIDE DEF peers
  <2>4. new \in Table /\ NamesUnique(new)
    BY <2>3 DEF Sound, Table, NamesUnique
  <2>5. RulesHavePeers(new)
    <3> SUFFICES ASSUME NEW r \in rules
                 PROVE  \E k \in DOMAIN peers : peers[k].name = r.peer
      BY DEF RulesHavePeers, is_name_free
    <3>1. r \in st.rules /\ r.peer # n
      BY DEF rules_of
    <3>2. PICK j \in DOMAIN st.peers : st.peers[j].name = r.peer
      BY <3>1 DEF Sound, Consistent, RulesHavePeers, is_name_free
    <3> QED
      BY <2>3, <3>1, <3>2
  <2>6. Len(st.peers) \in Nat
    BY DEF Sound, Table
  <2>7. WithinLimits(new)
    BY <2>2, <2>3, <2>6, LimitsAssumption DEF Sound, Consistent, WithinLimits
  <2> QED
    BY <2>1, <2>2, <2>4, <2>5, <2>7, SMTT(30) DEF Sound, Consistent
<1> QED
  BY <1>1, <1>2

==============================================================================

------------------------- MODULE ConnectViewProofs -------------------------
(***************************************************************************)
(* What holds of ConnectView for any finite set of connections and any     *)
(* bounds: what `tmite connect` shows follows the registry, is never more  *)
(* than was relayed, and never goes back.                                  *)
(*                                                                         *)
(* The argument is about the events on their way, in the channel and in    *)
(* the snapshot that the byte tick has still to send: an event says what   *)
(* was true when it was sent, and the order in which they come is that of  *)
(* the life of a connection.  The totals are sums over all connections;    *)
(* the facts about sums come first.                                        *)
(***************************************************************************)
EXTENDS ConnectView, FiniteSetTheorems, WellFoundedInduction, TLAPS

-----------------------------------------------------------------------------
(***************************************************************************)
(* Sums over a finite set, by induction on its subsets.                    *)
(***************************************************************************)
\* The element that a fold takes first.
Pick(s) == CHOOSE x \in s : TRUE

\* In a family of subsets of a finite set one has no smaller one.
LEMMA Smallest ==
    ASSUME NEW S, IsFiniteSet(S), NEW T \in SUBSET (SUBSET S), T # {}
    PROVE  \E s \in T : \A x \in s : s \ {x} \notin T
<1>1. IsWellFoundedOn(StrictSubsetOrdering(S), SUBSET S)
  BY FS_StrictSubsetOrderingWellFounded, FS_FiniteSubsetsOfFinite, SMTT(30)
<1>2. PICK s \in T : \A t \in T : ~(<<t, s>> \in StrictSubsetOrdering(S))
  BY <1>1, WFMin
<1>3. \A x \in s : s \ {x} \in SUBSET S => <<s \ {x}, s>> \in StrictSubsetOrdering(S)
  BY DEF StrictSubsetOrdering
<1> QED
  BY <1>2, <1>3, Zenon

\* I sums f over the sets of D, one element at a time.
Steps(f, D, I) == \A s \in D : I[s] = IF s = {} THEN 0 ELSE f[Pick(s)] + I[s \ {Pick(s)}]

\* The subsets of S with at most n elements.
Upto(S, n) == {s \in SUBSET S : Cardinality(s) <= n}

\* A set that is not empty has one.
LEMMA PickIs == \A s : s # {} => Pick(s) \in s
  BY DEF Pick

\* The sum of a function over the subsets of its domain.
LEMMA SumsExist ==
    ASSUME NEW S, IsFiniteSet(S), NEW f \in [S -> Nat]
    PROVE  \E I \in [SUBSET S -> Nat] : Steps(f, SUBSET S, I)
<1> DEFINE Has(n) == \E I \in [Upto(S, n) -> Nat] : Steps(f, Upto(S, n), I)
<1>1. \A s \in SUBSET S : IsFiniteSet(s) /\ Cardinality(s) \in Nat
  BY FS_Subset, FS_CardinalityType
<1>2. Has(0)
  <2>1. Upto(S, 0) = {{}}
    BY <1>1, FS_EmptySet DEF Upto
  <2>2. [s \in {{}} |-> 0] \in [{{}} -> Nat] /\ Steps(f, {{}}, [s \in {{}} |-> 0])
    BY DEF Steps
  <2> QED
    BY <2>1, <2>2, Zenon
<1>3. ASSUME NEW n \in Nat, Has(n) PROVE Has(n + 1)
  <2>1. PICK I \in [Upto(S, n) -> Nat] : Steps(f, Upto(S, n), I)
    BY <1>3
  <2> DEFINE J == [s \in Upto(S, n + 1) |-> IF s = {} THEN 0 ELSE f[Pick(s)] + I[s \ {Pick(s)}]]
  <2>2. \A s \in Upto(S, n + 1) : s # {} => Pick(s) \in S /\ s \ {Pick(s)} \in Upto(S, n)
    <3> TAKE s \in Upto(S, n + 1)
    <3> HAVE s # {}
    <3>1. Pick(s) \in s /\ s \in SUBSET S /\ Cardinality(s) <= n + 1
      BY PickIs DEF Upto
    <3>2. Cardinality(s \ {Pick(s)}) = Cardinality(s) - 1 /\ Cardinality(s) \in Nat
      BY <1>1, <3>1, FS_RemoveElement
    <3>3. Cardinality(s \ {Pick(s)}) <= n
      BY <3>1, <3>2
    <3> QED
      BY <3>1, <3>3 DEF Upto
  <2>3. J \in [Upto(S, n + 1) -> Nat]
    BY <2>2
  <2>4. \A s \in Upto(S, n) : s \in Upto(S, n + 1) /\ J[s] = I[s]
    <3>1. \A s \in Upto(S, n) : s \in Upto(S, n + 1)
      BY <1>1 DEF Upto
    <3> QED
      BY <2>1, <3>1, Zenon DEF Steps
  <2>5. Steps(f, Upto(S, n + 1), J)
    BY <2>2, <2>4, Zenon DEF Steps
  <2> QED
    BY <2>3, <2>5, Zenon
<1> HIDE DEF Has
<1>4. Has(Cardinality(S))
  <2> DEFINE Bad == {s \in SUBSET S : ~Has(Cardinality(s))}
  <2>1. SUFFICES ASSUME S \in Bad PROVE FALSE
    OBVIOUS
  <2>2. PICK s \in Bad : \A x \in s : s \ {x} \notin Bad
    BY <2>1, Smallest, Bad \in SUBSET (SUBSET S), Zenon
  <2>3. s # {}
    BY <1>2, FS_EmptySet
  <2>4. PICK x \in s : TRUE
    BY <2>3
  <2>5. Cardinality(s \ {x}) = Cardinality(s) - 1 /\ Cardinality(s) \in Nat /\ Cardinality(s \ {x}) \in Nat
    BY <1>1, FS_RemoveElement
  <2>6. Has(Cardinality(s) - 1)
    BY <2>2, <2>5
  <2>7. Cardinality(s) - 1 \in Nat /\ Cardinality(s) - 1 + 1 = Cardinality(s)
    BY <2>5
  <2> QED
    BY <1>3, <2>6, <2>7
<1>5. Upto(S, Cardinality(S)) = SUBSET S
  BY FS_Subset DEF Upto
<1> QED
  BY <1>4, <1>5 DEF Has

\* SumFunction, a fold over the domain, is that sum.
LEMMA SumIs ==
    ASSUME NEW S, IsFiniteSet(S), NEW f \in [S -> Nat]
    PROVE  \E I \in [SUBSET S -> Nat] : Steps(f, SUBSET S, I) /\ SumFunction(f) = I[S]
<1> DEFINE Q(g, s) == IF s = {} THEN 0
                      ELSE f[CHOOSE x \in s : TRUE] + g[s \ {CHOOSE x \in s : TRUE}]
<1> DEFINE P(g) == g = [s \in SUBSET S |-> Q(g, s)]
<1> DEFINE G == CHOOSE g : P(g)
<1>1. SumFunction(f) = G[S]
  BY DEF SumFunction, SumFunctionOnSet, FoldFunctionOnSet, MapThenFoldSet
<1>2. PICK I \in [SUBSET S -> Nat] : Steps(f, SUBSET S, I)
  BY SumsExist, Zenon
<1>3. \A s \in SUBSET S : I[s] = Q(I, s)
  BY <1>2 DEF Steps, Pick
<1> HIDE DEF Q
<1>4. P(I)
  BY <1>2, <1>3
<1>5. P(G)
  BY <1>4
<1>6. \A s \in SUBSET S : G[s] = Q(G, s)
  BY <1>5, Zenon
<1>7. \A s \in SUBSET S : G[s] = IF s = {} THEN 0 ELSE f[Pick(s)] + G[s \ {Pick(s)}]
  BY <1>6, Zenon DEF Q, Pick
<1> HIDE DEF G
<1>8. \A s \in SUBSET S : G[s] \in Nat
  <2> DEFINE Bad == {s \in SUBSET S : G[s] \notin Nat}
  <2>1. SUFFICES ASSUME Bad # {} PROVE FALSE
    OBVIOUS
  <2>a. Bad \in SUBSET (SUBSET S)
    OBVIOUS
  <2> HIDE DEF Bad
  <2>2. PICK s \in Bad : \A x \in s : s \ {x} \notin Bad
    BY <2>1, <2>a, Smallest, Zenon
  <2> USE DEF Bad
  <2>3. s # {} /\ s \in SUBSET S
    <3>1. s \in SUBSET S /\ G[s] \notin Nat
      OBVIOUS
    <3>2. G[{}] = 0 /\ 0 \in Nat
      BY <1>7, Zenon
    <3> HIDE DEF Bad
    <3> QED
      BY <3>1, <3>2, Zenon
  <2>4. Pick(s) \in s /\ Pick(s) \in S /\ s \ {Pick(s)} \in SUBSET S
    BY <2>3, PickIs
  <2>5. G[s \ {Pick(s)}] \in Nat /\ f[Pick(s)] \in Nat
    BY <2>2, <2>4
  <2>6. G[s] = f[Pick(s)] + G[s \ {Pick(s)}]
    BY <1>7, <2>3, Zenon
  <2> QED
    BY <2>5, <2>6
<1>9. G \in [SUBSET S -> Nat]
  BY <1>5, <1>8, Zenon
<1> QED
  BY <1>1, <1>7, <1>9, Zenon DEF Steps

\* A sum of numbers is a number.
LEMMA SumType ==
    ASSUME NEW S, IsFiniteSet(S), NEW f \in [S -> Nat]
    PROVE  SumFunction(f) \in Nat
<1>1. PICK I \in [SUBSET S -> Nat] : SumFunction(f) = I[S]
  BY SumIs, Zenon
<1> QED
  BY <1>1

\* Sums are compared term by term.
LEMMA SumLe ==
    ASSUME NEW S, IsFiniteSet(S), NEW f \in [S -> Nat], NEW g \in [S -> Nat], NEW h \in [S -> Nat],
           \A x \in S : f[x] + g[x] <= h[x]
    PROVE  SumFunction(f) + SumFunction(g) <= SumFunction(h)
<1>1. PICK F \in [SUBSET S -> Nat] : Steps(f, SUBSET S, F) /\ SumFunction(f) = F[S]
  BY SumIs, Zenon
<1>2. PICK G \in [SUBSET S -> Nat] : Steps(g, SUBSET S, G) /\ SumFunction(g) = G[S]
  BY SumIs, Zenon
<1>3. PICK H \in [SUBSET S -> Nat] : Steps(h, SUBSET S, H) /\ SumFunction(h) = H[S]
  BY SumIs, Zenon
<1>4. \A s \in SUBSET S : F[s] + G[s] <= H[s]
  <2> DEFINE Bad == {s \in SUBSET S : ~(F[s] + G[s] <= H[s])}
  <2>1. SUFFICES ASSUME Bad # {} PROVE FALSE
    OBVIOUS
  <2>a. Bad \in SUBSET (SUBSET S)
    OBVIOUS
  <2> HIDE DEF Bad
  <2>2. PICK s \in Bad : \A x \in s : s \ {x} \notin Bad
    BY <2>1, <2>a, Smallest, Zenon
  <2> USE DEF Bad
  <2>3. s \in SUBSET S /\ ~(F[s] + G[s] <= H[s])
    OBVIOUS
  <2>4. s # {}
    <3>1. s = {} => F[s] = 0 /\ G[s] = 0 /\ H[s] = 0
      BY <1>1, <1>2, <1>3, <2>3, Zenon DEF Steps
    <3> QED
      BY <2>3, <3>1
  <2>5. Pick(s) \in s /\ Pick(s) \in S /\ s \ {Pick(s)} \in SUBSET S
    BY <2>3, <2>4, PickIs, SMTT(30)
  <2> DEFINE x == Pick(s)
  <2> DEFINE t == s \ {Pick(s)}
  <2>6. F[s] = f[x] + F[t] /\ G[s] = g[x] + G[t] /\ H[s] = h[x] + H[t]
    BY <1>1, <1>2, <1>3, <2>3, <2>4, SMTT(30) DEF Steps
  <2>7. F[t] + G[t] <= H[t]
    BY <2>2, <2>5
  <2>8. F[t] \in Nat /\ G[t] \in Nat /\ H[t] \in Nat /\ f[x] \in Nat /\ g[x] \in Nat /\ h[x] \in Nat
    BY <2>5
  <2>9. f[x] + g[x] <= h[x]
    BY <2>5
  <2> HIDE DEF x, t
  <2> QED
    BY <2>3, <2>6, <2>7, <2>8, <2>9, SMTT(30)
<1> QED
  BY <1>1, <1>2, <1>3, <1>4

\* What a change of one term does to a sum.
LEMMA SumChange ==
    ASSUME NEW S, IsFiniteSet(S), NEW f \in [S -> Nat], NEW g \in [S -> Nat], NEW a \in S,
           \A x \in S \ {a} : f[x] = g[x]
    PROVE  SumFunction(f) + g[a] = SumFunction(g) + f[a]
<1>1. PICK F \in [SUBSET S -> Nat] : Steps(f, SUBSET S, F) /\ SumFunction(f) = F[S]
  BY SumIs, Zenon
<1>2. PICK G \in [SUBSET S -> Nat] : Steps(g, SUBSET S, G) /\ SumFunction(g) = G[S]
  BY SumIs, Zenon
<1> DEFINE Good(s) == IF a \in s THEN F[s] + g[a] = G[s] + f[a] ELSE F[s] = G[s]
<1>3. \A s \in SUBSET S : Good(s)
  <2> DEFINE Bad == {s \in SUBSET S : ~Good(s)}
  <2>1. SUFFICES ASSUME Bad # {} PROVE FALSE
    OBVIOUS
  <2>a. Bad \in SUBSET (SUBSET S)
    OBVIOUS
  <2> HIDE DEF Bad
  <2>2. PICK s \in Bad : \A x \in s : s \ {x} \notin Bad
    BY <2>1, <2>a, Smallest, Zenon
  <2> USE DEF Bad
  <2>3. s \in SUBSET S /\ ~Good(s)
    OBVIOUS
  <2>4. s # {}
    <3>1. s = {} => F[s] = 0 /\ G[s] = 0
      BY <1>1, <1>2, <2>3, Zenon DEF Steps
    <3> QED
      BY <2>3, <3>1
  <2>5. Pick(s) \in s /\ Pick(s) \in S /\ s \ {Pick(s)} \in SUBSET S
    BY <2>3, <2>4, PickIs
  <2> DEFINE x == Pick(s)
  <2> DEFINE t == s \ {Pick(s)}
  <2>6. F[s] = f[x] + F[t] /\ G[s] = g[x] + G[t]
    BY <1>1, <1>2, <2>3, <2>4, SMTT(30) DEF Steps
  <2>7. Good(t)
    BY <2>2, <2>5
  <2>8. F[t] \in Nat /\ G[t] \in Nat /\ f[x] \in Nat /\ g[x] \in Nat /\ f[a] \in Nat /\ g[a] \in Nat
    BY <2>5
  <2>9. (x = a \/ f[x] = g[x]) /\ (a \in t <=> a \in s /\ a # x) /\ (x = a => a \in s)
    BY <2>5
  <2> HIDE DEF x, t
  <2> QED
    BY <2>3, <2>6, <2>7, <2>8, <2>9
<1> QED
  BY <1>1, <1>2, <1>3

\* A row shows its own counter, and no row shows nothing.
LEMMA SumOfOne == SumSet({}) = 0 /\ \A n \in Nat : SumSet({n}) = n
<1>1. SumSet({}) = 0
  <2> DEFINE P(g) == g = [s \in SUBSET {} |-> IF s = {} THEN 0
                      ELSE (CHOOSE x \in s : TRUE) + g[s \ {CHOOSE x \in s : TRUE}]]
  <2>1. SumSet({}) = (CHOOSE g : P(g))[{}]
    BY DEF SumSet, FoldSet, MapThenFoldSet
  <2>2. P([s \in SUBSET {} |-> 0])
    BY SMTT(30)
  <2>3. P(CHOOSE g : P(g))
    BY <2>2, SMTT(30)
  <2> QED
    BY <2>1, <2>3, Zenon
<1>2. ASSUME NEW n \in Nat PROVE SumSet({n}) = n
  <2> DEFINE Q(g, s) == IF s = {} THEN 0
                        ELSE (CHOOSE x \in s : TRUE) + g[s \ {CHOOSE x \in s : TRUE}]
  <2> DEFINE P(g) == g = [s \in SUBSET {n} |-> Q(g, s)]
  <2> DEFINE J == [s \in SUBSET {n} |-> IF s = {} THEN 0 ELSE n]
  <2>1. SumSet({n}) = (CHOOSE g : P(g))[{n}]
    BY DEF SumSet, FoldSet, MapThenFoldSet
  <2>2. (CHOOSE x \in {n} : TRUE) = n
    OBVIOUS
  <2>3. {n} \ {n} = {} /\ \A s \in SUBSET {n} : s = {} \/ s = {n}
    BY Zenon
  <2>4. \A g : Q(g, {}) = 0 /\ Q(g, {n}) = n + g[{}]
    BY <2>2, <2>3, Zenon
  <2> HIDE DEF Q
  <2>5. \A s \in SUBSET {n} : J[s] = Q(J, s)
    <3>1. J[{}] = 0 /\ J[{n}] = n
      BY Zenon
    <3>2. Q(J, {}) = 0 /\ Q(J, {n}) = n + J[{}]
      BY <2>4, Zenon
    <3> HIDE DEF J
    <3>3. Q(J, {n}) = n
      BY <3>1, <3>2
    <3> QED
      BY <2>3, <3>1, <3>2, <3>3, Zenon
  <2>6. P(J)
    BY <2>5, Zenon
  <2>7. P(CHOOSE g : P(g))
    BY <2>6, SMTT(30)
  <2> DEFINE G == CHOOSE g : P(g)
  <2>8. G[{n}] = Q(G, {n}) /\ G[{}] = Q(G, {})
    BY <2>7, Zenon
  <2> HIDE DEF G
  <2>9. G[{n}] = n
    BY <2>4, <2>8
  <2> QED
    BY <2>1, <2>9 DEF G
<1> QED
  BY <1>1, <1>2

-----------------------------------------------------------------------------
(***************************************************************************)
(* The inductive invariant.                                                *)
(***************************************************************************)

\* The events of a sequence, and the connections those of a type are about.
EventsIn(s) == {s[i] : i \in DOMAIN s}

Ids(events, type) == {e.id : e \in {f \in events : f.type = type}}

\* The events in the channel.
Waiting == EventsIn(chan)

\* What event d may not be followed by: a connection is announced once and
\* closed once, closed after it was announced, and its counter only grows.
Precedes(d, e) ==
    /\ d.type \in {"opened", "closed"} => d # e
    /\ (d.type = "closed" /\ e.type = "opened") => d.id # e.id
    /\ (d.type = "bytes" /\ e.type = "bytes" /\ d.id = e.id) => d.n <= e.n

\* No event of s comes before one that it may not be followed by.
InTurn(s) == \A i, j \in 1 .. Len(s) : i < j => Precedes(s[i], s[j])

\* A connection is counted by the byte tick once it was admitted.
Registry ==
    \A c \in Locals :
        /\ local[c] \in {"idle", "created"} => ~started[c]
        /\ local[c] \in {"admitted", "relaying"} => started[c]

\* The snapshot the byte tick has still to send.
Held ==
    /\ run \in {"start", "setup"} => tick = "off"
    /\ tick # "send" => held = {}
    /\ \A e \in held : e.type = "bytes"
    /\ \A d, e \in held : d.id = e.id => d = e
    /\ \A d \in Waiting, e \in held : Precedes(d, e)

\* What an event on its way says about its connection.
OpenedFact(e) ==
    /\ started[e.id]
    /\ local[e.id] \in {"relaying", "closed"}
    /\ rows[e.id] = {}
    /\ local[e.id] = "closed" => e.id \in Pending("closed")

BytesFact(e) ==
    /\ started[e.id]
    /\ e.n <= bytes[e.id]
    /\ \A m \in rows[e.id] : m <= e.n

\* The same of all of them.
Facts ==
    \A e \in Waiting \cup held :
        /\ e.type = "opened" => OpenedFact(e)
        /\ e.type = "closed" => local[e.id] = "closed"
        /\ e.type = "bytes" => BytesFact(e)

\* The forwards come before everything else.
Begun == run \in {"setup", "started", "waiting", "woken"} \/ \E c \in Locals : local[c] # "idle"

\* The view has the forwards, or they are next in the channel.
Announced ==
    tui => /\ chan # << >> => forwards \/ chan[1].type = "forwards"
           /\ Begun => forwards \/ chan # << >>

\* The connections the view has heard the beginning and not the end of.
HasRow(c) ==
    /\ started[c] /\ local[c] # "admitted"
    /\ c \notin Pending("opened")
    /\ local[c] = "closed" => c \in Pending("closed")

\* A row shows what its connection has relayed, or less.
Rows ==
    \A c \in Locals :
        /\ rows[c] = {} \/ \E m \in 0 .. bytes[c] : rows[c] = {m}
        /\ tui => ((rows[c] # {}) <=> HasRow(c))

\* The connections that ended, and those whose end the view has heard of.
Ended == {c \in Locals : local[c] = "closed"}

Over == Ended \ Pending("closed")

\* The count of closed connections is theirs.
Tally ==
    /\ closed <= Cardinality(Over)
    /\ tui => closed = Cardinality(Over)

\* The bytes of those connections.
Past == [c \in Locals |-> IF c \in Over THEN bytes[c] ELSE 0]

\* The total is made of their bytes.
Totals == IF tui THEN total <= SumFunction(Past) ELSE NeverOverstated

\* The inductive invariant.
IInv ==
    /\ TypeOK /\ Registry /\ Held /\ InTurn(chan) /\ Facts
    /\ Announced /\ Rows /\ Tally /\ Totals

-----------------------------------------------------------------------------
(***************************************************************************)
(* The channel.                                                            *)
(***************************************************************************)

\* What events look like.
LEMMA EventIs ==
    ASSUME NEW e \in Events
    PROVE  \/ e.type = "forwards"
           \/ /\ e.type \in {"opened", "closed"} /\ e.id \in Locals
              /\ e = [type |-> e.type, id |-> e.id]
           \/ e.type = "bytes" /\ e.id \in Locals /\ e.n \in 0 .. MaxBytes
  BY DEF Events

\* The events run, a local connection and the byte tick send.
LEMMA EventsAre ==
    /\ [type |-> "forwards"] \in Events
    /\ \A c \in Locals : /\ [type |-> "opened", id |-> c] \in Events
                         /\ [type |-> "closed", id |-> c] \in Events
                         /\ \A n \in 0 .. MaxBytes : [type |-> "bytes", id |-> c, n |-> n] \in Events
  BY DEF Events

\* Sending puts an event behind the others.
LEMMA Added ==
    ASSUME NEW s \in Seq(Events), NEW e \in Events
    PROVE  /\ Append(s, e) \in Seq(Events) /\ Append(s, e) # << >>
           /\ EventsIn(Append(s, e)) = EventsIn(s) \cup {e}
           /\ s = << >> => Append(s, e)[1] = e
           /\ s # << >> => Append(s, e)[1] = s[1]
           /\ (InTurn(s) /\ \A d \in EventsIn(s) : Precedes(d, e)) => InTurn(Append(s, e))
<1> DEFINE t == Append(s, e)
<1>1. /\ t \in Seq(Events) /\ t # << >> /\ Len(s) \in Nat
      /\ Len(t) = Len(s) + 1 /\ t[Len(s) + 1] = e
      /\ \A i \in 1 .. Len(s) : t[i] = s[i]
      /\ DOMAIN s = 1 .. Len(s) /\ DOMAIN t = 1 .. Len(s) + 1
      /\ s # << >> => Len(s) >= 1
      /\ s = << >> => Len(s) = 0
  BY SMTT(30)
<1> HIDE DEF t
<1>2. EventsIn(t) = EventsIn(s) \cup {e}
  <2>1. 1 .. Len(s) + 1 = 1 .. Len(s) \cup {Len(s) + 1}
    BY <1>1
  <2>2. \A i \in DOMAIN t : t[i] \in EventsIn(s) \cup {e}
    <3> TAKE i \in DOMAIN t
    <3>1. CASE i \in 1 .. Len(s)
      BY <1>1, <3>1, Zenon DEF EventsIn
    <3>2. CASE i = Len(s) + 1
      BY <1>1, <3>2, Zenon
    <3> QED
      BY <1>1, <2>1, <3>1, <3>2, Zenon
  <2>3. \A i \in DOMAIN s : s[i] \in EventsIn(t)
    BY <1>1, <2>1, Zenon DEF EventsIn
  <2>4. e \in EventsIn(t)
    BY <1>1, <2>1, Zenon DEF EventsIn
  <2> QED
    BY <2>2, <2>3, <2>4, Zenon DEF EventsIn
<1>3. (s = << >> => t[1] = e) /\ (s # << >> => t[1] = s[1])
  BY <1>1
<1>4. ASSUME InTurn(s), \A d \in EventsIn(s) : Precedes(d, e)
      PROVE  InTurn(t)
  <2> SUFFICES ASSUME NEW i \in 1 .. Len(t), NEW j \in 1 .. Len(t), i < j
               PROVE  Precedes(t[i], t[j])
    BY DEF InTurn
  <2>1. i \in 1 .. Len(s) /\ (j \in 1 .. Len(s) \/ j = Len(s) + 1)
    BY <1>1
  <2>2. t[i] = s[i] /\ s[i] \in EventsIn(s)
    BY <1>1, <2>1, Zenon DEF EventsIn
  <2>3. CASE j \in 1 .. Len(s)
    BY <1>1, <1>4, <2>1, <2>2, <2>3, Zenon DEF InTurn
  <2>4. CASE j = Len(s) + 1
    BY <1>1, <1>4, <2>2, <2>4, Zenon
  <2> QED
    BY <2>1, <2>3, <2>4, Zenon
<1> QED
  BY <1>1, <1>2, <1>3, <1>4 DEF t

\* Receiving takes the first event, and what is left comes after it.
LEMMA Taken ==
    ASSUME NEW s \in Seq(Events), s # << >>, InTurn(s)
    PROVE  /\ Head(s) \in Events /\ Tail(s) \in Seq(Events)
           /\ Head(s) = s[1]
           /\ EventsIn(s) = EventsIn(Tail(s)) \cup {Head(s)}
           /\ InTurn(Tail(s))
           /\ \A e \in EventsIn(Tail(s)) : Precedes(Head(s), e)
<1> DEFINE t == Tail(s)
<1> DEFINE n == Len(t)
<1>1. /\ t \in Seq(Events) /\ n \in Nat /\ Len(s) = n + 1
      /\ Head(s) \in Events /\ Head(s) = s[1]
      /\ \A i \in 1 .. n : t[i] = s[i + 1]
      /\ DOMAIN s = 1 .. n + 1 /\ DOMAIN t = 1 .. n
  OBVIOUS
<1> HIDE DEF t, n
<1>2. \A i \in 1 .. n : i + 1 \in 1 .. n + 1 /\ 1 < i + 1
  BY <1>1
<1>3. \A i \in 1 .. n + 1 : i = 1 \/ \E j \in 1 .. n : i = j + 1
  <2> TAKE i \in 1 .. n + 1
  <2>1. i = 1 \/ (i - 1 \in 1 .. n /\ i = i - 1 + 1)
    BY <1>1
  <2> QED
    BY <2>1, Zenon
<1>4. 1 \in 1 .. n + 1
  BY <1>1
<1>5. EventsIn(s) = EventsIn(t) \cup {Head(s)}
  <2>1. \A i \in DOMAIN s : s[i] \in EventsIn(t) \cup {Head(s)}
    <3> TAKE i \in DOMAIN s
    <3>1. CASE i = 1
      BY <1>1, <3>1, Zenon
    <3>2. CASE \E j \in 1 .. n : i = j + 1
      BY <1>1, <3>2, ZenonT(40) DEF EventsIn
    <3> QED
      BY <1>1, <1>3, <3>1, <3>2, Zenon
  <2>2. \A i \in DOMAIN t : t[i] \in EventsIn(s)
    BY <1>1, <1>2, Zenon DEF EventsIn
  <2>3. Head(s) \in EventsIn(s)
    BY <1>1, <1>4, Zenon DEF EventsIn
  <2> QED
    BY <2>1, <2>2, <2>3, Zenon DEF EventsIn
<1>6. InTurn(t)
  <2> SUFFICES ASSUME NEW i \in 1 .. n, NEW j \in 1 .. n, i < j
               PROVE  Precedes(t[i], t[j])
    BY Zenon DEF InTurn, n
  <2>1. i + 1 < j + 1
    BY <1>1
  <2> QED
    BY <1>1, <1>2, <2>1, Zenon DEF InTurn
<1>7. \A i \in 1 .. n : Precedes(Head(s), t[i])
  BY <1>1, <1>2, <1>4, Zenon DEF InTurn
<1>8. \A e \in EventsIn(t) : Precedes(Head(s), e)
  BY <1>1, <1>7, Zenon DEF EventsIn
<1> QED
  BY <1>1, <1>5, <1>6, <1>8 DEF t

\* The connections events of a type are waiting for.
LEMMA PendingIs ==
    ASSUME NEW s, NEW type
    PROVE  {e.id : e \in {s[i] : i \in {j \in DOMAIN s : s[j].type = type}}} = Ids(EventsIn(s), type)
  BY Zenon DEF Ids, EventsIn

\* An empty channel is about no connection.
LEMMA NoneIn == EventsIn(<< >>) = {} /\ \A type : Ids({}, type) = {}
<1>1. DOMAIN << >> = {}
  OBVIOUS
<1> QED
  BY <1>1, Zenon DEF EventsIn, Ids

\* An event more is about one connection more.
LEMMA IdsGrow ==
    ASSUME NEW W, NEW e, NEW type
    PROVE  Ids(W \cup {e}, type) = Ids(W, type) \cup (IF e.type = type THEN {e.id} ELSE {})
  BY Zenon DEF Ids

\* The channel is read through its events.
LEMMA PendingAre ==
    \A type : Pending(type) = Ids(Waiting, type) /\ Pending(type)' = Ids(Waiting', type)
  BY PendingIs, Zenon DEF Pending, Waiting

\* Send, when the terminal task is on.
LEMMA SentIs ==
    ASSUME TypeOK, NEW e \in Events, Send(e), tui
    PROVE  /\ chan' \in Seq(Events) /\ chan' # << >>
           /\ Waiting' = Waiting \cup {e}
           /\ \A type : Pending(type)' = Pending(type) \cup (IF e.type = type THEN {e.id} ELSE {})
           /\ chan = << >> => chan'[1] = e
           /\ chan # << >> => chan'[1] = chan[1]
           /\ (InTurn(chan) /\ \A d \in Waiting : Precedes(d, e)) => InTurn(chan')
<1>1. chan \in Seq(Events) /\ chan' = Append(chan, e)
  BY Zenon DEF TypeOK, Send
<1>2. Waiting' = Waiting \cup {e}
  BY <1>1, Added, Zenon DEF Waiting
<1>3. \A type : Pending(type)' = Pending(type) \cup (IF e.type = type THEN {e.id} ELSE {})
  BY <1>2, PendingAre, IdsGrow, ZenonT(40)
<1> QED
  BY <1>1, <1>2, <1>3, Added, Zenon DEF Waiting

\* Send, when nobody receives: and a channel that nobody reads is empty.
LEMMA NobodyIs ==
    ASSUME TypeOK, ~tui
    PROVE  /\ chan = << >> /\ Waiting = {}
           /\ \A type : Pending(type) = {}
           /\ \A e : Send(e) => chan' = chan /\ Waiting' = Waiting /\ \A type : Pending(type)' = Pending(type)
<1>1. chan = << >> /\ \A e : Send(e) => chan' = chan
  BY Zenon DEF TypeOK, Send
<1>2. Waiting = {} /\ (chan' = chan => Waiting' = Waiting)
  BY <1>1, NoneIn, Zenon DEF Waiting
<1> QED
  BY <1>1, <1>2, NoneIn, PendingAre, Zenon

\* Receiving the first event.
LEMMA ReceivedIs ==
    ASSUME TypeOK, InTurn(chan), tui, chan # << >>, chan' = Tail(chan)
    PROVE  /\ Head(chan) \in Events /\ chan' \in Seq(Events)
           /\ Head(chan) = chan[1]
           /\ Waiting = Waiting' \cup {Head(chan)}
           /\ \A type : Pending(type) = Pending(type)' \cup (IF Head(chan).type = type THEN {Head(chan).id} ELSE {})
           /\ InTurn(chan')
           /\ \A e \in Waiting' : Precedes(Head(chan), e)
<1>1. chan \in Seq(Events)
  BY Zenon DEF TypeOK
<1>2. Waiting = Waiting' \cup {Head(chan)}
  BY <1>1, Taken, Zenon DEF Waiting
<1>3. \A type : Pending(type) = Pending(type)' \cup (IF Head(chan).type = type THEN {Head(chan).id} ELSE {})
  BY <1>2, PendingAre, IdsGrow, ZenonT(40)
<1> QED
  BY <1>1, <1>2, <1>3, Taken, Zenon DEF Waiting

\* An event that closes nothing and announces nothing is no one's pending one.
LEMMA PendingOf ==
    \A type, c : c \in Pending(type) <=> \E e \in Waiting : e.type = type /\ e.id = c
  BY PendingAre, Zenon DEF Ids

-----------------------------------------------------------------------------
(***************************************************************************)
(* Steps that leave the registry and the view alone.                       *)
(***************************************************************************)

\* The counts of the view are about the registry, the rows and the events
\* that announce and close a connection.
LEMMA ViewKept ==
    ASSUME IInv, UNCHANGED <<tui, localVars, modelVars>>,
           Pending("opened")' = Pending("opened"), Pending("closed")' = Pending("closed")
    PROVE  Registry' /\ Rows' /\ Tally' /\ Totals'
<1>0. /\ (tui' <=> tui) /\ local' = local /\ started' = started /\ bytes' = bytes
      /\ rows' = rows /\ total' = total /\ closed' = closed
  BY Zenon DEF localVars, modelVars
<1>1. Registry'
  BY <1>0, Zenon DEF IInv, Registry
<1>2. Rows'
  BY <1>0, Zenon DEF IInv, Rows, HasRow
<1>3. Over' = Over
  BY <1>0, Zenon DEF Over, Ended
<1>4. Tally'
  BY <1>0, <1>3, Zenon DEF IInv, Tally
<1>5. Totals'
  BY <1>0, <1>3, Zenon DEF IInv, Totals, Past, NeverOverstated, Shown
<1> QED
  BY <1>1, <1>2, <1>4, <1>5, Zenon

\* Nor do the facts about the events change when one moves from the snapshot
\* to the channel.
LEMMA FactsKept ==
    ASSUME IInv, UNCHANGED <<localVars, modelVars>>, Pending("closed")' = Pending("closed"),
           \A e \in Waiting' \cup held' : e \in Waiting \cup held \/ e.type = "forwards"
    PROVE  Facts'
<1>0. local' = local /\ started' = started /\ bytes' = bytes /\ rows' = rows
  BY Zenon DEF localVars, modelVars
<1>1. "forwards" # "opened" /\ "forwards" # "closed" /\ "forwards" # "bytes"
  OBVIOUS
<1> SUFFICES ASSUME NEW e \in Waiting' \cup held', e.type # "forwards"
             PROVE  /\ e.type = "opened" => OpenedFact(e)'
                    /\ e.type = "closed" => local'[e.id] = "closed"
                    /\ e.type = "bytes" => BytesFact(e)'
  BY <1>1, Zenon DEF Facts
<1>2. e \in Waiting \cup held
  OBVIOUS
<1> QED
  BY <1>0, <1>2, Zenon DEF IInv, Facts, OpenedFact, BytesFact

\* The steps of run that send nothing, and the interrupt.
LEMMA RunKeeps ==
    ASSUME IInv, RunFails \/ RunStarts \/ RunWaits \/ Interrupt \/ Stop
    PROVE  IInv'
<1>1. /\ UNCHANGED <<tui, chan, localVars, held, modelVars>>
      /\ run' \in {"started", "waiting", "woken", "ended"}
      /\ run \in {"start", "setup", "started", "waiting", "woken"}
      /\ (run = "start" => run' = "ended")
      /\ tick' = tick \/ (tick' = "select" /\ run = "setup") \/ (tick = "select" /\ tick' = "gone")
  BY Zenon DEF RunFails, RunStarts, RunWaits, Interrupt, Stop
<1>2. Waiting' = Waiting /\ \A type : Pending(type)' = Pending(type)
  BY <1>1, Zenon DEF Waiting, Pending
<1>3. Registry' /\ Rows' /\ Tally' /\ Totals'
  BY <1>1, <1>2, ViewKept, Zenon
<1>4. Facts'
  BY <1>1, <1>2, FactsKept, Zenon
<1>5. TypeOK'
  BY <1>1 DEF IInv, TypeOK, localVars, modelVars
<1>6. Held'
  <2>1. /\ run' \notin {"start", "setup"}
        /\ tick' # "send" => tick # "send"
    <3>1. run = "setup" => tick = "off"
      BY Zenon DEF IInv, Held
    <3> QED
      BY <1>1, <3>1
  <2> QED
    BY <1>1, <1>2, <2>1, Zenon DEF IInv, Held
<1>7. InTurn(chan') /\ Announced'
  <2>1. Begun' => Begun
    BY <1>1 DEF Begun, localVars
  <2> QED
    BY <1>1, <2>1, Zenon DEF IInv, Announced, modelVars
<1> QED
  BY <1>3, <1>4, <1>5, <1>6, <1>7, Zenon DEF IInv

\* The forwards are announced.
LEMMA AnnounceKeeps ==
    ASSUME IInv, Announce
    PROVE  IInv'
<1> DEFINE e == [type |-> "forwards"]
<1>0. TypeOK /\ InTurn(chan) /\ e \in Events /\ e.type = "forwards"
  BY EventsAre, Zenon DEF IInv
<1>1. /\ UNCHANGED <<tui, localVars, tick, held, modelVars>>
      /\ Send(e) /\ run = "start" /\ run' = "setup"
  BY Zenon DEF Announce
<1> HIDE DEF e
<1>2. /\ Pending("opened")' = Pending("opened") /\ Pending("closed")' = Pending("closed")
      /\ Waiting' = Waiting \/ (tui /\ Waiting' = Waiting \cup {e})
  <2>1. e.type # "opened" /\ e.type # "closed"
    BY <1>0
  <2>2. CASE tui
    <3>1. /\ Pending("opened")' = Pending("opened") \cup (IF e.type = "opened" THEN {e.id} ELSE {})
          /\ Pending("closed")' = Pending("closed") \cup (IF e.type = "closed" THEN {e.id} ELSE {})
          /\ Waiting' = Waiting \cup {e}
      BY <1>0, <1>1, <2>2, SentIs, Zenon
    <3> QED
      BY <2>1, <2>2, <3>1, Zenon
  <2>3. CASE ~tui
    BY <1>0, <1>1, <2>3, NobodyIs, Zenon
  <2> QED
    BY <2>2, <2>3, Zenon
<1>3. Registry' /\ Rows' /\ Tally' /\ Totals'
  BY <1>1, <1>2, ViewKept, Zenon
<1>4. Facts'
  BY <1>0, <1>1, <1>2, FactsKept, Zenon
<1>5. \A d : d \in Events => Precedes(d, e) /\ Precedes(e, d)
  BY <1>0 DEF Precedes
<1>6. Waiting \subseteq Events /\ held \subseteq Events
  <2>1. \A i \in DOMAIN chan : chan[i] \in Events
    BY <1>0 DEF TypeOK
  <2> QED
    BY <1>0, <2>1, Zenon DEF TypeOK, Waiting, EventsIn
<1>7. Held'
  <2>1. run' \in {"start", "setup"} => tick' = "off"
    BY <1>1, Zenon DEF IInv, Held
  <2> QED
    BY <1>1, <1>2, <1>5, <1>6, <2>1, Zenon DEF IInv, Held
<1>8. TypeOK' /\ InTurn(chan') /\ Announced'
  <2>1. CASE tui
    <3>1. chan' \in Seq(Events) /\ chan' # << >> /\ InTurn(chan') /\ (chan = << >> => chan'[1] = e) /\ (chan # << >> => chan'[1] = chan[1])
      BY <1>0, <1>1, <1>5, <1>6, <2>1, SentIs, ZenonT(40)
    <3>2. TypeOK'
      BY <1>0, <1>1, <2>1, <3>1, SMTT(30) DEF TypeOK, localVars, modelVars
    <3>3. Announced'
      BY <1>0, <1>1, <2>1, <3>1, Zenon DEF IInv, Announced, modelVars
    <3> QED
      BY <3>1, <3>2, <3>3, Zenon
  <2>2. CASE ~tui
    <3>1. chan' = chan
      BY <1>0, <1>1, <2>2, NobodyIs, Zenon
    <3>2. TypeOK'
      BY <1>0, <1>1, <2>2, <3>1, SMTT(30) DEF TypeOK, localVars, modelVars
    <3> QED
      BY <1>0, <1>1, <2>2, <3>1, <3>2, ZenonT(40) DEF Announced
  <2> QED
    BY <2>1, <2>2, Zenon
<1> QED
  BY <1>3, <1>4, <1>7, <1>8, Zenon DEF IInv

-----------------------------------------------------------------------------
(***************************************************************************)
(* Steps of a local connection.                                            *)
(***************************************************************************)

\* Sums of larger terms are larger.
LEMMA SumMono ==
    ASSUME NEW S, IsFiniteSet(S), NEW f \in [S -> Nat], NEW g \in [S -> Nat],
           \A x \in S : f[x] <= g[x]
    PROVE  SumFunction(f) <= SumFunction(g)
<1> DEFINE z == [x \in S |-> 0]
<1>1. z \in [S -> Nat] /\ \A x \in S : z[x] = 0
  OBVIOUS
<1> HIDE DEF z
<1>2. \A x \in S : f[x] + z[x] <= g[x]
  BY <1>1
<1>3. SumFunction(f) + SumFunction(z) <= SumFunction(g)
  BY <1>1, <1>2, SumLe, SMTT(30)
<1>4. SumFunction(f) \in Nat /\ SumFunction(g) \in Nat /\ SumFunction(z) \in Nat
  BY <1>1, SumType
<1> QED
  BY <1>3, <1>4

\* What is known of a step of one connection.
LEMMA BecomeIs ==
    ASSUME TypeOK, NEW c \in Locals, NEW p, Become(c, p)
    PROVE  local'[c] = p /\ \A d \in Locals : d # c => local'[d] = local[d]
  BY DEF TypeOK, Become

\* The channel and the snapshot hold events.
LEMMA WaitingType ==
    ASSUME TypeOK
    PROVE  Waiting \subseteq Events /\ held \subseteq Events
<1>1. (chan \in Seq(Events) \/ chan = << >>) /\ held \subseteq Events
  <2>1. CASE tui
    BY <2>1, Zenon DEF TypeOK
  <2>2. CASE ~tui
    BY <2>2, Zenon DEF TypeOK
  <2> QED
    BY <2>1, <2>2, Zenon
<1>2. \A i \in DOMAIN chan : chan[i] \in Events
  BY <1>1
<1> QED
  BY <1>1, <1>2, Zenon DEF Waiting, EventsIn

\* The connection behind an event.
LEMMA IdIs == \A e \in Events : e.type # "forwards" => e.id \in Locals
  BY EventIs, Zenon

\* A connection is taken in and admitted without the view hearing of it.
LEMMA EnterKeeps ==
    ASSUME IInv, NEW c \in Locals, Create(c) \/ Admit(c)
    PROVE  IInv'
<1>0. TypeOK
  BY Zenon DEF IInv
<1>1. /\ UNCHANGED <<run, tui, chan, bytes, tick, held, modelVars>>
      /\ local[c] \in {"idle", "created"}
      /\ local'[c] \in {"created", "admitted"}
      /\ \A d \in Locals : d # c => local'[d] = local[d]
      /\ local'[c] = "created" => ~started'[c]
      /\ local'[c] = "admitted" => started'[c]
      /\ \A d \in Locals : d # c => started'[d] = started[d]
      /\ started[c] => started'[c]
      /\ local' \in [Locals -> {"idle", "created", "admitted", "relaying", "closed"}]
      /\ started' \in [Locals -> BOOLEAN]
      /\ Begun
  <2>1. CASE Create(c)
    <3>1. /\ local[c] = "idle" /\ local'[c] = "created" /\ started' = started
          /\ \A d \in Locals : d # c => local'[d] = local[d]
          /\ run \in {"started", "waiting", "woken"}
      BY <1>0, <2>1, BecomeIs, Zenon DEF Create
    <3>2. ~started[c]
      BY <3>1, Zenon DEF IInv, Registry
    <3>3. local' \in [Locals -> {"idle", "created", "admitted", "relaying", "closed"}]
      BY <1>0, <2>1, SMTT(30) DEF Create, Become, TypeOK
    <3> QED
      BY <1>0, <2>1, <3>1, <3>2, <3>3, SMTT(30) DEF Create, Begun, TypeOK
  <2>2. CASE Admit(c)
    <3>1. /\ local[c] = "created" /\ local'[c] = "admitted"
          /\ \A d \in Locals : d # c => local'[d] = local[d]
      BY <1>0, <2>2, BecomeIs, Zenon DEF Admit
    <3>2. /\ started'[c] /\ started' \in [Locals -> BOOLEAN]
          /\ \A d \in Locals : d # c => started'[d] = started[d]
      BY <1>0, <2>2 DEF Admit, TypeOK
    <3>3. local' \in [Locals -> {"idle", "created", "admitted", "relaying", "closed"}]
      BY <1>0, <2>2 DEF Admit, Become, TypeOK
    <3> QED
      BY <1>0, <2>2, <3>1, <3>2, <3>3, SMTT(30) DEF Admit, Begun, TypeOK
  <2> QED
    BY <2>1, <2>2, ZenonT(40)
<1>2. Waiting' = Waiting /\ \A type : Pending(type)' = Pending(type)
  <2>1. chan' = chan
    BY <1>1, Zenon
  <2> QED
    BY <2>1, Zenon DEF Waiting, Pending
<1>3. TypeOK'
  BY <1>0, <1>1, SMTT(30) DEF TypeOK, modelVars
<1>4. ~started[c] /\ local[c] # "closed" /\ local[c] # "relaying" /\ local'[c] # "closed" /\ local'[c] # "relaying"
  <2>1. ~started[c]
    BY <1>1, Zenon DEF IInv, Registry
  <2> QED
    BY <1>1, <2>1
<1>5. Registry'
  <2>1. ASSUME NEW d \in Locals
        PROVE  /\ local'[d] \in {"idle", "created"} => ~started'[d]
               /\ local'[d] \in {"admitted", "relaying"} => started'[d]
    <3>1. CASE d = c
      BY <1>1, <3>1
    <3>2. CASE d # c
      BY <1>1, <3>2, Zenon DEF IInv, Registry
    <3> QED
      BY <3>1, <3>2, Zenon
  <2> QED
    BY <2>1, Zenon DEF Registry
<1>6. Held' /\ InTurn(chan') /\ Announced'
  BY <1>1, <1>2, Zenon DEF IInv, Held, Announced, modelVars
<1>7. Facts'
  <2> SUFFICES ASSUME NEW e \in Waiting \cup held
               PROVE  /\ e.type = "opened" => OpenedFact(e)'
                      /\ e.type = "closed" => local'[e.id] = "closed"
                      /\ e.type = "bytes" => BytesFact(e)'
    BY <1>1, <1>2, Zenon DEF Facts
  <2>1. /\ e.type = "opened" => OpenedFact(e)
        /\ e.type = "closed" => local[e.id] = "closed"
        /\ e.type = "bytes" => BytesFact(e)
    BY Zenon DEF IInv, Facts
  <2>2. e.type # "forwards" => e.id \in Locals
    BY <1>0, WaitingType, IdIs, Zenon
  <2>3. e.type = "opened" => OpenedFact(e)'
    <3>1. ASSUME e.type = "opened" PROVE e.id \in Locals /\ e.id # c
      BY <1>4, <2>1, <2>2, <3>1 DEF OpenedFact
    <3> QED
      BY <1>1, <1>2, <2>1, <3>1, ZenonT(40) DEF OpenedFact, modelVars
  <2>4. e.type = "closed" => local'[e.id] = "closed"
    <3>1. ASSUME e.type = "closed" PROVE e.id \in Locals /\ e.id # c
      BY <1>4, <2>1, <2>2, <3>1, SMTT(30)
    <3> QED
      BY <1>1, <2>1, <3>1, Zenon
  <2>5. e.type = "bytes" => BytesFact(e)'
    <3>1. ASSUME e.type = "bytes" PROVE e.id \in Locals /\ e.id # c
      BY <1>4, <2>1, <2>2, <3>1, SMTT(30) DEF BytesFact
    <3> QED
      BY <1>1, <2>1, <3>1, ZenonT(40) DEF BytesFact, modelVars
  <2> QED
    BY <2>3, <2>4, <2>5, Zenon
<1>8. Rows'
  <2>0. rows' = rows /\ bytes' = bytes /\ (tui' <=> tui)
    BY <1>1, Zenon DEF modelVars
  <2>1. ASSUME NEW d \in Locals PROVE HasRow(d)' <=> HasRow(d)
    <3>1. CASE d = c
      <4>1. ~HasRow(c)' /\ ~HasRow(c)
        BY <1>1, <1>4 DEF HasRow
      <4> QED
        BY <3>1, <4>1, Zenon
    <3>2. CASE d # c
      BY <1>1, <1>2, <3>2, Zenon DEF HasRow
    <3> QED
      BY <3>1, <3>2, Zenon
  <2> HIDE DEF HasRow
  <2> QED
    BY <2>0, <2>1, Zenon DEF IInv, Rows
<1>9. Over' = Over
  <2>1. \A d \in Locals : local'[d] = "closed" <=> local[d] = "closed"
    BY <1>1, <1>4, Zenon
  <2> QED
    BY <1>2, <2>1, Zenon DEF Over, Ended
<1>10. Tally' /\ Totals'
  <2>0. rows' = rows /\ bytes' = bytes /\ (tui' <=> tui) /\ total' = total /\ closed' = closed
    BY <1>1, Zenon DEF modelVars
  <2> QED
    BY <1>9, <2>0, Zenon DEF IInv, Tally, Totals, Past, NeverOverstated, Shown
<1> QED
  BY <1>3, <1>5, <1>6, <1>7, <1>8, <1>10, ZenonT(40) DEF IInv

\* The bytes the rows show.
LEMMA RowSums ==
    ASSUME Rows, bytes \in [Locals -> 0 .. MaxBytes]
    PROVE  /\ [c \in Locals |-> SumSet(rows[c])] \in [Locals -> Nat]
           /\ \A c \in Locals : SumSet(rows[c]) \in 0 .. bytes[c]
           /\ \A c \in Locals : rows[c] = {} => SumSet(rows[c]) = 0
           /\ \A c \in Locals, m \in Nat : rows[c] = {m} => SumSet(rows[c]) = m
<1>1. \A c \in Locals : rows[c] = {} => SumSet(rows[c]) = 0
  BY SumOfOne, Zenon
<1>2. \A c \in Locals, m \in Nat : rows[c] = {m} => SumSet(rows[c]) = m
  BY SumOfOne, Zenon
<1>3. ASSUME NEW c \in Locals PROVE SumSet(rows[c]) \in 0 .. bytes[c] /\ SumSet(rows[c]) \in Nat
  <2>1. bytes[c] \in Nat
    BY ViewAssumption
  <2>2. rows[c] = {} \/ \E m \in 0 .. bytes[c] : rows[c] = {m}
    BY Zenon DEF Rows
  <2>3. CASE rows[c] = {}
    BY <1>1, <2>1, <2>3
  <2>4. CASE \E m \in 0 .. bytes[c] : rows[c] = {m}
    <3>1. PICK m \in 0 .. bytes[c] : rows[c] = {m}
      BY <2>4
    <3>2. m \in Nat
      BY <2>1
    <3>3. SumSet(rows[c]) = m
      BY <1>2, <3>1, <3>2, Zenon
    <3> QED
      BY <3>2, <3>3, Zenon
  <2> QED
    BY <2>2, <2>3, <2>4, Zenon
<1> QED
  BY <1>1, <1>2, <1>3, Zenon

\* The total on the screen is a number.
LEMMA ShownType == IInv => Shown \in Nat
<1> SUFFICES ASSUME IInv PROVE Shown \in Nat
  OBVIOUS
<1>1. Rows /\ bytes \in [Locals -> 0 .. MaxBytes] /\ total \in Nat
  BY Zenon DEF IInv, TypeOK
<1>2. [c \in Locals |-> SumSet(rows[c])] \in [Locals -> Nat]
  BY <1>1, RowSums, Zenon
<1>3. SumFunction([c \in Locals |-> SumSet(rows[c])]) \in Nat
  BY <1>2, SumType, ViewAssumption, Zenon
<1> QED
  BY <1>1, <1>3 DEF Shown

\* A connection relays: the counter grows, and the view may lag behind it.
LEMMA RelayKeeps ==
    ASSUME IInv, NEW c \in Locals, Relay(c)
    PROVE  IInv'
<1>0. TypeOK
  BY Zenon DEF IInv
<1>1. /\ UNCHANGED <<run, tui, chan, local, started, tick, held, modelVars>>
      /\ local[c] = "relaying" /\ bytes[c] < MaxBytes
      /\ bytes' = [bytes EXCEPT ![c] = @ + 1]
  BY Zenon DEF Relay
<1>2. Waiting' = Waiting /\ \A type : Pending(type)' = Pending(type)
  BY <1>1, Zenon DEF Waiting, Pending
<1>3. /\ bytes' \in [Locals -> 0 .. MaxBytes]
      /\ \A d \in Locals : bytes[d] <= bytes'[d]
      /\ \A d \in Locals : d # c => bytes'[d] = bytes[d]
      /\ \A d \in Locals : bytes[d] \in Nat /\ bytes'[d] \in Nat
  BY <1>0, <1>1, ViewAssumption, SMTT(30) DEF TypeOK
<1>4. TypeOK'
  BY <1>0, <1>1, <1>3 DEF TypeOK, modelVars
<1>5. Registry' /\ Held' /\ InTurn(chan') /\ Announced'
  BY <1>1, <1>2, Zenon DEF IInv, Registry, Held, Announced, Begun, modelVars
<1>6. Facts'
  <2> SUFFICES ASSUME NEW e \in Waiting \cup held
               PROVE  /\ e.type = "opened" => OpenedFact(e)'
                      /\ e.type = "closed" => local'[e.id] = "closed"
                      /\ e.type = "bytes" => BytesFact(e)'
    BY <1>1, <1>2, Zenon DEF Facts
  <2>1. /\ e.type = "opened" => OpenedFact(e)
        /\ e.type = "closed" => local[e.id] = "closed"
        /\ e.type = "bytes" => BytesFact(e)
    BY Zenon DEF IInv, Facts
  <2>2. e.type = "bytes" => e.id \in Locals /\ e.n \in Nat
    <3>1. e \in Events
      BY <1>0, WaitingType, Zenon
    <3> QED
      BY <3>1, EventIs, ViewAssumption
  <2>3. e.type = "bytes" => BytesFact(e)'
    <3>1. ASSUME e.type = "bytes" PROVE e.n <= bytes'[e.id]
      <4>1. e.n <= bytes[e.id]
        BY <2>1, <3>1, Zenon DEF BytesFact
      <4>2. bytes[e.id] <= bytes'[e.id] /\ bytes[e.id] \in Nat /\ bytes'[e.id] \in Nat /\ e.n \in Nat
        BY <1>3, <2>2, <3>1, Zenon
      <4> QED
        BY <4>1, <4>2
    <3> QED
      BY <1>1, <2>1, <3>1, Zenon DEF BytesFact, modelVars
  <2> QED
    BY <1>1, <1>2, <2>1, <2>3, Zenon DEF OpenedFact, modelVars
<1>7. Rows'
  <2>0. rows' = rows /\ (tui' <=> tui)
    BY <1>1, Zenon DEF modelVars
  <2>1. \A d \in Locals : HasRow(d)' <=> HasRow(d)
    BY <1>1, <1>2, Zenon DEF HasRow
  <2>2. \A d \in Locals : \A m \in 0 .. bytes[d] : m \in 0 .. bytes'[d]
    <3> TAKE d \in Locals
    <3>1. bytes[d] <= bytes'[d] /\ bytes[d] \in Nat /\ bytes'[d] \in Nat
      BY <1>3, Zenon
    <3> QED
      BY <3>1
  <2> HIDE DEF HasRow
  <2> QED
    BY <2>0, <2>1, <2>2, Zenon DEF IInv, Rows
<1>8. Over' = Over /\ Past' = Past
  <2>1. Over' = Over
    BY <1>1, <1>2, Zenon DEF Over, Ended
  <2>2. c \notin Over
    BY <1>1 DEF Over, Ended
  <2> QED
    BY <1>3, <2>1, <2>2, Zenon DEF Past
<1>9. Tally' /\ Totals'
  <2>0. rows' = rows /\ (tui' <=> tui) /\ total' = total /\ closed' = closed
    BY <1>1, Zenon DEF modelVars
  <2>1. Tally'
    BY <1>8, <2>0, Zenon DEF IInv, Tally
  <2>2. CASE tui
    BY <1>8, <2>0, <2>1, <2>2, Zenon DEF IInv, Totals
  <2>3. CASE ~tui
    <3>1. Shown <= SumFunction(bytes) /\ Shown' = Shown
      BY <2>0, <2>3, Zenon DEF IInv, Totals, NeverOverstated, Shown
    <3>2. bytes \in [Locals -> Nat] /\ bytes' \in [Locals -> Nat]
      BY <1>0, <1>3, ViewAssumption, SMTT(30) DEF TypeOK
    <3>3. SumFunction(bytes) <= SumFunction(bytes') /\ SumFunction(bytes) \in Nat /\ SumFunction(bytes') \in Nat
      BY <1>3, <3>2, SumMono, SumType, ViewAssumption, SMTT(30)
    <3>4. Shown \in Nat
      BY ShownType
    <3>5. Shown' <= SumFunction(bytes')
      BY <3>1, <3>3, <3>4
    <3> QED
      BY <2>0, <2>1, <2>3, <3>5, Zenon DEF Totals, NeverOverstated
  <2> QED
    BY <2>1, <2>2, <2>3, Zenon
<1> QED
  BY <1>4, <1>5, <1>6, <1>7, <1>9, Zenon DEF IInv

\* A connection is announced.
LEMMA OpenedKeeps ==
    ASSUME IInv, NEW c \in Locals, Opened(c)
    PROVE  IInv'
<1> DEFINE e == [type |-> "opened", id |-> c]
<1>0. TypeOK /\ InTurn(chan) /\ e \in Events /\ e.type = "opened" /\ e.id = c
  BY EventsAre, Zenon DEF IInv
<1>1. /\ UNCHANGED <<run, tui, started, bytes, tick, held, modelVars>>
      /\ Send(e) /\ Become(c, "relaying") /\ local[c] = "admitted"
  BY Zenon DEF Opened
<1>a. \A d \in Events : d.type = "opened" /\ d.id = c => d = e
  BY EventIs, <1>0
<1> HIDE DEF e
<1>2. /\ local'[c] = "relaying" /\ \A d \in Locals : d # c => local'[d] = local[d]
      /\ local' \in [Locals -> {"idle", "created", "admitted", "relaying", "closed"}]
      /\ started[c]
  <2>1. local' \in [Locals -> {"idle", "created", "admitted", "relaying", "closed"}]
    BY <1>0, <1>1 DEF Become, TypeOK
  <2>2. started[c]
    BY <1>1, Zenon DEF IInv, Registry
  <2> QED
    BY <1>0, <1>1, <2>1, <2>2, BecomeIs, ZenonT(40)
<1>3. /\ run' = run /\ (tui' <=> tui) /\ started' = started /\ bytes' = bytes /\ tick' = tick /\ held' = held
      /\ forwards' = forwards /\ rows' = rows /\ total' = total /\ closed' = closed
  BY <1>1, Zenon DEF modelVars
<1>4. \A d \in Locals : local'[d] = "closed" <=> local[d] = "closed"
  <2>1. local[c] # "closed" /\ local'[c] # "closed"
    BY <1>1, <1>2
  <2> QED
    BY <1>2, <2>1, Zenon
<1>5. Registry'
  <2>1. ASSUME NEW d \in Locals
        PROVE  /\ local'[d] \in {"idle", "created"} => ~started'[d]
               /\ local'[d] \in {"admitted", "relaying"} => started'[d]
    <3>1. CASE d = c
      BY <1>2, <1>3, <3>1, SMTT(30)
    <3>2. CASE d # c
      BY <1>2, <1>3, <3>2, Zenon DEF IInv, Registry
    <3> QED
      BY <3>1, <3>2, ZenonT(40)
  <2> QED
    BY <2>1, Zenon DEF Registry
<1>6. /\ tui => Waiting' = Waiting \cup {e}
      /\ ~tui => Waiting' = Waiting
      /\ tui => Pending("opened")' = Pending("opened") \cup {c}
      /\ Pending("closed")' = Pending("closed")
  <2>1. CASE tui
    <3>1. /\ Waiting' = Waiting \cup {e}
          /\ Pending("opened")' = Pending("opened") \cup (IF e.type = "opened" THEN {e.id} ELSE {})
          /\ Pending("closed")' = Pending("closed") \cup (IF e.type = "closed" THEN {e.id} ELSE {})
      BY <1>0, <1>1, <2>1, SentIs, Zenon
    <3>2. "opened" # "closed"
      OBVIOUS
    <3> QED
      BY <1>0, <2>1, <3>1, <3>2, Zenon
  <2>2. CASE ~tui
    BY <1>0, <1>1, <2>2, NobodyIs, Zenon
  <2> QED
    BY <2>1, <2>2, Zenon
<1>7. Over' = Over
  BY <1>4, <1>6, Zenon DEF Over, Ended
<1>8. Tally' /\ Totals'
  BY <1>3, <1>7, Zenon DEF IInv, Tally, Totals, Past, NeverOverstated, Shown
<1>9. Rows'
  <2>1. ASSUME NEW d \in Locals, tui PROVE HasRow(d)' <=> HasRow(d)
    <3>1. CASE d = c
      <4>1. ~HasRow(c)' /\ ~HasRow(c)
        BY <1>1, <1>6, <2>1 DEF HasRow
      <4> QED
        BY <3>1, <4>1, Zenon
    <3>2. CASE d # c
      <4>1. d \in Pending("opened")' <=> d \in Pending("opened")
        BY <1>6, <2>1, <3>2, Zenon
      <4>2. local'[d] = local[d] /\ started'[d] = started[d]
        BY <1>2, <1>3, <3>2, Zenon
      <4> QED
        BY <1>6, <4>1, <4>2, Zenon DEF HasRow
    <3> QED
      BY <3>1, <3>2, Zenon
  <2> HIDE DEF HasRow
  <2> QED
    BY <1>3, <2>1, Zenon DEF IInv, Rows
<1>10. \A d \in Waiting : Precedes(d, e)
  <2> SUFFICES ASSUME NEW d \in Waiting PROVE Precedes(d, e)
    OBVIOUS
  <2>1. (d.type = "opened" => local[d.id] # "admitted") /\ (d.type = "closed" => local[d.id] # "admitted")
    <3>1. /\ d.type = "opened" => local[d.id] \in {"relaying", "closed"}
          /\ d.type = "closed" => local[d.id] = "closed"
      BY Zenon DEF IInv, Facts, OpenedFact
    <3> QED
      BY <3>1
  <2>2. d # e /\ (d.type = "closed" => d.id # c)
    BY <1>0, <1>1, <2>1, Zenon
  <2> QED
    BY <1>0, <2>2 DEF Precedes
<1>11. \A h \in held : Precedes(e, h)
  <2>1. \A h \in held : h.type = "bytes"
    BY Zenon DEF IInv, Held
  <2> QED
    BY <1>0, <2>1 DEF Precedes
<1>12. Held'
  <2>1. \A d \in Waiting', h \in held : Precedes(d, h)
    BY <1>6, <1>11, Zenon DEF IInv, Held
  <2> QED
    BY <1>3, <2>1, Zenon DEF IInv, Held
<1>13. Facts'
  <2> SUFFICES ASSUME NEW f \in Waiting' \cup held
               PROVE  /\ f.type = "opened" => OpenedFact(f)'
                      /\ f.type = "closed" => local'[f.id] = "closed"
                      /\ f.type = "bytes" => BytesFact(f)'
    BY <1>3, Zenon DEF Facts
  <2>1. CASE tui /\ f = e
    <3>1. rows[c] = {}
      <4>1. ~HasRow(c)
        BY <1>1, Zenon DEF HasRow
      <4> QED
        BY <2>1, <4>1, Zenon DEF IInv, Rows
    <3>2. OpenedFact(e)'
      BY <1>0, <1>2, <1>3, <3>1 DEF OpenedFact
    <3>3. f.type = "opened"
      BY <1>0, <2>1
    <3> QED
      BY <2>1, <3>2, <3>3
  <2>2. CASE f \in Waiting \cup held
    <3>1. /\ f.type = "opened" => OpenedFact(f)
          /\ f.type = "closed" => local[f.id] = "closed"
          /\ f.type = "bytes" => BytesFact(f)
      BY <2>2, Zenon DEF IInv, Facts
    <3>2. f.type # "forwards" => f.id \in Locals
      BY <1>0, <2>2, WaitingType, IdIs, Zenon
    <3>3. f.type = "opened" => OpenedFact(f)'
      <4>1. ASSUME f.type = "opened" PROVE f.id \in Locals /\ f.id # c
        BY <1>1, <3>1, <3>2, <4>1 DEF OpenedFact
      <4> QED
        BY <1>2, <1>3, <1>6, <3>1, <4>1, ZenonT(40) DEF OpenedFact
    <3>4. f.type = "closed" => local'[f.id] = "closed"
      <4>1. ASSUME f.type = "closed" PROVE f.id \in Locals
        BY <3>2, <4>1
      <4> QED
        BY <1>4, <3>1, <4>1, Zenon
    <3>5. f.type = "bytes" => BytesFact(f)'
      BY <1>3, <3>1, Zenon DEF BytesFact
    <3> QED
      BY <3>3, <3>4, <3>5, Zenon
  <2> QED
    BY <1>6, <2>1, <2>2, Zenon
<1>14. TypeOK' /\ InTurn(chan') /\ Announced'
  <2>1. CASE tui
    <3>1. /\ chan' \in Seq(Events) /\ chan' # << >> /\ InTurn(chan')
          /\ (chan # << >> => chan'[1] = chan[1])
      BY <1>0, <1>1, <1>10, <2>1, SentIs, ZenonT(40)
    <3>2. TypeOK'
      BY <1>0, <1>2, <1>3, <2>1, <3>1 DEF TypeOK
    <3>3. Announced'
      <4>1. Begun
        BY <1>1 DEF Begun
      <4> QED
        BY <1>3, <2>1, <3>1, <4>1, Zenon DEF IInv, Announced
    <3> QED
      BY <3>1, <3>2, <3>3, Zenon
  <2>2. CASE ~tui
    <3>1. chan' = chan
      BY <1>0, <1>1, <2>2, NobodyIs, Zenon
    <3>2. TypeOK'
      BY <1>0, <1>2, <1>3, <2>2, <3>1, ZenonT(40) DEF TypeOK
    <3> QED
      BY <1>0, <1>3, <2>2, <3>1, <3>2, Zenon DEF Announced
  <2> QED
    BY <2>1, <2>2, Zenon
<1> QED
  BY <1>5, <1>8, <1>9, <1>12, <1>13, <1>14, ZenonT(40) DEF IInv

\* A connection ends, and its end is announced.
LEMMA CloseKeeps ==
    ASSUME IInv, NEW c \in Locals, Close(c)
    PROVE  IInv'
<1> DEFINE e == [type |-> "closed", id |-> c]
<1>0. TypeOK /\ InTurn(chan) /\ e \in Events /\ e.type = "closed" /\ e.id = c
  BY EventsAre, Zenon DEF IInv
<1>1. /\ UNCHANGED <<run, tui, started, bytes, tick, held, modelVars>>
      /\ Send(e) /\ Become(c, "closed") /\ local[c] \in {"created", "relaying"}
  BY Zenon DEF Close
<1> HIDE DEF e
<1>2. /\ local'[c] = "closed" /\ \A d \in Locals : d # c => local'[d] = local[d]
      /\ local' \in [Locals -> {"idle", "created", "admitted", "relaying", "closed"}]
      /\ local[c] # "closed" /\ local[c] # "idle" /\ local[c] # "admitted"
      /\ local[c] = "relaying" \/ ~started[c]
  <2>1. local' \in [Locals -> {"idle", "created", "admitted", "relaying", "closed"}]
    BY <1>0, <1>1 DEF Become, TypeOK
  <2>2. local[c] = "relaying" \/ ~started[c]
    BY <1>1, Zenon DEF IInv, Registry
  <2>3. local[c] # "closed" /\ local[c] # "idle" /\ local[c] # "admitted"
    BY <1>1
  <2> QED
    BY <1>0, <1>1, <2>1, <2>2, <2>3, BecomeIs, Zenon
<1>3. /\ run' = run /\ (tui' <=> tui) /\ started' = started /\ bytes' = bytes /\ tick' = tick /\ held' = held
      /\ forwards' = forwards /\ rows' = rows /\ total' = total /\ closed' = closed
  BY <1>1, Zenon DEF modelVars
<1>4. Ended' = Ended \cup {c} /\ c \notin Ended
  BY <1>2, Zenon DEF Ended
<1>5. Registry'
  <2>1. ASSUME NEW d \in Locals
        PROVE  /\ local'[d] \in {"idle", "created"} => ~started'[d]
               /\ local'[d] \in {"admitted", "relaying"} => started'[d]
    <3>1. CASE d = c
      BY <1>2, <1>3, <3>1, SMTT(30)
    <3>2. CASE d # c
      BY <1>2, <1>3, <3>2, Zenon DEF IInv, Registry
    <3> QED
      BY <3>1, <3>2, Zenon
  <2> QED
    BY <2>1, Zenon DEF Registry
<1>6. /\ tui => Waiting' = Waiting \cup {e}
      /\ ~tui => Waiting' = Waiting
      /\ tui => Pending("closed")' = Pending("closed") \cup {c}
      /\ ~tui => Pending("closed")' = Pending("closed")
      /\ Pending("opened")' = Pending("opened")
  <2>1. CASE tui
    <3>1. /\ Waiting' = Waiting \cup {e}
          /\ Pending("opened")' = Pending("opened") \cup (IF e.type = "opened" THEN {e.id} ELSE {})
          /\ Pending("closed")' = Pending("closed") \cup (IF e.type = "closed" THEN {e.id} ELSE {})
      BY <1>0, <1>1, <2>1, SentIs, Zenon
    <3>2. "opened" # "closed"
      OBVIOUS
    <3> QED
      BY <1>0, <2>1, <3>1, <3>2, Zenon
  <2>2. CASE ~tui
    BY <1>0, <1>1, <2>2, NobodyIs, Zenon
  <2> QED
    BY <2>1, <2>2, Zenon
<1>7. (tui => Over' = Over) /\ (~tui => Over \subseteq Over')
  BY <1>4, <1>6, Zenon DEF Over
<1>8. Tally' /\ Totals'
  <2>1. Tally'
    <3>1. CASE tui
      BY <1>3, <1>7, <3>1, Zenon DEF IInv, Tally
    <3>2. CASE ~tui
      <4>1. Cardinality(Over) <= Cardinality(Over') /\ Cardinality(Over) \in Nat /\ Cardinality(Over') \in Nat
        <5>1. Over' \subseteq Locals
          BY Zenon DEF Over, Ended
        <5>2. IsFiniteSet(Over')
          BY <5>1, ViewAssumption, FS_Subset, Zenon
        <5> QED
          BY <1>7, <3>2, <5>2, FS_Subset, FS_CardinalityType, Zenon
      <4>2. closed <= Cardinality(Over) /\ closed \in Nat /\ closed' = closed
        <5>1. closed \in 0 .. Cardinality(Locals)
          BY <1>0, Zenon DEF TypeOK
        <5>2. closed \in Nat
          BY <5>1, ViewAssumption, FS_CardinalityType
        <5> QED
          BY <1>3, <5>2, Zenon DEF IInv, Tally
      <4>3. closed' <= Cardinality(Over')
        BY <4>1, <4>2
      <4> QED
        BY <1>3, <3>2, <4>3, Zenon DEF Tally
    <3> QED
      BY <3>1, <3>2, Zenon
  <2>2. CASE tui
    BY <1>3, <1>7, <2>1, <2>2, Zenon DEF IInv, Totals, Past
  <2>3. CASE ~tui
    BY <1>3, <2>1, <2>3, Zenon DEF IInv, Totals, NeverOverstated, Shown
  <2> QED
    BY <2>2, <2>3, Zenon
<1>9. Rows'
  <2>1. ASSUME NEW d \in Locals, tui PROVE HasRow(d)' <=> HasRow(d)
    <3>1. CASE d = c
      <4>1. c \in Pending("closed")'
        BY <1>6, <2>1, Zenon
      <4>2. local'[c] # "admitted"
        BY <1>2
      <4>3. HasRow(c)' <=> HasRow(c)
        BY <1>2, <1>3, <1>6, <4>1, <4>2, Zenon DEF HasRow
      <4> QED
        BY <3>1, <4>3, Zenon
    <3>2. CASE d # c
      <4>1. d \in Pending("closed")' <=> d \in Pending("closed")
        BY <1>6, <2>1, <3>2, Zenon
      <4>2. local'[d] = local[d] /\ started'[d] = started[d]
        BY <1>2, <1>3, <3>2, Zenon
      <4> QED
        BY <1>6, <4>1, <4>2, Zenon DEF HasRow
    <3> QED
      BY <3>1, <3>2, Zenon
  <2> HIDE DEF HasRow
  <2> QED
    BY <1>3, <2>1, Zenon DEF IInv, Rows
<1>10. \A d \in Waiting : Precedes(d, e)
  <2> SUFFICES ASSUME NEW d \in Waiting PROVE Precedes(d, e)
    OBVIOUS
  <2>1. d.type = "closed" => local[d.id] = "closed"
    BY Zenon DEF IInv, Facts
  <2>2. d # e
    BY <1>0, <1>2, <2>1, Zenon
  <2> QED
    BY <1>0, <2>2 DEF Precedes
<1>11. \A h \in held : Precedes(e, h)
  <2>1. \A h \in held : h.type = "bytes"
    BY Zenon DEF IInv, Held
  <2> QED
    BY <1>0, <2>1 DEF Precedes
<1>12. Held'
  <2>1. \A d \in Waiting', h \in held : Precedes(d, h)
    BY <1>6, <1>11, Zenon DEF IInv, Held
  <2> QED
    BY <1>3, <2>1, Zenon DEF IInv, Held
<1>13. Facts'
  <2> SUFFICES ASSUME NEW f \in Waiting' \cup held
               PROVE  /\ f.type = "opened" => OpenedFact(f)'
                      /\ f.type = "closed" => local'[f.id] = "closed"
                      /\ f.type = "bytes" => BytesFact(f)'
    BY <1>3, Zenon DEF Facts
  <2>1. CASE tui /\ f = e
    <3>1. f.type = "closed" /\ f.id = c
      BY <1>0, <2>1
    <3> QED
      BY <1>2, <3>1
  <2>2. CASE f \in Waiting \cup held
    <3>1. /\ f.type = "opened" => OpenedFact(f)
          /\ f.type = "closed" => local[f.id] = "closed"
          /\ f.type = "bytes" => BytesFact(f)
      BY <2>2, Zenon DEF IInv, Facts
    <3>2. f.type # "forwards" => f.id \in Locals
      BY <1>0, <2>2, WaitingType, IdIs, Zenon
    <3>3. ASSUME f.type = "opened" PROVE OpenedFact(f)'
      <4>0. f \in Waiting /\ tui
        <5>1. f \notin held
          <6>1. \A h \in held : h.type = "bytes"
            BY Zenon DEF IInv, Held
          <6> QED
            BY <3>3, <6>1
        <5>2. ~tui => Waiting = {}
          BY <1>0, NobodyIs, Zenon
        <5> QED
          BY <2>2, <5>1, <5>2, Zenon
      <4>1. f.id \in Locals /\ OpenedFact(f)
        BY <3>1, <3>2, <3>3
      <4>2. CASE f.id = c
        <5>1. f.id \in Pending("closed")' /\ local'[f.id] = "closed"
          BY <1>2, <1>6, <4>0, <4>2, Zenon
        <5> QED
          BY <1>3, <4>1, <5>1, Zenon DEF OpenedFact
      <4>3. CASE f.id # c
        <5>1. local'[f.id] = local[f.id] /\ (f.id \in Pending("closed") => f.id \in Pending("closed")')
          BY <1>2, <1>6, <4>0, <4>1, <4>3, Zenon
        <5> QED
          BY <1>3, <4>1, <5>1, Zenon DEF OpenedFact
      <4> QED
        BY <4>2, <4>3, Zenon
    <3>4. ASSUME f.type = "closed" PROVE local'[f.id] = "closed"
      <4>1. f.id \in Locals /\ local[f.id] = "closed"
        BY <3>1, <3>2, <3>4, SMTT(30)
      <4> QED
        BY <1>2, <4>1, Zenon
    <3>5. f.type = "bytes" => BytesFact(f)'
      BY <1>3, <3>1, Zenon DEF BytesFact
    <3> QED
      BY <3>3, <3>4, <3>5, Zenon
  <2> QED
    BY <1>6, <2>1, <2>2, Zenon
<1>14. TypeOK' /\ InTurn(chan') /\ Announced'
  <2>1. CASE tui
    <3>1. /\ chan' \in Seq(Events) /\ chan' # << >> /\ InTurn(chan')
          /\ (chan # << >> => chan'[1] = chan[1])
      BY <1>0, <1>1, <1>10, <2>1, SentIs, Zenon
    <3>2. TypeOK'
      BY <1>0, <1>2, <1>3, <2>1, <3>1, SMTT(30) DEF TypeOK
    <3>3. Announced'
      <4>1. Begun
        BY <1>2, Zenon DEF Begun
      <4> QED
        BY <1>3, <2>1, <3>1, <4>1, Zenon DEF IInv, Announced
    <3> QED
      BY <3>1, <3>2, <3>3, Zenon
  <2>2. CASE ~tui
    <3>1. chan' = chan
      BY <1>0, <1>1, <2>2, NobodyIs, Zenon
    <3>2. TypeOK'
      BY <1>0, <1>2, <1>3, <2>2, <3>1, Zenon DEF TypeOK
    <3> QED
      BY <1>0, <1>3, <2>2, <3>1, <3>2, Zenon DEF Announced
  <2> QED
    BY <2>1, <2>2, Zenon
<1> QED
  BY <1>5, <1>8, <1>9, <1>12, <1>13, <1>14, Zenon DEF IInv

-----------------------------------------------------------------------------
(***************************************************************************)
(* Steps of the byte tick.                                                 *)
(***************************************************************************)

\* The snapshot holds the counters of now, and no event on its way or row has
\* a larger one.
LEMMA TickReadsKeeps ==
    ASSUME IInv, TickReads
    PROVE  IInv'
<1>0. TypeOK /\ Rows /\ bytes \in [Locals -> 0 .. MaxBytes]
  BY Zenon DEF IInv, TypeOK
<1>1. /\ UNCHANGED <<run, tui, chan, localVars, modelVars>>
      /\ held' = snapshot /\ tick' = "send" /\ tick = "select"
  BY Zenon DEF TickReads
<1>2. Waiting' = Waiting /\ \A type : Pending(type)' = Pending(type)
  <2>1. chan' = chan
    BY <1>1, Zenon
  <2> QED
    BY <2>1, Zenon DEF Waiting, Pending
<1>3. Registry' /\ Rows' /\ Tally' /\ Totals'
  BY <1>1, <1>2, ViewKept, Zenon
<1>4. ASSUME NEW e \in snapshot
      PROVE  /\ e \in Events /\ e.type = "bytes" /\ e.id \in Locals
             /\ e.n = bytes[e.id] /\ started[e.id]
             /\ e = [type |-> "bytes", id |-> e.id, n |-> e.n]
  <2>1. PICK c \in Locals : started[c] /\ e = [type |-> "bytes", id |-> c, n |-> bytes[c]]
    BY DEF snapshot
  <2>2. e \in Events
    BY <1>0, <2>1, EventsAre, Zenon
  <2> QED
    BY <2>1, <2>2
<1>5. \A d \in Locals : bytes[d] \in Nat
  BY <1>0, ViewAssumption
<1>6. Facts'
  <2>0. local' = local /\ started' = started /\ bytes' = bytes /\ rows' = rows
    BY <1>1, Zenon DEF localVars, modelVars
  <2> SUFFICES ASSUME NEW e \in Waiting \cup snapshot
               PROVE  /\ e.type = "opened" => OpenedFact(e)'
                      /\ e.type = "closed" => local'[e.id] = "closed"
                      /\ e.type = "bytes" => BytesFact(e)'
    BY <1>1, <1>2, Zenon DEF Facts
  <2>1. CASE e \in Waiting
    BY <1>2, <2>0, <2>1, Zenon DEF IInv, Facts, OpenedFact, BytesFact
  <2>2. CASE e \in snapshot
    <3>1. e.type = "bytes" /\ e.id \in Locals /\ e.n = bytes[e.id] /\ started[e.id] /\ bytes[e.id] \in Nat
      BY <1>4, <1>5, <2>2, Zenon
    <3>2. e.n <= bytes[e.id]
      BY <3>1
    <3>3. \A m \in rows[e.id] : m <= e.n
      <4>1. rows[e.id] = {} \/ \E m \in 0 .. bytes[e.id] : rows[e.id] = {m}
        BY <1>0, <3>1, Zenon DEF Rows
      <4> QED
        BY <3>1, <4>1
    <3>4. e.type # "opened" /\ e.type # "closed"
      BY <3>1
    <3> QED
      BY <2>0, <3>1, <3>2, <3>3, <3>4, Zenon DEF BytesFact
  <2> QED
    BY <2>1, <2>2, Zenon
<1>7. Held'
  <2>1. run' \notin {"start", "setup"}
    <3>1. tick # "off" /\ run' = run
      BY <1>1
    <3> QED
      BY <3>1, Zenon DEF IInv, Held
  <2>2. \A e \in snapshot : e.type = "bytes"
    BY <1>4, Zenon
  <2>3. ASSUME NEW d \in snapshot, NEW e \in snapshot, d.id = e.id PROVE d = e
    <3>1. d = [type |-> "bytes", id |-> d.id, n |-> bytes[d.id]]
      BY <1>4, Zenon
    <3>2. e = [type |-> "bytes", id |-> e.id, n |-> bytes[e.id]]
      BY <1>4, Zenon
    <3> QED
      BY <2>3, <3>1, <3>2, Zenon
  <2>4. ASSUME NEW d \in Waiting, NEW e \in snapshot PROVE Precedes(d, e)
    <3>1. e.type = "bytes" /\ e.n = bytes[e.id]
      BY <1>4, Zenon
    <3>2. d.type = "bytes" => d.n <= bytes[d.id]
      BY Zenon DEF IInv, Facts, BytesFact
    <3>3. d.type \in {"opened", "closed"} => d # e
      BY <3>1
    <3> QED
      BY <3>1, <3>2, <3>3, Zenon DEF Precedes
  <2> QED
    BY <1>1, <1>2, <2>1, <2>2, <2>3, <2>4, Zenon DEF Held
<1>8. TypeOK'
  <2>1. held' \subseteq Events
    BY <1>1, <1>4, Zenon
  <2> QED
    BY <1>0, <1>1, <2>1 DEF TypeOK, localVars, modelVars
<1>9. InTurn(chan') /\ Announced'
  BY <1>1, Zenon DEF IInv, Announced, Begun, localVars, modelVars
<1> QED
  BY <1>3, <1>6, <1>7, <1>8, <1>9, Zenon DEF IInv

\* An event moves from the snapshot to the channel, or nobody wants it.
LEMMA TickSendsKeeps ==
    ASSUME IInv, TickSends
    PROVE  IInv'
<1>0. TypeOK /\ InTurn(chan) /\ Held
  BY Zenon DEF IInv
<1>1. PICK e \in held : Send(e) /\ held' = IF tui THEN held \ {e} ELSE {}
  BY Zenon DEF TickSends
<1>2. /\ UNCHANGED <<run, tui, localVars, modelVars>> /\ tick = "send"
      /\ tick' \in {"select", "send", "gone"}
      /\ tick' # "send" => held' = {}
  <2>1. tick' = CASE held' # {} -> "send"
                  [] held' = {} /\ (run = "ended" \/ ~tui) -> "gone"
                  [] OTHER -> "select"
    BY Zenon DEF TickSends
  <2>2. tick' \in {"select", "send", "gone"} /\ (tick' # "send" => held' = {})
    BY <2>1
  <2> QED
    BY <2>2, Zenon DEF TickSends
<1>3. e \in Events /\ e.type = "bytes" /\ e.type # "opened" /\ e.type # "closed" /\ e.id \in Locals
  <2>1. e.type = "bytes" /\ e \in Events
    BY <1>0, Zenon DEF Held, TypeOK
  <2> QED
    BY <2>1, EventIs
<1>4. /\ Pending("opened")' = Pending("opened") /\ Pending("closed")' = Pending("closed")
      /\ tui => Waiting' = Waiting \cup {e}
      /\ ~tui => Waiting' = Waiting
  <2>1. CASE tui
    <3>1. /\ Waiting' = Waiting \cup {e}
          /\ Pending("opened")' = Pending("opened") \cup (IF e.type = "opened" THEN {e.id} ELSE {})
          /\ Pending("closed")' = Pending("closed") \cup (IF e.type = "closed" THEN {e.id} ELSE {})
      BY <1>0, <1>1, <1>3, <2>1, SentIs, Zenon
    <3> QED
      BY <1>3, <2>1, <3>1, Zenon
  <2>2. CASE ~tui
    BY <1>0, <1>1, <2>2, NobodyIs, Zenon
  <2> QED
    BY <2>1, <2>2, Zenon
<1>5. Registry' /\ Rows' /\ Tally' /\ Totals'
  BY <1>2, <1>4, ViewKept, Zenon
<1>6. Facts'
  <2>1. \A f \in Waiting' \cup held' : f \in Waiting \cup held
    BY <1>1, <1>4, Zenon
  <2> QED
    BY <1>2, <1>4, <2>1, FactsKept, Zenon
<1>7. \A d \in Waiting : Precedes(d, e)
  BY <1>0, Zenon DEF Held
<1>8. \A h \in held \ {e} : Precedes(e, h)
  BY <1>0, <1>3, Zenon DEF Held, Precedes
<1>9. Held'
  <2>1. run' \notin {"start", "setup"}
    <3>1. tick # "off" /\ run' = run
      BY <1>2
    <3> QED
      BY <1>0, <3>1, Zenon DEF Held
  <2>2. held' \subseteq held
    BY <1>1, Zenon
  <2>3. \A d \in Waiting', h \in held' : Precedes(d, h)
    <3>1. CASE tui
      BY <1>0, <1>1, <1>4, <1>8, <3>1, Zenon DEF Held
    <3>2. CASE ~tui
      BY <1>1, <3>2, Zenon
    <3> QED
      BY <3>1, <3>2, Zenon
  <2> QED
    BY <1>0, <1>2, <2>1, <2>2, <2>3, Zenon DEF Held
<1>10. TypeOK' /\ InTurn(chan') /\ Announced'
  <2>0. held' \subseteq Events /\ (tui' <=> tui) /\ run' = run /\ local' = local /\ forwards' = forwards
    BY <1>0, <1>1, <1>2, Zenon DEF TypeOK, localVars, modelVars
  <2>1. CASE tui
    <3>1. /\ chan' \in Seq(Events) /\ chan' # << >> /\ InTurn(chan')
          /\ (chan # << >> => chan'[1] = chan[1])
      BY <1>0, <1>1, <1>3, <1>7, <2>1, SentIs, Zenon
    <3>2. TypeOK'
      BY <1>0, <1>2, <2>0, <2>1, <3>1 DEF TypeOK, localVars, modelVars
    <3>3. Begun
      <4>1. started[e.id]
        BY <1>3, Zenon DEF IInv, Facts, BytesFact
      <4>2. local[e.id] # "idle"
        BY <1>3, <4>1, Zenon DEF IInv, Registry
      <4> QED
        BY <1>3, <4>2, Zenon DEF Begun
    <3>4. Announced'
      BY <2>0, <2>1, <3>1, <3>3, Zenon DEF IInv, Announced
    <3> QED
      BY <3>1, <3>2, <3>4, Zenon
  <2>2. CASE ~tui
    <3>1. chan' = chan
      BY <1>0, <1>1, <2>2, NobodyIs, Zenon
    <3>2. TypeOK'
      BY <1>0, <1>2, <2>0, <2>2, <3>1 DEF TypeOK, localVars, modelVars
    <3> QED
      BY <1>0, <2>0, <2>2, <3>1, <3>2, Zenon DEF Announced
  <2> QED
    BY <2>1, <2>2, Zenon
<1> QED
  BY <1>5, <1>6, <1>9, <1>10, Zenon DEF IInv

-----------------------------------------------------------------------------
(***************************************************************************)
(* Steps of the terminal task.                                             *)
(***************************************************************************)

\* The view shows no more than was relayed: what it keeps of the connections
\* that are over and the rows of the others come to no more than the counters.
LEMMA Bounded == IInv => NeverOverstated
<1> SUFFICES ASSUME IInv PROVE NeverOverstated
  OBVIOUS
<1>0. TypeOK /\ Rows /\ Totals /\ bytes \in [Locals -> 0 .. MaxBytes] /\ total \in Nat
  BY Zenon DEF IInv, TypeOK
<1>1. CASE ~tui
  BY <1>0, <1>1, Zenon DEF Totals
<1>2. CASE tui
  <2> DEFINE shownIn == [c \in Locals |-> SumSet(rows[c])]
  <2>1. shownIn \in [Locals -> Nat] /\ \A c \in Locals : SumSet(rows[c]) \in 0 .. bytes[c]
    BY <1>0, RowSums, Zenon
  <2>2. bytes \in [Locals -> Nat] /\ \A c \in Locals : bytes[c] \in Nat
    BY <1>0, ViewAssumption
  <2>3. Past \in [Locals -> Nat]
    BY <2>2 DEF Past
  <2>4. ASSUME NEW c \in Locals PROVE Past[c] + shownIn[c] <= bytes[c]
    <3>1. CASE c \in Over
      <4>1. rows[c] = {}
        <5>1. ~HasRow(c)
          BY <3>1, Zenon DEF Over, Ended, HasRow
        <5> QED
          BY <1>0, <1>2, <5>1, Zenon DEF Rows
      <4>2. shownIn[c] = 0 /\ Past[c] = bytes[c] /\ bytes[c] \in Nat
        BY <2>2, <3>1, <4>1, SumOfOne, Zenon DEF Past
      <4> QED
        BY <4>2
    <3>2. CASE c \notin Over
      <4>1. shownIn[c] \in 0 .. bytes[c] /\ Past[c] = 0 /\ bytes[c] \in Nat
        BY <2>1, <2>2, <3>2, Zenon DEF Past
      <4> QED
        BY <4>1
    <3> QED
      BY <3>1, <3>2, Zenon
  <2> HIDE DEF shownIn
  <2>5. SumFunction(Past) + SumFunction(shownIn) <= SumFunction(bytes)
    BY <2>1, <2>2, <2>3, <2>4, SumLe, ViewAssumption
  <2>6. SumFunction(Past) \in Nat /\ SumFunction(shownIn) \in Nat /\ SumFunction(bytes) \in Nat
    BY <2>1, <2>2, <2>3, SumType, ViewAssumption, Zenon
  <2>7. total <= SumFunction(Past)
    BY <1>0, <1>2, Zenon DEF Totals
  <2>8. total + SumFunction(shownIn) <= SumFunction(bytes)
    BY <1>0, <2>5, <2>6, <2>7
  <2> QED
    BY <2>8, Zenon DEF NeverOverstated, Shown, shownIn
<1> QED
  BY <1>1, <1>2, Zenon

\* The terminal task ends, because the channel is closed or the user quits:
\* what it last showed stays true.
LEMMA EndKeeps ==
    ASSUME IInv, TuiEnds \/ Quit
    PROVE  IInv'
<1>0. TypeOK /\ NeverOverstated
  BY Bounded, Zenon DEF IInv
<1>1. /\ UNCHANGED <<localVars, held, modelVars>>
      /\ ~tui' /\ tui' \in BOOLEAN /\ chan' = << >>
      /\ run' = run \/ (run = "waiting" /\ run' = "woken")
      /\ tick' = tick \/ (tick = "select" /\ tick' = "gone")
  BY Zenon DEF TuiEnds, Quit
<1>2. /\ local' = local /\ started' = started /\ bytes' = bytes /\ held' = held
      /\ forwards' = forwards /\ rows' = rows /\ total' = total /\ closed' = closed
  BY <1>1, Zenon DEF localVars, modelVars
<1>3. Waiting' = {} /\ \A type : Pending(type)' = {}
  <2>1. Waiting' = {}
    BY <1>1, NoneIn, Zenon DEF Waiting
  <2> QED
    BY <2>1, NoneIn, PendingAre, Zenon
<1>4. TypeOK'
  BY <1>0, <1>1, <1>2 DEF TypeOK
<1>5. Registry' /\ Rows' /\ Announced'
  BY <1>1, <1>2, Zenon DEF IInv, Registry, Rows, Announced
<1>6. InTurn(chan')
  <2>1. Len(<< >>) = 0 /\ 1 .. 0 = {}
    OBVIOUS
  <2> QED
    BY <1>1, <2>1, Zenon DEF InTurn
<1>7. Held'
  <2>1. /\ run' \in {"start", "setup"} => run = run' /\ tick = "off"
        /\ tick' # "send" => tick # "send"
    <3>1. run \in {"start", "setup"} => tick = "off"
      BY Zenon DEF IInv, Held
    <3> QED
      BY <1>1, <3>1
  <2>2. run' \in {"start", "setup"} => tick' = "off"
    BY <1>1, <2>1
  <2> QED
    BY <1>2, <1>3, <2>1, <2>2, Zenon DEF IInv, Held
<1>8. Facts'
  <2>1. \A e \in held : e.type = "bytes" /\ BytesFact(e)
    BY Zenon DEF IInv, Facts, Held
  <2>2. "bytes" # "opened" /\ "bytes" # "closed"
    OBVIOUS
  <2> QED
    BY <1>2, <1>3, <2>1, <2>2, Zenon DEF Facts, BytesFact
<1>9. Tally'
  <2>1. Over \subseteq Over' /\ Over' \subseteq Locals
    BY <1>2, <1>3, Zenon DEF Over, Ended
  <2>2. IsFiniteSet(Over')
    BY <2>1, ViewAssumption, FS_Subset, Zenon
  <2>3. Cardinality(Over) <= Cardinality(Over') /\ Cardinality(Over) \in Nat /\ Cardinality(Over') \in Nat
    BY <2>1, <2>2, FS_Subset, FS_CardinalityType, Zenon
  <2>4. closed <= Cardinality(Over) /\ closed \in Nat
    <3>1. closed \in 0 .. Cardinality(Locals)
      BY <1>0, Zenon DEF TypeOK
    <3>2. closed \in Nat
      BY <3>1, ViewAssumption, FS_CardinalityType
    <3> QED
      BY <3>2, Zenon DEF IInv, Tally
  <2>5. closed <= Cardinality(Over')
    BY <2>3, <2>4
  <2> QED
    BY <1>1, <1>2, <2>5, Zenon DEF Tally
<1>10. Totals'
  BY <1>0, <1>1, <1>2, Zenon DEF Totals, NeverOverstated, Shown
<1> QED
  BY <1>4, <1>5, <1>6, <1>7, <1>8, <1>9, <1>10, Zenon DEF IInv

\* What receiving an event does, whatever its type.
LEMMA ReceiveIs ==
    ASSUME IInv, Receive
    PROVE  /\ TypeOK /\ tui /\ chan # << >>
           /\ run' = run /\ tui' = tui /\ tick' = tick /\ held' = held
           /\ local' = local /\ started' = started /\ bytes' = bytes
           /\ Head(chan) \in Events /\ chan' \in Seq(Events)
           /\ Waiting = Waiting' \cup {Head(chan)}
           /\ \A type : Pending(type) = Pending(type)' \cup (IF Head(chan).type = type THEN {Head(chan).id} ELSE {})
           /\ \A e \in Waiting' \cup held : Precedes(Head(chan), e)
           /\ Head(chan).type = "forwards" \/ forwards
           /\ apply(Head(chan))
           /\ InTurn(chan') /\ Held' /\ Registry'
<1>0. TypeOK /\ InTurn(chan) /\ Held
  BY Zenon DEF IInv
<1>1. /\ tui /\ chan # << >> /\ chan' = Tail(chan) /\ apply(Head(chan))
      /\ UNCHANGED <<run, tui, localVars, tick, held>>
  BY Zenon DEF Receive
<1>2. /\ run' = run /\ tui' = tui /\ tick' = tick /\ held' = held
      /\ local' = local /\ started' = started /\ bytes' = bytes
  BY <1>1, Zenon DEF localVars
<1>3. /\ Head(chan) \in Events /\ chan' \in Seq(Events) /\ Head(chan) = chan[1]
      /\ Waiting = Waiting' \cup {Head(chan)}
      /\ InTurn(chan')
      /\ \A e \in Waiting' : Precedes(Head(chan), e)
  BY <1>0, <1>1, ReceivedIs, Zenon
<1>4. \A type : Pending(type) = Pending(type)' \cup (IF Head(chan).type = type THEN {Head(chan).id} ELSE {})
  BY <1>0, <1>1, ReceivedIs, Zenon
<1>5. \A e \in Waiting' \cup held : Precedes(Head(chan), e)
  BY <1>0, <1>3, Zenon DEF Held
<1>6. Head(chan).type = "forwards" \/ forwards
  BY <1>1, <1>3, Zenon DEF IInv, Announced
<1>7. Held'
  BY <1>0, <1>2, <1>3, Zenon DEF Held
<1>8. Registry'
  BY <1>2, Zenon DEF IInv, Registry
<1> QED
  BY <1>0, <1>1, <1>2, <1>3, <1>4, <1>5, <1>6, <1>7, <1>8, Zenon

\* Everything but the view, and the forwards stay first.
LEMMA ReceiveFrame ==
    ASSUME IInv, Receive, forwards', forwards' \in BOOLEAN, rows' \in [Locals -> SUBSET Nat], total' \in Nat,
           closed' \in 0 .. Cardinality(Locals)
    PROVE  TypeOK' /\ InTurn(chan') /\ Held' /\ Registry' /\ Announced'
<1>1. /\ TypeOK /\ tui /\ run' = run /\ tui' = tui /\ tick' = tick /\ held' = held
      /\ local' = local /\ started' = started /\ bytes' = bytes
      /\ chan' \in Seq(Events) /\ InTurn(chan') /\ Held' /\ Registry'
  BY ReceiveIs, Zenon
<1>2. TypeOK'
  BY <1>1 DEF TypeOK
<1>3. Announced'
  BY Zenon DEF Announced
<1> QED
  BY <1>1, <1>2, <1>3, Zenon

\* The forwards are received.
LEMMA ForwardsKeeps ==
    ASSUME IInv, Receive, Head(chan).type = "forwards"
    PROVE  IInv' /\ Shown' = Shown
<1> DEFINE h == Head(chan)
<1>1. /\ TypeOK /\ tui /\ tui' = tui /\ held' = held
      /\ local' = local /\ started' = started /\ bytes' = bytes
      /\ Waiting = Waiting' \cup {h} /\ apply(h)
  BY ReceiveIs, Zenon
<1>2. /\ Pending("opened") = Pending("opened")' \cup (IF h.type = "opened" THEN {h.id} ELSE {})
      /\ Pending("closed") = Pending("closed")' \cup (IF h.type = "closed" THEN {h.id} ELSE {})
  BY ReceiveIs, Zenon
<1>3. h.type # "opened" /\ h.type # "closed" /\ h.type # "bytes"
  OBVIOUS
<1>4. Pending("opened")' = Pending("opened") /\ Pending("closed")' = Pending("closed")
  BY <1>2, <1>3, Zenon
<1>5. forwards' = TRUE /\ rows' = rows /\ total' = total /\ closed' = closed
  BY <1>1, <1>3, Zenon DEF apply, apply_forwards
<1> HIDE DEF h
<1>6. TypeOK' /\ InTurn(chan') /\ Held' /\ Registry' /\ Announced'
  BY <1>1, <1>5, ReceiveFrame, Zenon DEF TypeOK
<1>7. Rows'
  BY <1>1, <1>4, <1>5, Zenon DEF IInv, Rows, HasRow
<1>8. Over' = Over
  BY <1>1, <1>4, Zenon DEF Over, Ended
<1>9. Tally' /\ Totals'
  BY <1>1, <1>5, <1>8, Zenon DEF IInv, Tally, Totals, Past
<1>10. Facts'
  BY <1>1, <1>4, <1>5, Zenon DEF IInv, Facts, OpenedFact, BytesFact
<1> QED
  BY <1>5, <1>6, <1>7, <1>9, <1>10, Zenon DEF IInv, Shown

\* The bytes all rows show, and what a change of one row does to them.
RowSum(r) == SumFunction([d \in Locals |-> SumSet(r[d])])

\* When one row changes, the sum changes by that row.
LEMMA RowChange ==
    ASSUME IInv, NEW c \in Locals, NEW r \in [Locals -> SUBSET Nat], SumSet(r[c]) \in Nat,
           \A d \in Locals : d # c => r[d] = rows[d]
    PROVE  /\ RowSum(rows) \in Nat /\ RowSum(r) \in Nat /\ SumSet(rows[c]) \in Nat
           /\ RowSum(r) + SumSet(rows[c]) = RowSum(rows) + SumSet(r[c])
<1> DEFINE f == [d \in Locals |-> SumSet(rows[d])]
<1> DEFINE g == [d \in Locals |-> SumSet(r[d])]
<1>1. f \in [Locals -> Nat]
  <2>1. Rows /\ bytes \in [Locals -> 0 .. MaxBytes]
    BY Zenon DEF IInv, TypeOK
  <2> QED
    BY <2>1, RowSums, Zenon
<1>2. g[c] = SumSet(r[c]) /\ f[c] = SumSet(rows[c]) /\ \A d \in Locals : d # c => g[d] = f[d]
  BY Zenon
<1>3. \A d \in Locals : g[d] \in Nat
  BY <1>1, <1>2, Zenon
<1>4. g \in [Locals -> Nat]
  BY <1>3, Zenon
<1> HIDE DEF f, g
<1>5. SumFunction(g) + f[c] = SumFunction(f) + g[c]
  BY <1>1, <1>2, <1>4, SumChange, ViewAssumption
<1>6. SumFunction(f) \in Nat /\ SumFunction(g) \in Nat /\ f[c] \in Nat
  BY <1>1, <1>4, SumType, ViewAssumption, Zenon
<1> QED
  BY <1>2, <1>5, <1>6, Zenon DEF f, g, RowSum

\* The announcement of a connection is received: a row of no bytes.
LEMMA OpenedReceived ==
    ASSUME IInv, Receive, Head(chan).type = "opened"
    PROVE  IInv' /\ Shown' = Shown
<1>p. PICK h, c : h = Head(chan) /\ c = h.id
  BY Zenon
<1>1. /\ TypeOK /\ tui /\ tui' = tui /\ held' = held /\ forwards
      /\ local' = local /\ started' = started /\ bytes' = bytes
      /\ Waiting = Waiting' \cup {h} /\ h \in Events
      /\ \A e \in Waiting' : Precedes(h, e)
  <2>1. Head(chan).type # "forwards"
    OBVIOUS
  <2> QED
    BY <1>p, <2>1, ReceiveIs, Zenon
<1>2. /\ Pending("opened") = Pending("opened")' \cup (IF h.type = "opened" THEN {h.id} ELSE {})
      /\ Pending("closed") = Pending("closed")' \cup (IF h.type = "closed" THEN {h.id} ELSE {})
      /\ apply(h)
  BY <1>p, ReceiveIs, Zenon
<1>3. h.type = "opened" /\ h.type # "forwards" /\ h.type # "closed" /\ h.type # "bytes"
  BY <1>p
<1>4. Pending("opened") = Pending("opened")' \cup {c} /\ Pending("closed")' = Pending("closed")
  BY <1>p, <1>2, <1>3, Zenon
<1>5. forwards' = forwards /\ rows' = [rows EXCEPT ![c] = {0}] /\ total' = total /\ closed' = closed
  BY <1>p, <1>1, <1>2, <1>3, Zenon DEF apply, apply_opened
<1>6. c \in Locals /\ OpenedFact(h)
  <2>1. h \in Waiting
    BY <1>1, Zenon
  <2> QED
    BY <1>p, <1>1, <1>3, <2>1, IdIs, Zenon DEF IInv, Facts
<1>7. /\ rows' \in [Locals -> SUBSET Nat] /\ rows'[c] = {0}
      /\ \A d \in Locals : d # c => rows'[d] = rows[d]
  BY <1>1, <1>5, <1>6 DEF TypeOK
<1>8. rows[c] = {} /\ started[c] /\ local[c] \in {"relaying", "closed"} /\ (local[c] = "closed" => c \in Pending("closed"))
  BY <1>p, <1>6, Zenon DEF OpenedFact
<1>9. c \notin Pending("opened")'
  <2>1. ASSUME NEW e \in Waiting', e.type = "opened", e.id = c PROVE FALSE
    <3>1. e \in Events
      BY <1>1, <2>1, WaitingType, Zenon
    <3>2. e = [type |-> "opened", id |-> c]
      BY <2>1, <3>1, EventIs
    <3>3. h = [type |-> "opened", id |-> c]
      BY <1>p, <1>1, <1>3, EventIs
    <3>4. h # e
      BY <1>1, <1>3, Zenon DEF Precedes
    <3> QED
      BY <3>2, <3>3, <3>4, Zenon
  <2>2. Pending("opened")' = Ids(Waiting', "opened")
    BY PendingAre, Zenon
  <2> QED
    BY <2>1, <2>2, Zenon DEF Ids
<1>10. TypeOK' /\ InTurn(chan') /\ Held' /\ Registry' /\ Announced'
  BY <1>1, <1>5, <1>7, ReceiveFrame, Zenon DEF TypeOK
<1>11. Rows'
  <2> SUFFICES ASSUME NEW d \in Locals
               PROVE  /\ rows'[d] = {} \/ \E m \in 0 .. bytes[d] : rows'[d] = {m}
                      /\ (rows'[d] # {}) <=> HasRow(d)'
    BY <1>1, Zenon DEF Rows
  <2>1. CASE d = c
    <3>1. 0 \in 0 .. bytes[c]
      BY <1>1, <1>6, ViewAssumption DEF TypeOK
    <3>2. local[c] # "admitted"
      BY <1>8
    <3>3. HasRow(c)' /\ {0} # {}
      BY <1>1, <1>4, <1>8, <1>9, <3>2, Zenon DEF HasRow
    <3> QED
      BY <1>7, <2>1, <3>1, <3>3, Zenon
  <2>2. CASE d # c
    <3>1. d \in Pending("opened")' <=> d \in Pending("opened")
      BY <1>4, <2>2, Zenon
    <3>2. HasRow(d)' <=> HasRow(d)
      BY <1>1, <1>4, <3>1, Zenon DEF HasRow
    <3> QED
      BY <1>1, <1>7, <2>2, <3>2, Zenon DEF IInv, Rows
  <2> QED
    BY <2>1, <2>2, Zenon
<1>12. Over' = Over
  BY <1>1, <1>4, Zenon DEF Over, Ended
<1>13. Tally' /\ Totals'
  BY <1>1, <1>5, <1>12, Zenon DEF IInv, Tally, Totals, Past
<1>14. Facts'
  <2> SUFFICES ASSUME NEW e \in Waiting' \cup held
               PROVE  /\ e.type = "opened" => OpenedFact(e)'
                      /\ e.type = "closed" => local'[e.id] = "closed"
                      /\ e.type = "bytes" => BytesFact(e)'
    BY <1>1, Zenon DEF Facts
  <2>0. e \in Events /\ e \in Waiting \cup held
    BY <1>1, WaitingType, Zenon
  <2>1. /\ e.type = "opened" => OpenedFact(e)
        /\ e.type = "closed" => local[e.id] = "closed"
        /\ e.type = "bytes" => BytesFact(e)
    BY <2>0, Zenon DEF IInv, Facts
  <2>2. ASSUME e.type = "opened" PROVE OpenedFact(e)'
    <3>1. e \in Waiting'
      <4>1. \A f \in held : f.type # "opened"
        <5>1. \A f \in held : f.type = "bytes"
          BY Zenon DEF IInv, Held
        <5> QED
          BY <5>1
      <4> QED
        BY <2>2, <4>1, Zenon
    <3>2. e.id \in Pending("opened")'
      <4>1. Pending("opened")' = Ids(Waiting', "opened")
        BY PendingAre, Zenon
      <4> QED
        BY <2>2, <3>1, <4>1, Zenon DEF Ids
    <3>3. e.id # c /\ e.id \in Locals
      BY <1>9, <2>0, <2>2, <3>2, EventIs, SMTT(30)
    <3> QED
      BY <1>1, <1>4, <1>7, <2>1, <2>2, <3>3, Zenon DEF OpenedFact
  <2>3. ASSUME e.type = "bytes" PROVE BytesFact(e)'
    <3>1. e.id \in Locals /\ e.n \in Nat
      BY <2>0, <2>3, EventIs, ViewAssumption, SMTT(30)
    <3>2. \A m \in {0} : m <= e.n
      BY <3>1
    <3>3. \A m \in rows'[e.id] : m <= e.n
      BY <1>7, <2>1, <2>3, <3>1, <3>2, Zenon DEF BytesFact
    <3> QED
      BY <1>1, <2>1, <2>3, <3>3, Zenon DEF BytesFact
  <2> QED
    BY <1>1, <2>1, <2>2, <2>3, Zenon
<1>15. Shown' = Shown
  <2>1. SumSet(rows[c]) = 0 /\ SumSet(rows'[c]) = 0 /\ 0 \in Nat
    BY <1>7, <1>8, SumOfOne
  <2>2. /\ RowSum(rows) \in Nat /\ RowSum(rows') \in Nat
        /\ RowSum(rows') + 0 = RowSum(rows) + 0
    BY <1>6, <1>7, <2>1, RowChange, Zenon
  <2>3. RowSum(rows') = RowSum(rows)
    BY <2>2
  <2> QED
    BY <1>5, <2>3, Zenon DEF Shown, RowSum
<1> QED
  BY <1>10, <1>11, <1>13, <1>14, <1>15, Zenon DEF IInv

\* A counter is received: the row takes it, if there is one, and it is no
\* smaller than what the row had.
LEMMA BytesReceived ==
    ASSUME IInv, Receive, Head(chan).type = "bytes"
    PROVE  IInv' /\ Shown' >= Shown
<1>p. PICK h, c, n : h = Head(chan) /\ c = h.id /\ n = h.n
  BY Zenon
<1>1. /\ TypeOK /\ tui /\ tui' = tui /\ held' = held /\ forwards
      /\ local' = local /\ started' = started /\ bytes' = bytes
      /\ Waiting = Waiting' \cup {h} /\ h \in Events
      /\ \A e \in Waiting' \cup held : Precedes(h, e)
  <2>1. Head(chan).type # "forwards"
    OBVIOUS
  <2> QED
    BY <1>p, <2>1, ReceiveIs, Zenon
<1>2. /\ Pending("opened") = Pending("opened")' \cup (IF h.type = "opened" THEN {h.id} ELSE {})
      /\ Pending("closed") = Pending("closed")' \cup (IF h.type = "closed" THEN {h.id} ELSE {})
      /\ apply(h)
  BY <1>p, ReceiveIs, Zenon
<1>3. h.type = "bytes" /\ h.type # "forwards" /\ h.type # "closed" /\ h.type # "opened"
  BY <1>p
<1>4. Pending("opened") = Pending("opened")' /\ Pending("closed")' = Pending("closed")
  BY <1>2, <1>3, Zenon
<1>5. /\ forwards' = forwards /\ total' = total /\ closed' = closed
      /\ rows' = [rows EXCEPT ![c] = IF @ = {} THEN {} ELSE {n}]
  BY <1>p, <1>1, <1>2, <1>3, Zenon DEF apply, apply_bytes
<1>6. c \in Locals /\ n \in Nat /\ BytesFact(h) /\ bytes[c] \in Nat
  <2>1. h \in Waiting
    BY <1>1, Zenon
  <2>2. BytesFact(h)
    BY <1>3, <2>1, Zenon DEF IInv, Facts
  <2>3. c \in Locals /\ n \in Nat
    BY <1>p, <1>1, <1>3, EventIs, ViewAssumption, SMTT(30)
  <2> QED
    BY <1>1, <2>2, <2>3, ViewAssumption DEF TypeOK
<1>7. /\ rows' \in [Locals -> SUBSET Nat] /\ rows'[c] = IF rows[c] = {} THEN {} ELSE {n}
      /\ \A d \in Locals : d # c => rows'[d] = rows[d]
  BY <1>1, <1>5, <1>6 DEF TypeOK
<1>8. n <= bytes[c] /\ \A m \in rows[c] : m <= n
  BY <1>p, <1>6, Zenon DEF BytesFact
<1>9. TypeOK' /\ InTurn(chan') /\ Held' /\ Registry' /\ Announced'
  BY <1>1, <1>5, <1>7, ReceiveFrame, Zenon DEF TypeOK
<1>10. Rows'
  <2> SUFFICES ASSUME NEW d \in Locals
               PROVE  /\ rows'[d] = {} \/ \E m \in 0 .. bytes[d] : rows'[d] = {m}
                      /\ (rows'[d] # {}) <=> HasRow(d)'
    BY <1>1, Zenon DEF Rows
  <2>1. HasRow(d)' <=> HasRow(d)
    BY <1>1, <1>4, Zenon DEF HasRow
  <2>2. (rows[d] # {}) <=> HasRow(d)
    BY <1>1, Zenon DEF IInv, Rows
  <2>3. CASE d = c
    <3>1. n \in 0 .. bytes[c]
      BY <1>6, <1>8
    <3>2. rows'[c] = {} \/ rows'[c] = {n}
      BY <1>7, Zenon
    <3>3. rows'[c] # {} <=> rows[c] # {}
      BY <1>7, Zenon
    <3> QED
      BY <2>1, <2>2, <2>3, <3>1, <3>2, <3>3, Zenon
  <2>4. CASE d # c
    BY <1>7, <2>1, <2>2, <2>4, ZenonT(40) DEF IInv, Rows
  <2> QED
    BY <2>3, <2>4, Zenon
<1>11. Over' = Over
  BY <1>1, <1>4, Zenon DEF Over, Ended
<1>12. Tally' /\ Totals'
  BY <1>1, <1>5, <1>11, Zenon DEF IInv, Tally, Totals, Past
<1>13. Facts'
  <2> SUFFICES ASSUME NEW e \in Waiting' \cup held
               PROVE  /\ e.type = "opened" => OpenedFact(e)'
                      /\ e.type = "closed" => local'[e.id] = "closed"
                      /\ e.type = "bytes" => BytesFact(e)'
    BY <1>1, Zenon DEF Facts
  <2>0. e \in Events /\ e \in Waiting \cup held
    BY <1>1, WaitingType, Zenon
  <2>1. /\ e.type = "opened" => OpenedFact(e)
        /\ e.type = "closed" => local[e.id] = "closed"
        /\ e.type = "bytes" => BytesFact(e)
    BY <2>0, Zenon DEF IInv, Facts
  <2>2. ASSUME e.type = "opened" PROVE OpenedFact(e)'
    <3>1. e.id \in Locals
      BY <2>0, <2>2, EventIs
    <3>2. rows[e.id] = {}
      BY <2>1, <2>2, Zenon DEF OpenedFact
    <3>3. rows'[e.id] = {}
      BY <1>7, <3>1, <3>2, Zenon
    <3> QED
      BY <1>1, <1>4, <2>1, <2>2, <3>3, ZenonT(40) DEF OpenedFact
  <2>3. ASSUME e.type = "bytes" PROVE BytesFact(e)'
    <3>1. e.id \in Locals
      BY <2>0, <2>3, EventIs
    <3>2. e.id = c => n <= e.n
      BY <1>p, <1>1, <1>3, <2>3, Zenon DEF Precedes
    <3>3. \A m \in rows'[e.id] : m <= e.n
      <4>1. CASE e.id = c
        BY <1>7, <3>2, <4>1, Zenon
      <4>2. CASE e.id # c
        BY <1>7, <2>1, <2>3, <3>1, <4>2, Zenon DEF BytesFact
      <4> QED
        BY <4>1, <4>2, Zenon
    <3> QED
      BY <1>1, <2>1, <2>3, <3>3, ZenonT(40) DEF BytesFact
  <2> QED
    BY <1>1, <2>1, <2>2, <2>3, Zenon
<1>14. Shown' >= Shown
  <2>1. SumSet(rows'[c]) \in Nat /\ SumSet(rows[c]) <= SumSet(rows'[c]) /\ SumSet(rows[c]) \in Nat
    <3>1. CASE rows[c] = {}
      BY <1>7, <3>1, SumOfOne
    <3>2. CASE \E m \in 0 .. bytes[c] : rows[c] = {m}
      <4>1. PICK m \in 0 .. bytes[c] : rows[c] = {m}
        BY <3>2
      <4>2. m \in Nat /\ m <= n
        BY <1>6, <1>8, <4>1, SMTT(30)
      <4>3. SumSet(rows[c]) = m /\ SumSet(rows'[c]) = n
        BY <1>6, <1>7, <4>1, <4>2, SumOfOne
      <4> QED
        BY <1>6, <4>2, <4>3
    <3> QED
      BY <1>6, <3>1, <3>2, Zenon DEF IInv, Rows
  <2>2. /\ RowSum(rows) \in Nat /\ RowSum(rows') \in Nat
        /\ RowSum(rows') + SumSet(rows[c]) = RowSum(rows) + SumSet(rows'[c])
    BY <1>6, <1>7, <2>1, RowChange, Zenon
  <2>3. total \in Nat /\ total' = total
    BY <1>1, <1>5, Zenon DEF TypeOK
  <2>4. total' + RowSum(rows') >= total + RowSum(rows)
    BY <2>1, <2>2, <2>3
  <2> QED
    BY <2>4, Zenon DEF Shown, RowSum
<1> QED
  BY <1>9, <1>10, <1>12, <1>13, <1>14, Zenon DEF IInv

\* The end of a connection is received: its bytes move from its row to the
\* total, and it is counted.
LEMMA ClosedReceived ==
    ASSUME IInv, Receive, Head(chan).type = "closed"
    PROVE  IInv' /\ Shown' = Shown
<1>p. PICK h, c : h = Head(chan) /\ c = h.id
  BY Zenon
<1>1. /\ TypeOK /\ tui /\ tui' = tui /\ held' = held /\ forwards
      /\ local' = local /\ started' = started /\ bytes' = bytes
      /\ Waiting = Waiting' \cup {h} /\ h \in Events
      /\ \A e \in Waiting' \cup held : Precedes(h, e)
  <2>1. Head(chan).type # "forwards"
    OBVIOUS
  <2> QED
    BY <1>p, <2>1, ReceiveIs, Zenon
<1>2. /\ Pending("opened") = Pending("opened")' \cup (IF h.type = "opened" THEN {h.id} ELSE {})
      /\ Pending("closed") = Pending("closed")' \cup (IF h.type = "closed" THEN {h.id} ELSE {})
      /\ apply(h)
  BY <1>p, ReceiveIs, Zenon
<1>3. h.type = "closed" /\ h.type # "forwards" /\ h.type # "bytes" /\ h.type # "opened"
  BY <1>p
<1>4. Pending("opened") = Pending("opened")' /\ Pending("closed") = Pending("closed")' \cup {c}
  BY <1>p, <1>2, <1>3, Zenon
<1>5. /\ forwards' = forwards /\ total' = total + SumSet(rows[c]) /\ closed' = closed + 1
      /\ rows' = [rows EXCEPT ![c] = {}]
  BY <1>p, <1>1, <1>2, <1>3, Zenon DEF apply, apply_closed
<1>6. c \in Locals /\ local[c] = "closed" /\ bytes[c] \in Nat
  <2>1. h \in Waiting
    BY <1>1, Zenon
  <2>2. local[c] = "closed"
    BY <1>p, <1>3, <2>1, Zenon DEF IInv, Facts
  <2>3. c \in Locals
    BY <1>p, <1>1, <1>3, EventIs, SMTT(30)
  <2> QED
    BY <1>1, <2>2, <2>3, ViewAssumption DEF TypeOK
<1>7. /\ rows' \in [Locals -> SUBSET Nat] /\ rows'[c] = {}
      /\ \A d \in Locals : d # c => rows'[d] = rows[d]
  BY <1>1, <1>5, <1>6 DEF TypeOK
<1>8. SumSet(rows[c]) \in Nat /\ SumSet(rows[c]) <= bytes[c]
  <2>1. SumSet(rows[c]) \in 0 .. bytes[c]
    BY <1>1, <1>6, RowSums, Zenon DEF IInv, TypeOK
  <2> QED
    BY <1>6, <2>1
<1>9. c \notin Pending("closed")' /\ c \notin Pending("opened")'
  <2>1. ASSUME NEW e \in Waiting', e.type = "closed", e.id = c PROVE FALSE
    <3>1. e \in Events
      BY <1>1, <2>1, WaitingType, Zenon
    <3>2. e = [type |-> "closed", id |-> c]
      BY <2>1, <3>1, EventIs
    <3>3. h = [type |-> "closed", id |-> c]
      BY <1>p, <1>1, <1>3, EventIs
    <3>4. h # e
      BY <1>1, <1>3, Zenon DEF Precedes
    <3> QED
      BY <3>2, <3>3, <3>4, Zenon
  <2>2. ASSUME NEW e \in Waiting', e.type = "opened", e.id = c PROVE FALSE
    BY <1>p, <1>1, <1>3, <2>2, Zenon DEF Precedes
  <2>3. /\ Pending("closed")' = Ids(Waiting', "closed")
        /\ Pending("opened")' = Ids(Waiting', "opened")
    BY PendingAre, Zenon
  <2> QED
    BY <2>1, <2>2, <2>3, Zenon DEF Ids
<1>10. Over' = Over \cup {c} /\ c \notin Over /\ Over' \subseteq Locals /\ Over \subseteq Locals
  <2>1. c \in Ended /\ Ended' = Ended
    BY <1>1, <1>6, Zenon DEF Ended
  <2> QED
    BY <1>4, <1>9, <2>1, Zenon DEF Over, Ended
<1>11. Tally' /\ closed' \in 0 .. Cardinality(Locals)
  <2>1. IsFiniteSet(Over) /\ IsFiniteSet(Over')
    BY <1>10, ViewAssumption, FS_Subset, Zenon
  <2>2. Cardinality(Over') = Cardinality(Over) + 1 /\ Cardinality(Over) \in Nat
    BY <1>10, <2>1, FS_AddElement, FS_CardinalityType, Zenon
  <2>3. Cardinality(Over') <= Cardinality(Locals) /\ Cardinality(Locals) \in Nat
    BY <1>10, ViewAssumption, FS_Subset, FS_CardinalityType, Zenon
  <2>4. closed = Cardinality(Over)
    BY <1>1, Zenon DEF IInv, Tally
  <2>5. closed' = Cardinality(Over') /\ closed' \in 0 .. Cardinality(Locals) /\ closed' <= Cardinality(Over')
    BY <1>5, <2>2, <2>3, <2>4, SMTT(30)
  <2> QED
    BY <2>5, Zenon DEF Tally
<1>12. total' \in Nat /\ total \in Nat
  BY <1>1, <1>5, <1>8, SMTT(30) DEF TypeOK
<1>13. TypeOK' /\ InTurn(chan') /\ Held' /\ Registry' /\ Announced'
  BY <1>1, <1>5, <1>7, <1>11, <1>12, ReceiveFrame, Zenon DEF TypeOK
<1>14. Totals'
  <2>1. bytes \in [Locals -> Nat]
    BY <1>1, ViewAssumption DEF TypeOK
  <2>2. Past \in [Locals -> Nat] /\ Past' \in [Locals -> Nat]
    BY <1>1, <2>1 DEF Past
  <2>3. /\ Past[c] = 0 /\ Past'[c] = bytes[c]
        /\ \A d \in Locals \ {c} : Past'[d] = Past[d]
    BY <1>1, <1>6, <1>10, Zenon DEF Past
  <2>4. SumFunction(Past') + Past[c] = SumFunction(Past) + Past'[c]
    BY <1>6, <2>2, <2>3, SumChange, ViewAssumption, SMTT(30)
  <2>5. SumFunction(Past) \in Nat /\ SumFunction(Past') \in Nat
    BY <2>2, SumType, ViewAssumption, Zenon
  <2>6. total <= SumFunction(Past)
    BY <1>1, Zenon DEF IInv, Totals
  <2>7. total' <= SumFunction(Past')
    BY <1>5, <1>6, <1>8, <1>12, <2>3, <2>4, <2>5, <2>6, SMTT(30)
  <2> QED
    BY <1>1, <2>7, Zenon DEF Totals
<1>15. Rows'
  <2> SUFFICES ASSUME NEW d \in Locals
               PROVE  /\ rows'[d] = {} \/ \E m \in 0 .. bytes[d] : rows'[d] = {m}
                      /\ (rows'[d] # {}) <=> HasRow(d)'
    BY <1>1, Zenon DEF Rows
  <2>1. CASE d = c
    <3>1. ~HasRow(c)'
      BY <1>1, <1>6, <1>9, Zenon DEF HasRow
    <3> QED
      BY <1>7, <2>1, <3>1, Zenon
  <2>2. CASE d # c
    <3>1. d \in Pending("closed")' <=> d \in Pending("closed")
      BY <1>4, <2>2, Zenon
    <3>2. HasRow(d)' <=> HasRow(d)
      BY <1>1, <1>4, <3>1, Zenon DEF HasRow
    <3> QED
      BY <1>1, <1>7, <2>2, <3>2, Zenon DEF IInv, Rows
  <2> QED
    BY <2>1, <2>2, Zenon
<1>16. Facts'
  <2> SUFFICES ASSUME NEW e \in Waiting' \cup held
               PROVE  /\ e.type = "opened" => OpenedFact(e)'
                      /\ e.type = "closed" => local'[e.id] = "closed"
                      /\ e.type = "bytes" => BytesFact(e)'
    BY <1>1, Zenon DEF Facts
  <2>0. e \in Events /\ e \in Waiting \cup held
    BY <1>1, WaitingType, Zenon
  <2>1. /\ e.type = "opened" => OpenedFact(e)
        /\ e.type = "closed" => local[e.id] = "closed"
        /\ e.type = "bytes" => BytesFact(e)
    BY <2>0, Zenon DEF IInv, Facts
  <2>2. ASSUME e.type = "opened" PROVE OpenedFact(e)'
    <3>1. e \in Waiting'
      <4>1. \A f \in held : f.type # "opened"
        <5>1. \A f \in held : f.type = "bytes"
          BY Zenon DEF IInv, Held
        <5> QED
          BY <5>1
      <4> QED
        BY <2>2, <4>1, Zenon
    <3>2. e.id \in Locals /\ e.id # c
      <4>1. e.id # c
        BY <1>p, <1>1, <1>3, <2>2, <3>1, Zenon DEF Precedes
      <4>2. e.id \in Locals
        BY <2>0, <2>2, EventIs
      <4> QED
        BY <4>1, <4>2
    <3>3. rows'[e.id] = rows[e.id] /\ (e.id \in Pending("closed") => e.id \in Pending("closed")')
      BY <1>4, <1>7, <3>2, Zenon
    <3> QED
      BY <1>1, <2>1, <2>2, <3>3, Zenon DEF OpenedFact
  <2>3. ASSUME e.type = "bytes" PROVE BytesFact(e)'
    <3>1. e.id \in Locals
      BY <2>0, <2>3, EventIs
    <3>2. \A m \in rows'[e.id] : m <= e.n
      BY <1>7, <2>1, <2>3, <3>1, Zenon DEF BytesFact
    <3> QED
      BY <1>1, <2>1, <2>3, <3>2, Zenon DEF BytesFact
  <2> QED
    BY <1>1, <2>1, <2>2, <2>3, Zenon
<1>17. Shown' = Shown
  <2>1. SumSet(rows'[c]) = 0 /\ 0 \in Nat
    BY <1>7, SumOfOne
  <2>2. /\ RowSum(rows) \in Nat /\ RowSum(rows') \in Nat
        /\ RowSum(rows') + SumSet(rows[c]) = RowSum(rows) + 0
    BY <1>6, <1>7, <2>1, RowChange, Zenon
  <2>3. total' + RowSum(rows') = total + RowSum(rows)
    BY <1>5, <1>8, <1>12, <2>2
  <2> QED
    BY <2>3, Zenon DEF Shown, RowSum
<1> QED
  BY <1>11, <1>13, <1>14, <1>15, <1>16, <1>17, Zenon DEF IInv

-----------------------------------------------------------------------------
(***************************************************************************)
(* The theorems.                                                           *)
(***************************************************************************)

\* At the start nothing was announced, relayed or shown.
LEMMA InitIInv == Init => IInv
<1> SUFFICES ASSUME Init PROVE IInv
  OBVIOUS
<1>1. TypeOK
  <2>1. << >> \in Seq(Events) /\ 0 \in 0 .. MaxBytes /\ 0 \in 0 .. Cardinality(Locals)
    BY ViewAssumption, FS_CardinalityType
  <2> QED
    BY <2>1, Zenon DEF Init, TypeOK
<1>2. Waiting = {} /\ \A type : Pending(type) = {}
  <2>1. Waiting = {}
    BY NoneIn, Zenon DEF Init, Waiting
  <2> QED
    BY <2>1, NoneIn, PendingAre, Zenon
<1>3. Registry
  BY DEF Init, Registry
<1>4. Held /\ Facts
  BY <1>2 DEF Init, Held, Facts
<1>5. InTurn(chan) /\ Announced
  BY DEF Init, InTurn, Announced, Begun
<1>6. Rows
  BY DEF Init, Rows, HasRow
<1>7. Over = {}
  BY <1>2 DEF Init, Over, Ended
<1>8. Tally
  BY <1>7, FS_EmptySet DEF Init, Tally
<1>9. Totals
  <2>1. Past \in [Locals -> Nat]
    BY <1>1, <1>7 DEF TypeOK, Past
  <2>2. SumFunction(Past) \in Nat
    BY <2>1, SumType, ViewAssumption, Zenon
  <2> QED
    BY <2>2 DEF Init, Totals
<1> QED
  BY <1>1, <1>3, <1>4, <1>5, <1>6, <1>8, <1>9, Zenon DEF IInv

\* Every step keeps the invariant.
LEMMA NextIInv == IInv /\ [Next]_vars => IInv'
<1> SUFFICES ASSUME IInv, [Next]_vars PROVE IInv'
  OBVIOUS
<1>1. CASE Run
  BY <1>1, AnnounceKeeps, RunKeeps, Zenon DEF Run
<1>2. CASE Interrupt
  BY <1>2, RunKeeps, Zenon
<1>3. ASSUME NEW c \in Locals, Local(c) PROVE IInv'
  BY <1>3, EnterKeeps, OpenedKeeps, RelayKeeps, CloseKeeps, Zenon DEF Local
<1>4. CASE TickReads \/ TickSends
  BY <1>4, TickReadsKeeps, TickSendsKeeps, Zenon
<1>5. CASE Receive
  <2>1. \/ Head(chan).type = "forwards" \/ Head(chan).type = "opened"
        \/ Head(chan).type = "bytes" \/ Head(chan).type = "closed"
    BY <1>5, Zenon DEF Receive, apply
  <2> QED
    BY <1>5, <2>1, ForwardsKeeps, OpenedReceived, BytesReceived, ClosedReceived, Zenon
<1>6. CASE TuiEnds \/ Quit
  BY <1>6, EndKeeps, Zenon
<1>7. CASE UNCHANGED vars
  <2>1. /\ UNCHANGED <<tui, localVars, modelVars>> /\ run' = run /\ chan' = chan /\ tick' = tick /\ held' = held
    BY <1>7, Zenon DEF vars
  <2>2. Waiting' = Waiting /\ \A type : Pending(type)' = Pending(type)
    BY <2>1, Zenon DEF Waiting, Pending
  <2>3. Registry' /\ Rows' /\ Tally' /\ Totals'
    BY <2>1, <2>2, ViewKept, Zenon
  <2>4. Facts'
    BY <2>1, <2>2, FactsKept, Zenon
  <2>5. TypeOK'
    BY <2>1 DEF IInv, TypeOK, localVars, modelVars
  <2>6. Held' /\ InTurn(chan') /\ Announced'
    BY <2>1, <2>2, Zenon DEF IInv, Held, Announced, Begun, localVars, modelVars
  <2> QED
    BY <2>3, <2>4, <2>5, <2>6, Zenon DEF IInv
<1> QED
  BY <1>1, <1>2, <1>3, <1>4, <1>5, <1>6, <1>7, Zenon DEF Next, Terminal

\* The invariant holds in every state.
THEOREM Invariant == Spec => []IInv
  BY InitIInv, NextIInv, PTL DEF Spec

\* Type correctness of run, the registry, the channel and the view model: the
\* count of closed connections never runs past the connections there are.
THEOREM Typed == Spec => []TypeOK
<1>1. IInv => TypeOK
  BY Zenon DEF IInv
<1> QED
  BY <1>1, Invariant, PTL

\* The view is the registry as of the events received: rows from the
\* announcement to the end of a connection, and every end counted once.
THEOREM Followed == Spec => []ViewFollowsRegistry
<1>1. IInv => ViewFollowsRegistry
  <2> SUFFICES ASSUME IInv, tui PROVE ViewFollowsRegistry
    BY Zenon DEF ViewFollowsRegistry
  <2>1. \A c \in Locals : (rows[c] # {}) <=> HasRow(c)
    BY Zenon DEF IInv, Rows
  <2>2. Pending("closed") \subseteq Ended
    <3>1. TypeOK
      BY Zenon DEF IInv
    <3>2. \A e \in Waiting : e.type = "closed" => e.id \in Locals /\ local[e.id] = "closed"
      <4>1. \A e \in Waiting : e \in Events
        BY <3>1, WaitingType, Zenon
      <4>2. \A e \in Waiting : e.type = "closed" => local[e.id] = "closed"
        BY Zenon DEF IInv, Facts
      <4>3. \A e \in Events : e.type = "closed" => e.id \in Locals
        BY EventIs
      <4> QED
        BY <4>1, <4>2, <4>3, Zenon
    <3>3. ASSUME NEW c \in Pending("closed") PROVE c \in Locals /\ local[c] = "closed"
      <4>1. PICK e \in Waiting : e.type = "closed" /\ e.id = c
        BY PendingOf, Zenon
      <4> QED
        BY <3>2, <4>1, Zenon
    <3> QED
      BY <3>3, Zenon DEF Ended
  <2>3. Ended \subseteq Locals /\ IsFiniteSet(Ended) /\ IsFiniteSet(Pending("closed"))
    <3>1. Ended \subseteq Locals
      BY Zenon DEF Ended
    <3>2. IsFiniteSet(Ended)
      BY <3>1, ViewAssumption, FS_Subset, Zenon
    <3> QED
      BY <2>2, <3>1, <3>2, FS_Subset, Zenon
  <2>4. Cardinality(Over) = Cardinality(Ended) - Cardinality(Pending("closed"))
    <3>1. Ended \cap Pending("closed") = Pending("closed")
      BY <2>2, Zenon
    <3>2. Cardinality(Over) = Cardinality(Ended) - Cardinality(Ended \cap Pending("closed"))
      BY <2>3, FS_Difference, Zenon DEF Over
    <3> QED
      BY <3>1, <3>2, Zenon
  <2>5. closed = Cardinality(Over)
    BY Zenon DEF IInv, Tally
  <2>6. Cardinality(Ended) \in Nat /\ Cardinality(Pending("closed")) \in Nat
    BY <2>3, FS_CardinalityType, Zenon
  <2>7. closed + Cardinality(Pending("closed")) = Cardinality(Ended)
    BY <2>4, <2>5, <2>6
  <2> QED
    BY <2>1, <2>7, Zenon DEF ViewFollowsRegistry, HasRow, Ended
<1> QED
  BY <1>1, Invariant, PTL

\* The byte total on the screen is never more than was relayed.
THEOREM Understated == Spec => []NeverOverstated
  BY Bounded, Invariant, PTL

\* A step never takes anything back from the byte total on the screen.
LEMMA StepGrows == IInv /\ [Next]_vars => [Shown' >= Shown]_vars
<1> SUFFICES ASSUME IInv, Next PROVE Shown' >= Shown
  OBVIOUS
<1>1. Shown \in Nat
  BY ShownType
<1>2. ASSUME UNCHANGED <<rows, total>> PROVE Shown' >= Shown
  <2>1. Shown' = Shown
    BY <1>2, Zenon DEF Shown
  <2> QED
    BY <1>1, <2>1
<1>3. CASE Receive
  <2>1. \/ Head(chan).type = "forwards" \/ Head(chan).type = "opened"
        \/ Head(chan).type = "bytes" \/ Head(chan).type = "closed"
    BY <1>3, Zenon DEF Receive, apply
  <2>2. Shown' = Shown \/ Shown' >= Shown
    BY <1>3, <2>1, ForwardsKeeps, OpenedReceived, BytesReceived, ClosedReceived, ZenonT(40)
  <2> QED
    BY <1>1, <2>2
<1>4. CASE ~Receive
  <2>1. UNCHANGED modelVars
    BY <1>4, Zenon DEF Next, Run, Announce, RunFails, RunStarts, RunWaits, Stop, Interrupt, Local, Create,
       Admit, Opened, Relay, Close, TickReads, TickSends, Terminal, TuiEnds, Quit
  <2> QED
    BY <1>2, <2>1, Zenon DEF modelVars
<1> QED
  BY <1>3, <1>4, Zenon

\* The byte total on the screen never goes back.
THEOREM Grown == Spec => TotalsOnlyGrow
  BY InitIInv, NextIInv, StepGrows, PTL DEF Spec, TotalsOnlyGrow
=============================================================================

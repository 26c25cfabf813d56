-------------------------- MODULE PairClientProofs --------------------------
(***************************************************************************)
(* What holds of PairClient for any number of processes that share a data  *)
(* directory, any servers, names and forwards: one identity, and, until    *)
(* two processes save at the same time, a file that parses, lists no       *)
(* server twice and keeps what was paired.                                 *)
(*                                                                         *)
(* The latter rests on what a process in its window can rely on while it  *)
(* is alone there: the temporary file is its own, is never the file that   *)
(* servers.toml names, and its list has everything servers.toml has.       *)
(***************************************************************************)
EXTENDS PairClient, FiniteSetTheorems, WellFoundedInduction, TLAPS

USE DEF keyVars, verdictVars, pairVars, diskVars, fileVars, Processes

Points ==
    {"code", "key", "keygen", "keywrite", "dial", "hello", "verdict", "load", "create", "write",
     "rename", "exited", "killed"}

Frames == {"wait", "deny", "confirm", "denied", "failed", "expired", "lost"}

\* The types the proofs need.
Types ==
    /\ pc \in [Processes -> Points]
    /\ exit \in [Processes -> SUBSET Nat]
    /\ server \in [Pairs -> Servers]
    /\ wire \in [Pairs -> Seq(Frames)]
    /\ registered \subseteq Pairs
    /\ keyfile \subseteq Pairs
    /\ own \in [Pairs -> SUBSET Pairs]
    /\ store \in [Processes -> Seq(Entry)]
    /\ file \subseteq Processes /\ tmp \subseteq Processes
    /\ open \in [Processes -> SUBSET Processes]
    /\ data \in [Processes -> SUBSET Seq(Item)]
    /\ clash \subseteq Processes

\* The key a process works with is the one in the key file, and the process
\* that has created the file is about to write its own.
KeyIsTheFile ==
    \A p \in Pairs :
        /\ own[p] # {} => own[p] = keyfile
        /\ pc[p] = "keywrite" => keyfile = {p}

\* Until two processes save at the same time, the list that is being saved
\* and the one in servers.toml have no name and no server twice.
ListsAreDistinct ==
    clash = {} =>
        /\ \A p \in Processes : InWindow(p) => Distinct(store[p])
        /\ \A s \in Parsed : Distinct(s)

\* The inode of a process that has not created it is nowhere, the temporary
\* file is another one than servers.toml, and a name has at most one inode
\* and an inode at most one text.
InodesAreFresh ==
    /\ \A p \in Processes :
          pc[p] \notin {"write", "rename", "exited", "killed"} => p \notin file \cup tmp
    /\ file \cap tmp = {}
    /\ \A i, j \in file : i = j
    /\ \A i, j \in tmp : i = j
    /\ \A i \in Processes : \A s, t \in data[i] : s = t

\* What the process in its window relies on.
WindowIsAlone == \A p, q \in Processes : InWindow(p) /\ InWindow(q) => p = q

OpenIsBlank ==
    \A p \in Processes : pc[p] = "write" =>
        tmp # {} /\ open[p] = tmp /\ \A i \in tmp : data[i] = {}

TmpIsWritten ==
    \A p \in Processes : pc[p] = "rename" =>
        tmp # {} /\ \A i \in tmp : data[i] = {store[p]}

\* Its list has the servers that servers.toml has, and, in `tmite pair`, with
\* the same forwards.
NothingIsDropped ==
    \A p \in Processes, s \in Parsed, d \in Servers : InWindow(p) /\ With(s, d) # {} =>
        /\ With(store[p], d) # {}
        /\ p \in Pairs => forwards_of(store[p], d) = forwards_of(s, d)

Undisturbed ==
    /\ WindowIsAlone
    /\ OpenIsBlank
    /\ TmpIsWritten
    /\ NothingIsDropped
    /\ Parsed # {}

Verdicts == {"confirm", "denied", "failed", "expired"}

\* What the daemon sends: after the first frame only verdicts, and a
\* confirmation only when the pairing has been recorded.
FramesInOrder ==
    \A p \in Pairs :
        /\ \A k \in DOMAIN wire[p] : wire[p][k] = "confirm" => p \in registered
        /\ pc[p] = "hello" =>
              wire[p] # << >> /\ \A k \in DOMAIN wire[p] : k > 1 => wire[p][k] \in Verdicts
        /\ pc[p] = "verdict" => \A k \in DOMAIN wire[p] : wire[p][k] \in Verdicts
        /\ pc[p] = "load" => p \in registered

\* A pairing that saves, or has saved, was recorded, and saves its server.
SavesItsServer ==
    \A p \in Pairs :
        /\ InWindow(p) \/ exit[p] = {0} => p \in registered
        /\ exit[p] = {0} => Gone(p)
        /\ InWindow(p) => With(store[p], server[p]) # {}

IInv ==
    /\ Types
    /\ KeyIsTheFile
    /\ ListsAreDistinct
    /\ InodesAreFresh
    /\ clash = {} => Undisturbed
    /\ FramesInOrder
    /\ SavesItsServer
    /\ PairedIsKept

-----------------------------------------------------------------------------
(***************************************************************************)
(* The list of servers.                                                    *)
(***************************************************************************)
\* A set of indices has a least one.
LEMMA LeastIndex ==
    ASSUME NEW n \in Nat, NEW T \in SUBSET (1 .. n), T # {}
    PROVE  \E i \in T : \A j \in T : i <= j
<1> DEFINE R == StrictSubsetOrdering(1 .. n)
           Ups == {1 .. i : i \in T}
<1>1. IsFiniteSet(1 .. n)
  BY FS_Interval
<1>2. IsWellFoundedOn(R, SUBSET (1 .. n))
  <2>1. ASSUME NEW S, IsFiniteSet(S)
        PROVE  IsWellFoundedOn(StrictSubsetOrdering(S), SUBSET S)
    <3>1. IsWellFoundedOn(StrictSubsetOrdering(S), FiniteSubsetsOf(S))
      BY FS_StrictSubsetOrderingWellFounded, Zenon
    <3>2. FiniteSubsetsOf(S) = SUBSET S
      BY <2>1, FS_FiniteSubsetsOfFinite, Zenon
    <3> QED
      BY <3>1, <3>2, Zenon
  <2> QED
    BY <1>1, <2>1, Zenon
<1>3. Ups \subseteq SUBSET (1 .. n) /\ Ups # {}
  <2>1. \A i \in T : 1 .. i \in SUBSET (1 .. n)
    BY SMTT(30)
  <2> QED
    BY <2>1, Zenon
<1>4. \E u \in Ups : \A v \in Ups : ~(<<v, u>> \in R)
  <2> HIDE DEF R, Ups
  <2> QED
    BY <1>2, <1>3, WFMin, ZenonT(40)
<1>5. PICK i \in T : \A j \in T : ~(<<1 .. j, 1 .. i>> \in R)
  <2> HIDE DEF R
  <2> QED
    BY <1>4, Zenon
<1>6. ASSUME NEW j \in T, j < i
      PROVE  FALSE
  <2>1. 1 .. j \subseteq 1 .. i /\ i \in 1 .. i /\ i \notin 1 .. j
    BY <1>6
  <2>2. 1 .. j \in SUBSET (1 .. n) /\ 1 .. i \in SUBSET (1 .. n)
    BY SMTT(30)
  <2>3. <<1 .. j, 1 .. i>> \in R
    BY <2>1, <2>2, Zenon DEF StrictSubsetOrdering
  <2> QED
    BY <1>5, <2>3
<1> QED
  BY <1>6

\* position and find return an entry that is looked for, if there is one.
LEMMA FirstIsFound ==
    ASSUME NEW s \in Seq(Entry), NEW T \in SUBSET (DOMAIN s), T # {}
    PROVE  (CHOOSE i \in T : \A j \in T : i <= j) \in T
<1>1. Len(s) \in Nat /\ DOMAIN s = 1 .. Len(s)
  OBVIOUS
<1>2. \E i \in T : \A j \in T : i <= j
  BY <1>1, LeastIndex, ZenonT(40)
<1> QED
  BY <1>2, Zenon

\* What get_by_node_id finds are default forwards.
LEMMA ForwardsOfType ==
    ASSUME NEW s \in Seq(Entry), NEW d
    PROVE  forwards_of(s, d) \in Defaults
<1>1. CASE With(s, d) = {}
  BY <1>1, Zenon DEF forwards_of, Defaults
<1>2. CASE With(s, d) # {}
  <2>1. With(s, d) \in SUBSET (DOMAIN s)
    BY Zenon DEF With
  <2>2. PICK i \in DOMAIN s : i = CHOOSE k \in With(s, d) : \A j \in With(s, d) : k <= j
    BY <1>2, <2>1, FirstIsFound, Zenon
  <2>3. s[i] \in Entry
    BY <2>2
  <2>4. s[i].forwards \in Defaults
    BY <2>3, Zenon DEF Entry
  <2> QED
    BY <1>2, <2>2, <2>4, Zenon DEF forwards_of
<1> QED
  BY <1>1, <1>2, Zenon

\* upsert, of any list, returns a list that has the server of the entry.
LEMMA UpsertType ==
    ASSUME NEW s \in Seq(Entry), NEW e \in Entry
    PROVE  upsert(s, e) \in Seq(Entry) /\ With(upsert(s, e), e.node) # {}
<1>1. CASE With(s, e.node) = {}
  <2>1. upsert(s, e) = Append(s, e)
    BY <1>1, Zenon DEF upsert
  <2>2. Append(s, e) \in Seq(Entry) /\ Len(s) + 1 \in DOMAIN Append(s, e)
        /\ Append(s, e)[Len(s) + 1] = e
    BY SMTT(30)
  <2> QED
    BY <2>1, <2>2, Zenon DEF With
<1>2. CASE With(s, e.node) # {}
  <2>1. With(s, e.node) \in SUBSET (DOMAIN s)
    BY Zenon DEF With
  <2>2. PICK i \in DOMAIN s :
           i = CHOOSE k \in With(s, e.node) : \A j \in With(s, e.node) : k <= j
    BY <1>2, <2>1, FirstIsFound, Zenon
  <2>3. upsert(s, e) = [s EXCEPT ![i] = e]
    BY <1>2, <2>2, Zenon DEF upsert
  <2>4. [s EXCEPT ![i] = e] \in Seq(Entry) /\ i \in DOMAIN [s EXCEPT ![i] = e]
        /\ [s EXCEPT ![i] = e][i] = e
    BY <2>2, SMTT(30)
  <2> QED
    BY <2>3, <2>4, Zenon DEF With
<1> QED
  BY <1>1, <1>2, Zenon

\* An entry keeps its type when its forwards are replaced.
LEMMA ForwardsType ==
    ASSUME NEW s \in Seq(Entry), NEW i \in DOMAIN s, NEW f \in Defaults
    PROVE  [s EXCEPT ![i].forwards = f] \in Seq(Entry)
<1>1. s[i] \in Entry
  OBVIOUS
<1>2. [s[i] EXCEPT !.forwards = f] \in Entry
  BY <1>1 DEF Entry
<1> QED
  BY <1>2

\* set_forwards, of any list that has the name, returns a list.
LEMMA SetForwardsType ==
    ASSUME NEW s \in Seq(Entry), NEW n, NEW f \in Defaults, Named(s, n) # {}
    PROVE  set_forwards(s, n, f) \in Seq(Entry)
<1>1. Named(s, n) \in SUBSET (DOMAIN s)
  BY Zenon DEF Named
<1>2. PICK i \in DOMAIN s : i = CHOOSE k \in Named(s, n) : \A j \in Named(s, n) : k <= j
  BY <1>1, FirstIsFound, Zenon
<1>3. set_forwards(s, n, f) = [s EXCEPT ![i].forwards = f]
  BY <1>2, Zenon DEF set_forwards
<1> QED
  BY <1>3, ForwardsType

\* A list written over a text leaves a text.
LEMMA OverType ==
    ASSUME NEW s \in Seq(Entry), NEW t \in Seq(Item), NEW text \in Over(s, t)
    PROVE  text \in Seq(Item)
<1> DEFINE n == Len(s)
<1>1. s \in Seq(Item) /\ Entry \subseteq Item
  BY DEF Item
<1>2. \A k \in 1 .. Len(t) + 1 : Rest(t, k) \in Seq(Item)
  BY SMTT(30) DEF Rest
<1>3. \A a, b \in Seq(Item) : a \o b \in Seq(Item)
  BY SMTT(30)
<1>4. ASSUME NEW k \in 2 .. Len(t) + 1, text = s \o Rest(t, k)
      PROVE  text \in Seq(Item)
  <2>1. k \in 1 .. Len(t) + 1
    BY SMTT(30)
  <2> QED
    BY <1>1, <1>2, <1>3, <1>4, <2>1, Zenon
<1>5. \A k \in DOMAIN t : k + 1 \in 1 .. Len(t) + 1 /\ t[k] \in Item
  BY SMTT(30)
<1>6. \A k \in DOMAIN t : t[k].forwards \in Defaults
  BY <1>5, Zenon DEF Item, Entry
<1>7. ASSUME NEW k \in DOMAIN t,
             text = s \o <<[forwards |-> t[k].forwards]>> \o Rest(t, k + 1)
      PROVE  text \in Seq(Item)
  <2>1. [forwards |-> t[k].forwards] \in Item
    BY <1>6, Zenon DEF Item
  <2>2. <<[forwards |-> t[k].forwards]>> \in Seq(Item)
    BY <2>1, SMTT(30)
  <2> QED
    BY <1>1, <1>2, <1>3, <1>5, <1>7, <2>2, Zenon
<1>8. ASSUME NEW k \in DOMAIN t,
             text = [s EXCEPT ![n].forwards = t[k].forwards] \o Rest(t, k + 1)
      PROVE  text \in Seq(Item)
  <2> DEFINE u == [s EXCEPT ![n].forwards = t[k].forwards]
  <2>2. u \in Seq(Entry)
    <3>1. CASE n \in DOMAIN s
      BY <1>6, <3>1, ForwardsType, Zenon
    <3>2. CASE n \notin DOMAIN s
      <4>1. s \in [1 .. Len(s) -> Entry] /\ Len(s) \in Nat /\ DOMAIN s = 1 .. Len(s)
        BY SMTT(30)
      <4>2. u = s
        BY <3>2, <4>1
      <4> QED
        BY <4>2, ZenonT(40)
    <3> QED
      BY <3>1, <3>2, Zenon
  <2> HIDE DEF u
  <2>3. u \in Seq(Item)
    BY <1>1, <2>2, SMTT(30)
  <2> QED
    BY <1>2, <1>3, <1>5, <1>8, <2>3, Zenon DEF u
<1> QED
  BY <1>4, <1>7, <1>8, Zenon DEF Over

\* In a list without duplicates get_by_node_id finds the server's entry.
LEMMA ForwardsOfEntry ==
    ASSUME NEW s \in Seq(Entry), Distinct(s), NEW i \in DOMAIN s
    PROVE  forwards_of(s, s[i].node) = s[i].forwards
<1> DEFINE d == s[i].node
<1>1. With(s, d) = {i}
  BY DEF With, Distinct
<1>2. (CHOOSE k \in With(s, d) : \A j \in With(s, d) : k <= j) = i
  <2>1. i <= i
    OBVIOUS
  <2> QED
    BY <1>1, <2>1
<1> QED
  BY <1>1, <1>2 DEF forwards_of

\* upsert of a free name keeps the list without duplicates, keeps every
\* server, with its forwards if the entry has those of the one it replaces,
\* and has the new one.
LEMMA UpsertKeeps ==
    ASSUME NEW s \in Seq(Entry), Distinct(s), NEW n \in Names, NEW d \in Servers,
           ~name_taken(s, n, d),
           NEW e, e = [name |-> n, node |-> d, forwards |-> forwards_of(s, d)],
           e \in Entry
    PROVE  /\ upsert(s, e) \in Seq(Entry)
           /\ Distinct(upsert(s, e))
           /\ With(upsert(s, e), d) # {}
           /\ \A c \in Servers : With(s, c) # {} =>
                 /\ With(upsert(s, e), c) # {}
                 /\ forwards_of(upsert(s, e), c) = forwards_of(s, c)
<1> DEFINE t == upsert(s, e)
<1>1. CASE With(s, d) = {}
  <2>1. t = Append(s, e)
    BY <1>1, Zenon DEF upsert
  <2>2. t \in Seq(Entry) /\ Len(t) = Len(s) + 1 /\ t[Len(s) + 1] = e
        /\ \A i \in DOMAIN s : i \in DOMAIN t /\ t[i] = s[i]
    BY <2>1, SMTT(30)
  <2>3. \A i \in DOMAIN s : s[i].name # n /\ s[i].node # d
    BY <1>1, Zenon DEF With, name_taken, Named
  <2>4. Distinct(t)
    <3> SUFFICES ASSUME NEW i \in DOMAIN t, NEW j \in DOMAIN t,
                        t[i].name = t[j].name \/ t[i].node = t[j].node
                 PROVE  i = j
      BY Zenon DEF Distinct
    <3>1. \A k \in DOMAIN t : k \in DOMAIN s \/ k = Len(s) + 1
      BY <2>2
    <3> QED
      BY <2>2, <2>3, <3>1, SMTT(30) DEF Distinct
  <2>5. Len(s) + 1 \in With(t, d)
    BY <2>2 DEF With
  <2>6. ASSUME NEW c \in Servers, With(s, c) # {}
        PROVE  With(t, c) # {} /\ forwards_of(t, c) = forwards_of(s, c)
    <3>1. PICK i \in DOMAIN s : s[i].node = c
      BY <2>6, Zenon DEF With
    <3>2. i \in With(t, c)
      BY <2>2, <3>1, Zenon DEF With
    <3>3. forwards_of(t, c) = t[i].forwards /\ forwards_of(s, c) = s[i].forwards
      BY <2>2, <2>4, <3>1, ForwardsOfEntry
    <3> QED
      BY <2>2, <3>1, <3>2, <3>3, Zenon
  <2> QED
    BY <2>2, <2>4, <2>5, <2>6, Zenon
<1>2. CASE With(s, d) # {}
  <2>1. PICK i \in DOMAIN s : s[i].node = d
    BY <1>2 DEF With
  <2>2. With(s, d) = {i}
    BY <2>1, Zenon DEF With, Distinct
  <2>3. (CHOOSE k \in With(s, d) : \A j \in With(s, d) : k <= j) = i
    <3>1. i <= i
      BY <2>1
    <3> QED
      BY <2>2, <3>1, Zenon
  <2>4. t = [s EXCEPT ![i] = e]
    BY <1>2, <2>3, Zenon DEF upsert
  <2>5. t \in Seq(Entry) /\ DOMAIN t = DOMAIN s /\ t[i] = e
        /\ \A j \in DOMAIN s : j # i => t[j] = s[j]
    BY <2>1, <2>4
  <2>6. \A j \in DOMAIN s : t[j].node = s[j].node
    BY <2>1, <2>5
  <2>7. \A j \in DOMAIN s : j # i => s[j].name # n
    BY <2>1, Zenon DEF Distinct, name_taken, Named
  <2>8. Distinct(t)
    BY <2>1, <2>5, <2>6, <2>7 DEF Distinct
  <2>9. e.forwards = s[i].forwards
    BY <2>1, ForwardsOfEntry, Zenon
  <2>10. \A j \in DOMAIN s : t[j].forwards = s[j].forwards
    BY <2>5, <2>9, Zenon
  <2>11. ASSUME NEW c \in Servers, With(s, c) # {}
         PROVE  With(t, c) # {} /\ forwards_of(t, c) = forwards_of(s, c)
    <3>1. PICK j \in DOMAIN s : s[j].node = c
      BY <2>11, Zenon DEF With
    <3>2. j \in With(t, c)
      BY <2>5, <2>6, <3>1, Zenon DEF With
    <3>3. forwards_of(t, c) = t[j].forwards /\ forwards_of(s, c) = s[j].forwards
      BY <2>5, <2>6, <2>8, <3>1, ForwardsOfEntry, ZenonT(40)
    <3> QED
      BY <2>10, <3>2, <3>3, Zenon
  <2>12. i \in With(t, d)
    BY <2>1, <2>5, <2>6, Zenon DEF With
  <2> QED
    BY <2>5, <2>8, <2>11, <2>12, Zenon
<1> QED
  BY <1>1, <1>2, Zenon

\* set_forwards changes forwards only.
LEMMA SetForwardsKeeps ==
    ASSUME NEW s \in Seq(Entry), Distinct(s), NEW n \in Names, NEW f \in Defaults,
           Named(s, n) # {}
    PROVE  /\ set_forwards(s, n, f) \in Seq(Entry)
           /\ Distinct(set_forwards(s, n, f))
           /\ \A c \in Servers : With(s, c) # {} => With(set_forwards(s, n, f), c) # {}
<1> DEFINE t == set_forwards(s, n, f)
<1>1. PICK i \in DOMAIN s : s[i].name = n
  BY DEF Named
<1>2. Named(s, n) = {i}
  BY <1>1 DEF Named, Distinct
<1>3. (CHOOSE k \in Named(s, n) : \A j \in Named(s, n) : k <= j) = i
  <2>1. i <= i
    BY <1>1
  <2> QED
    BY <1>2, <2>1, Zenon
<1>4. t = [s EXCEPT ![i].forwards = f]
  BY <1>3, Zenon DEF set_forwards
<1>5. /\ t \in Seq(Entry) /\ DOMAIN t = DOMAIN s
      /\ \A j \in DOMAIN s : t[j].name = s[j].name /\ t[j].node = s[j].node
  <2>1. ASSUME NEW x \in Entry
        PROVE  /\ [x EXCEPT !.forwards = f] \in Entry
               /\ [x EXCEPT !.forwards = f].name = x.name
               /\ [x EXCEPT !.forwards = f].node = x.node
    BY DEF Entry
  <2>2. s[i] \in Entry
    BY <1>1
  <2> QED
    BY <1>1, <1>4, <2>1, <2>2
<1>6. Distinct(t)
  BY <1>5 DEF Distinct
<1> QED
  BY <1>5, <1>6 DEF With

\* What load returns is a list.
LEMMA ParsedIsList == \A s \in Parsed : s \in Seq(Entry)
<1>1. << >> \in Seq(Entry)
  OBVIOUS
<1> QED
  BY <1>1, Zenon DEF Parsed

-----------------------------------------------------------------------------
(***************************************************************************)
(* Steps that leave servers.toml, its temporary file and the lists alone.  *)
(***************************************************************************)
\* p stays where it is, goes on before its window, or ends without success.
Quiet(p) ==
    /\ \/ pc' = pc
       \/ /\ \E x \in {"key", "keygen", "keywrite", "dial", "hello", "verdict", "load"} :
                pc' = [pc EXCEPT ![p] = x]
          /\ pc[p] \notin {"write", "rename", "exited", "killed"}
       \/ \E x \in {"exited", "killed"} : pc' = [pc EXCEPT ![p] = x]
    /\ exit' = exit \/ \E c \in Nat \ {0} : exit' = [exit EXCEPT ![p] = {c}]
    /\ registered \subseteq registered' /\ registered' \subseteq Pairs
    /\ UNCHANGED <<server, fileVars>>

\* Such a step keeps everything said of the files.
LEMMA QuietKeepsFiles ==
    ASSUME IInv, NEW p \in Processes, Quiet(p),
           wire' \in [Pairs -> Seq(Frames)], keyfile' \subseteq Pairs,
           own' \in [Pairs -> SUBSET Pairs]
    PROVE  /\ Types'
           /\ ListsAreDistinct'
           /\ InodesAreFresh'
           /\ (clash = {} => Undisturbed)'
           /\ SavesItsServer'
           /\ PairedIsKept'
<1>1. Types /\ ListsAreDistinct /\ InodesAreFresh /\ SavesItsServer /\ PairedIsKept
      /\ (clash = {} => Undisturbed)
  BY DEF IInv
<1>2. /\ server' = server /\ store' = store /\ file' = file /\ tmp' = tmp /\ open' = open
      /\ data' = data /\ clash' = clash
  BY Zenon DEF Quiet
<1>3. /\ pc' \in [Processes -> Points]
      /\ \A q \in Processes :
            /\ pc'[q] \in {"create", "write", "rename"} => pc'[q] = pc[q]
            /\ pc'[q] \notin {"write", "rename", "exited", "killed"} =>
                  pc[q] \notin {"write", "rename", "exited", "killed"}
  <2>0. pc \in [Processes -> Points]
    BY <1>1 DEF Types
  <2>1. CASE pc' = pc
    BY <2>0, <2>1
  <2>2. ASSUME NEW x \in {"key", "keygen", "keywrite", "dial", "hello", "verdict", "load"},
               pc' = [pc EXCEPT ![p] = x],
               pc[p] \notin {"write", "rename", "exited", "killed"}
        PROVE  <1>3!1 /\ <1>3!2
    BY <2>0, <2>2 DEF Points
  <2>3. ASSUME NEW x \in {"exited", "killed"}, pc' = [pc EXCEPT ![p] = x]
        PROVE  <1>3!1 /\ <1>3!2
    BY <2>0, <2>3 DEF Points
  <2> QED
    BY <2>1, <2>2, <2>3, Zenon DEF Quiet
<1>4. /\ exit' \in [Processes -> SUBSET Nat]
      /\ \A q \in Processes : exit'[q] = {0} => exit[q] = {0}
  <2>1. CASE exit' = exit
    BY <1>1, <2>1 DEF Types
  <2>2. ASSUME NEW c \in Nat \ {0}, exit' = [exit EXCEPT ![p] = {c}]
        PROVE  <1>4!1 /\ <1>4!2
    <3>1. {c} # {0} /\ {c} \in SUBSET Nat
      BY Zenon
    <3> QED
      BY <1>1, <2>2, <3>1, Zenon DEF Types
  <2> QED
    BY <2>1, <2>2, Zenon DEF Quiet
<1>5. registered \subseteq registered' /\ registered' \subseteq Pairs
  BY Zenon DEF Quiet
<1>6. \A q \in Processes : InWindow(q)' => InWindow(q)
  BY <1>3, Zenon DEF InWindow
<1>7. Parsed' = Parsed
  BY <1>2, Zenon DEF Parsed, Disk!Text
<1>8. Types'
  BY <1>1, <1>2, <1>3, <1>4, <1>5, Zenon DEF Types
<1>9. ListsAreDistinct'
  BY <1>1, <1>2, <1>6, <1>7, Zenon DEF ListsAreDistinct
<1>10. InodesAreFresh'
  BY <1>1, <1>2, <1>3 DEF InodesAreFresh
<1>11. (clash = {} => Undisturbed)'
  <2> SUFFICES ASSUME clash' = {}
               PROVE  Undisturbed'
    OBVIOUS
  <2>1. Undisturbed
    BY <1>1, <1>2
  <2>2. WindowIsAlone'
    BY <2>1, <1>6, Zenon DEF Undisturbed, WindowIsAlone
  <2>3. OpenIsBlank'
    BY <2>1, <1>2, <1>3, Zenon DEF Undisturbed, OpenIsBlank
  <2>4. TmpIsWritten'
    BY <2>1, <1>2, <1>3, SMTT(30) DEF Undisturbed, TmpIsWritten
  <2>5. NothingIsDropped'
    BY <2>1, <1>2, <1>6, <1>7, SMTT(30) DEF Undisturbed, NothingIsDropped
  <2> QED
    BY <2>1, <2>2, <2>3, <2>4, <2>5, <1>7, SMTT(30) DEF Undisturbed
<1>12. SavesItsServer'
  <2>1. \A q \in Processes : Gone(q) => Gone(q)'
    BY <1>3 DEF Gone
  <2> QED
    BY <1>1, <1>2, <1>4, <1>5, <1>6, <2>1, SMTT(30) DEF SavesItsServer
<1>13. PairedIsKept'
  BY <1>1, <1>2, <1>4, <1>5, <1>7, Zenon DEF PairedIsKept
<1> QED
  BY <1>8, <1>9, <1>10, <1>11, <1>12, <1>13, Zenon

\* A step that, besides, leaves the key file and the frames alone.
Silent(p) ==
    /\ \/ pc' = pc
       \/ pc[p] = "code" /\ pc' = [pc EXCEPT ![p] = "key"]
       \/ \E x \in {"exited", "killed"} : pc' = [pc EXCEPT ![p] = x]
    /\ exit' = exit \/ \E c \in Nat \ {0} : exit' = [exit EXCEPT ![p] = {c}]
    /\ UNCHANGED <<server, wire, registered, keyfile, own, fileVars>>

\* Such a step keeps the invariant.
LEMMA SilentKeeps ==
    ASSUME IInv, NEW p \in Processes, Silent(p)
    PROVE  IInv'
<1>1. Types /\ KeyIsTheFile /\ FramesInOrder
  BY DEF IInv
<1>2. Quiet(p)
  BY <1>1, Zenon DEF Silent, Quiet, Types
<1>3. wire' = wire /\ registered' = registered /\ keyfile' = keyfile /\ own' = own
  BY Zenon DEF Silent
<1>4. \A q \in Processes :
         pc'[q] \in {"keywrite", "hello", "verdict", "load"} => pc'[q] = pc[q]
  <2>0. pc \in [Processes -> Points]
    BY <1>1 DEF Types
  <2>1. ASSUME NEW x \in {"key", "exited", "killed"}, pc' = [pc EXCEPT ![p] = x]
        PROVE  <1>4!:
    BY <2>0, <2>1, Zenon
  <2> QED
    BY <2>0, <2>1, Zenon DEF Silent
<1>5. KeyIsTheFile'
  BY <1>1, <1>3, <1>4, Zenon DEF KeyIsTheFile
<1>6. FramesInOrder'
  BY <1>1, <1>3, <1>4 DEF FramesInOrder
<1>7. wire' \in [Pairs -> Seq(Frames)] /\ keyfile' \subseteq Pairs
      /\ own' \in [Pairs -> SUBSET Pairs]
  BY <1>1, <1>3 DEF Types
<1> QED
  BY <1>2, <1>5, <1>6, <1>7, QuietKeepsFiles, SMTT(30) DEF IInv

\* The steps that are silent: codes, failures, the passing of time and kills.
LEMMA SilentSteps ==
    ASSUME NEW p,
           \/ CodeOk(p) \/ CodeInvalid(p) \/ DialFails(p) \/ NoWait(p) \/ VerdictTimeout(p)
           \/ ClientLost(p) \/ TimePasses(p) \/ LoadFails(p) \/ SaveFails(p) \/ Kill(p)
    PROVE  Silent(p)
<1> DEFINE Others == UNCHANGED <<server, wire, registered, keyfile, own, fileVars>>
<1>1. ASSUME NEW c \in Nat \ {0}, Exit(p, c), Others
      PROVE  Silent(p)
  BY <1>1, Zenon DEF Exit, Goto, Silent
<1>2. CASE CodeOk(p)
  BY <1>2, Zenon DEF CodeOk, Goto, Silent
<1>3. CASE CodeInvalid(p)
  BY <1>3, <1>1 DEF CodeInvalid, Silent
<1>4. CASE DialFails(p)
  BY <1>4, <1>1 DEF DialFails
<1>5. CASE NoWait(p)
  <2>1. 1 \in Nat \ {0}
    BY SMTT(30)
  <2> QED
    BY <1>5, <1>1, <2>1, Zenon DEF NoWait
<1>6. CASE VerdictTimeout(p)
  <2>1. PICK c \in {1, 4} : Exit(p, c)
    BY <1>6, Zenon DEF VerdictTimeout
  <2>2. Others
    BY <1>6, Zenon DEF VerdictTimeout, pairVars
  <2>3. c \in Nat \ {0}
    OBVIOUS
  <2> QED
    BY <1>1, <2>1, <2>2, <2>3, Zenon
<1>7. CASE ClientLost(p)
  BY <1>7, Zenon DEF ClientLost, Silent
<1>8. CASE TimePasses(p)
  BY <1>8, ZenonT(40) DEF TimePasses, Silent
<1>9. CASE LoadFails(p)
  BY <1>9, <1>1 DEF LoadFails
<1>10. CASE SaveFails(p)
  BY <1>10, <1>1 DEF SaveFails
<1>11. CASE Kill(p)
  BY <1>11, Zenon DEF Kill, Goto, Silent
<1> QED
  BY <1>2, <1>3, <1>4, <1>5, <1>6, <1>7, <1>8, <1>9, <1>10, <1>11, ZenonT(40)

-----------------------------------------------------------------------------
(***************************************************************************)
(* The key file, and the frames of the verdict.                            *)
(***************************************************************************)
\* A step that is quiet, and keeps what is said of keys and frames, keeps the
\* invariant.
LEMMA QuietKeeps ==
    ASSUME IInv, NEW p \in Processes, Quiet(p),
           wire' \in [Pairs -> Seq(Frames)], keyfile' \subseteq Pairs,
           own' \in [Pairs -> SUBSET Pairs], KeyIsTheFile', FramesInOrder'
    PROVE  IInv'
  BY QuietKeepsFiles, Zenon DEF IInv

\* A process that goes on before its window, or fails there, is quiet.
LEMMA QuietGoto ==
    ASSUME Types, NEW p \in Pairs,
           NEW x \in {"keygen", "keywrite", "dial", "hello", "verdict", "load", "exited"},
           pc' = [pc EXCEPT ![p] = x],
           pc[p] \in {"key", "keygen", "keywrite", "dial", "hello", "verdict"},
           exit' = exit \/ \E c \in Nat \ {0} : exit' = [exit EXCEPT ![p] = {c}],
           registered' = registered, UNCHANGED <<server, fileVars>>
    PROVE  Quiet(p)
<1>1. \/ /\ \E y \in {"key", "keygen", "keywrite", "dial", "hello", "verdict", "load"} :
               pc' = [pc EXCEPT ![p] = y]
         /\ pc[p] \notin {"write", "rename", "exited", "killed"}
      \/ \E y \in {"exited", "killed"} : pc' = [pc EXCEPT ![p] = y]
  BY Zenon
<1>2. registered \subseteq registered' /\ registered' \subseteq Pairs
  BY Zenon DEF Types
<1> QED
  BY <1>1, <1>2, Zenon DEF Quiet

\* Steps that go somewhere else than to the reading of frames keep what is
\* said of frames.
LEMMA FramesKept ==
    ASSUME FramesInOrder, Types, NEW p \in Pairs,
           NEW x \in {"keygen", "keywrite", "dial", "exited"}, pc' = [pc EXCEPT ![p] = x],
           wire' = wire, registered' = registered
    PROVE  FramesInOrder'
<1>1. \A q \in Pairs : pc'[q] \in {"hello", "verdict", "load"} => pc'[q] = pc[q]
  BY Zenon DEF Types
<1> QED
  BY <1>1 DEF FramesInOrder

\* Likewise for keys.
LEMMA KeysKept ==
    ASSUME KeyIsTheFile, Types, NEW p \in Pairs, NEW x \in {"hello", "verdict", "load", "exited"},
           pc' = pc \/ pc' = [pc EXCEPT ![p] = x],
           keyfile' = keyfile, own' = own
    PROVE  KeyIsTheFile'
<1>1. \A q \in Pairs : pc'[q] = "keywrite" => pc[q] = "keywrite"
  BY DEF Types
<1> QED
  BY <1>1, Zenon DEF KeyIsTheFile

\* load_or_create_keypair keeps the invariant: create_new lets one process
\* through, and nobody has a key before.
LEMMA KeySteps ==
    ASSUME IInv, NEW p \in Pairs, KeyLoad(p) \/ KeyCreate(p) \/ KeyWrite(p)
    PROVE  IInv'
<1>0. Types /\ KeyIsTheFile /\ FramesInOrder /\ p \in Processes
  BY DEF IInv
<1>1. PICK x \in {"keygen", "keywrite", "dial", "exited"} : pc' = [pc EXCEPT ![p] = x]
  BY Zenon DEF KeyLoad, KeyCreate, KeyWrite, Exit, Goto
<1>2. /\ wire' = wire /\ registered' = registered
      /\ UNCHANGED <<server, fileVars>>
      /\ pc[p] \in {"key", "keygen", "keywrite"}
      /\ exit' = exit \/ exit' = [exit EXCEPT ![p] = {1}]
  <2>1. CASE KeyLoad(p)
    BY <2>1, Zenon DEF KeyLoad, Exit
  <2>2. CASE KeyCreate(p)
    BY <2>2, Zenon DEF KeyCreate, Exit
  <2>3. CASE KeyWrite(p)
    BY <2>3 DEF KeyWrite
  <2> QED
    BY <2>1, <2>2, <2>3, Zenon
<1>3. Quiet(p)
  <2>1. exit' = exit \/ \E c \in Nat \ {0} : exit' = [exit EXCEPT ![p] = {c}]
    BY <1>2
  <2>2. pc[p] \in {"key", "keygen", "keywrite", "dial", "hello", "verdict"}
    BY <1>2
  <2> QED
    BY <1>0, <1>1, <1>2, <2>1, <2>2, QuietGoto, Zenon
<1>4. FramesInOrder'
  BY <1>0, <1>1, <1>2, FramesKept, Zenon
<1>5. wire' \in [Pairs -> Seq(Frames)]
  BY <1>0, <1>2 DEF Types
<1>6. pc'[p] = x /\ \A q \in Pairs : q # p => pc'[q] = pc[q]
  BY <1>0, <1>1 DEF Types
<1>7. keyfile' \subseteq Pairs /\ own' \in [Pairs -> SUBSET Pairs] /\ KeyIsTheFile'
  <2>1. CASE KeyLoad(p)
    <3>1. keyfile' = keyfile /\ x # "keywrite"
      BY <2>1, <1>0, <1>6 DEF KeyLoad, Exit, Goto, Types
    <3>2. own' = own \/ own' = [own EXCEPT ![p] = keyfile]
      BY <2>1, Zenon DEF KeyLoad
    <3> QED
      BY <1>0, <1>6, <3>1, <3>2, ZenonT(40) DEF Types, KeyIsTheFile
  <2>2. CASE KeyCreate(p) /\ keyfile = {}
    <3>1. keyfile' = {p} /\ own' = own
      BY <2>2 DEF KeyCreate
    <3>2. \A q \in Pairs : own[q] = {} /\ pc[q] # "keywrite"
      BY <1>0, <2>2 DEF KeyIsTheFile
    <3> QED
      BY <1>0, <1>6, <3>1, <3>2, SMTT(30) DEF Types, KeyIsTheFile
  <2>3. CASE KeyCreate(p) /\ keyfile # {}
    <3>1. keyfile' = keyfile /\ own' = own /\ x = "exited"
      BY <2>3, <1>0, <1>6 DEF KeyCreate, Exit, Goto, Types
    <3> QED
      BY <1>0, <1>6, <3>1, ZenonT(40) DEF Types, KeyIsTheFile
  <2>4. CASE KeyWrite(p)
    <3>1. keyfile' = keyfile /\ own' = [own EXCEPT ![p] = {p}] /\ x = "dial" /\ keyfile = {p}
      BY <2>4, <1>0, <1>6 DEF KeyWrite, Goto, Types, KeyIsTheFile
    <3> QED
      BY <1>0, <1>6, <3>1, Zenon DEF Types, KeyIsTheFile
  <2> QED
    BY <2>1, <2>2, <2>3, <2>4
<1> QED
  BY <1>0, <1>3, <1>4, <1>5, <1>7, QuietKeeps, Zenon

\* The client's reading of frames keeps the invariant: what follows the first
\* frame is a verdict, and a confirmation leads to the saving.
LEMMA ReadSteps ==
    ASSUME IInv, NEW p \in Pairs, Hello(p) \/ ReadWait(p) \/ ReadVerdict(p) \/ VerdictLost(p)
    PROVE  IInv'
<1>0. Types /\ KeyIsTheFile /\ FramesInOrder /\ p \in Processes /\ wire[p] \in Seq(Frames)
  BY Zenon DEF IInv, Types
<1>1. /\ registered' = registered /\ keyfile' = keyfile /\ own' = own
      /\ UNCHANGED <<server, fileVars>>
      /\ pc[p] \in {"dial", "hello", "verdict"}
  <2>1. CASE Hello(p)
    BY <2>1, Zenon DEF Hello
  <2>2. CASE ReadWait(p)
    BY <2>2, Zenon DEF ReadWait
  <2>3. CASE ReadVerdict(p)
    BY <2>3 DEF ReadVerdict
  <2>4. CASE VerdictLost(p)
    BY <2>4, Zenon DEF VerdictLost
  <2> QED
    BY <2>1, <2>2, <2>3, <2>4, Zenon
<1> DEFINE Reads(x, w) ==
        /\ pc' = [pc EXCEPT ![p] = x]
        /\ exit' = exit \/ \E c \in Nat \ {0} : exit' = [exit EXCEPT ![p] = {c}]
        /\ wire' = [wire EXCEPT ![p] = w]
        /\ \A k \in DOMAIN w : w[k] = "confirm" => p \in registered
        /\ x = "hello" => w # << >> /\ \A k \in DOMAIN w : k > 1 => w[k] \in Verdicts
        /\ x = "verdict" => \A k \in DOMAIN w : w[k] \in Verdicts
        /\ x = "load" => p \in registered
<1>2. \E x \in {"hello", "verdict", "load", "exited"}, w \in Seq(Frames) : Reads(x, w)
  <2>1. CASE Hello(p)
    <3>1. PICK f \in {"wait", "deny"} : wire' = [wire EXCEPT ![p] = <<f>>]
      BY <2>1, Zenon DEF Hello
    <3>2. <<f>> \in Seq(Frames) /\ Reads("hello", <<f>>)
      BY <2>1, <3>1 DEF Hello, Goto, Frames
    <3> QED
      BY <3>2, Zenon
  <2>2. ASSUME wire[p] # << >>
        PROVE  /\ Head(wire[p]) = wire[p][1] /\ 1 \in DOMAIN wire[p]
               /\ Tail(wire[p]) \in Seq(Frames)
               /\ \A k \in DOMAIN Tail(wire[p]) :
                     k + 1 \in DOMAIN wire[p] /\ k + 1 > 1 /\ Tail(wire[p])[k] = wire[p][k + 1]
    BY <1>0, <2>2
  <2>3. CASE ReadWait(p)
    <3>1. wire[p] # << >> /\ pc[p] = "hello" /\ wire' = [wire EXCEPT ![p] = Tail(wire[p])]
          /\ pc' = [pc EXCEPT ![p] = "verdict"] /\ exit' = exit
      BY <2>3, Zenon DEF ReadWait, Goto
    <3>2. \A k \in DOMAIN Tail(wire[p]) :
             /\ Tail(wire[p])[k] \in Verdicts
             /\ Tail(wire[p])[k] = "confirm" => p \in registered
      BY <1>0, <2>2, <3>1, Zenon DEF FramesInOrder
    <3>3. Reads("verdict", Tail(wire[p]))
      BY <3>1, <3>2, Zenon
    <3> QED
      BY <2>2, <3>1, <3>3, Zenon
  <2>4. CASE ReadVerdict(p)
    <3>1. wire[p] # << >> /\ pc[p] = "verdict" /\ wire' = [wire EXCEPT ![p] = Tail(wire[p])]
      BY <2>4 DEF ReadVerdict
    <3>2. Head(wire[p]) \in Verdicts /\ (Head(wire[p]) = "confirm" => p \in registered)
      BY <1>0, <2>2, <3>1, ZenonT(40) DEF FramesInOrder
    <3>3. \A k \in DOMAIN Tail(wire[p]) : Tail(wire[p])[k] = "confirm" => p \in registered
      BY <1>0, <2>2, <3>1 DEF FramesInOrder
    <3>4. CASE Head(wire[p]) = "confirm"
      <4>1. pc' = [pc EXCEPT ![p] = "load"] /\ exit' = exit
        BY <2>4, <3>4, ZenonT(40) DEF ReadVerdict, Goto
      <4>2. Reads("load", Tail(wire[p]))
        BY <3>1, <3>2, <3>3, <3>4, <4>1
      <4> QED
        BY <2>2, <3>1, <4>2, Zenon
    <3>5. CASE Head(wire[p]) # "confirm"
      <4>1. PICK c \in {1, 2, 3} : Exit(p, c)
        BY <2>4, <3>2, <3>5, Zenon DEF ReadVerdict, Verdicts
      <4>2. c \in Nat \ {0}
        OBVIOUS
      <4>3. Reads("exited", Tail(wire[p]))
        BY <3>1, <3>3, <4>1, <4>2, Zenon DEF Exit, Goto
      <4> QED
        BY <2>2, <3>1, <4>3, Zenon
    <3> QED
      BY <3>4, <3>5, Zenon
  <2>5. CASE VerdictLost(p)
    <3>1. pc' = [pc EXCEPT ![p] = "exited"] /\ exit' = [exit EXCEPT ![p] = {1}]
          /\ wire' = [wire EXCEPT ![p] = <<"lost">>]
      BY <2>5 DEF VerdictLost, Exit, Goto
    <3>2. <<"lost">> \in Seq(Frames) /\ \A k \in DOMAIN <<"lost">> : <<"lost">>[k] # "confirm"
      <4>1. "lost" \in Frames
        BY DEF Frames
      <4>2. <<"lost">> \in Seq(Frames) /\ DOMAIN <<"lost">> = {1} /\ <<"lost">>[1] = "lost"
        BY <4>1
      <4> QED
        BY <4>2
    <3>3. exit' = exit \/ \E c \in Nat \ {0} : exit' = [exit EXCEPT ![p] = {c}]
      <4>1. 1 \in Nat \ {0}
        OBVIOUS
      <4> QED
        BY <3>1, <4>1, Zenon
    <3>4. ASSUME NEW w \in Seq(Frames), wire' = [wire EXCEPT ![p] = w],
                 \A k \in DOMAIN w : w[k] # "confirm"
          PROVE  Reads("exited", w)
      BY <3>1, <3>3, <3>4, Zenon
    <3> QED
      BY <3>1, <3>2, <3>4, ZenonT(40)
  <2> QED
    BY <2>1, <2>3, <2>4, <2>5, Zenon
<1>3. PICK x \in {"hello", "verdict", "load", "exited"}, w \in Seq(Frames) : Reads(x, w)
  BY <1>2, Zenon
<1>4. Quiet(p)
  BY <1>0, <1>1, <1>3, QuietGoto, Zenon
<1>5. KeyIsTheFile'
  BY <1>0, <1>1, <1>3, KeysKept, Zenon
<1>6. wire' \in [Pairs -> Seq(Frames)] /\ keyfile' \subseteq Pairs
      /\ own' \in [Pairs -> SUBSET Pairs]
  BY <1>0, <1>1, <1>3, Zenon DEF Types
<1>7. FramesInOrder'
  <2>1. pc'[p] = x /\ wire'[p] = w
        /\ \A q \in Pairs : q # p => pc'[q] = pc[q] /\ wire'[q] = wire[q]
    BY <1>0, <1>3 DEF Types
  <2> QED
    BY <1>0, <1>1, <1>3, <2>1, SMTT(30) DEF FramesInOrder
<1> QED
  BY <1>0, <1>4, <1>5, <1>6, <1>7, QuietKeeps, ZenonT(40)

\* The daemon's verdict keeps the invariant: it comes after the first frame,
\* and the pairing is recorded before the confirmation is sent.
LEMMA DaemonSteps ==
    ASSUME IInv, NEW p \in Pairs, Confirm(p) \/ Deny(p)
    PROVE  IInv'
<1>0. Types /\ KeyIsTheFile /\ FramesInOrder /\ p \in Processes /\ wire[p] \in Seq(Frames)
  BY Zenon DEF IInv, Types
<1>1. /\ keyfile' = keyfile /\ own' = own /\ pc' = pc /\ exit' = exit
      /\ UNCHANGED <<server, fileVars>>
  BY Zenon DEF Confirm, Deny
<1>2. PICK v \in Verdicts : /\ wire' = [wire EXCEPT ![p] = Append(wire[p], v)]
                            /\ v = "confirm" => p \in registered'
  BY Zenon DEF Confirm, Deny, Verdicts
<1>3. registered \subseteq registered' /\ registered' \subseteq Pairs
  BY <1>0 DEF Confirm, Deny, Types
<1>4. Quiet(p)
  BY <1>1, <1>3, Zenon DEF Quiet
<1>5. KeyIsTheFile'
  BY <1>0, <1>1 DEF KeyIsTheFile
<1>6. v \in Frames /\ Append(wire[p], v) \in Seq(Frames)
  BY <1>0 DEF Verdicts, Frames
<1>7. wire' \in [Pairs -> Seq(Frames)] /\ keyfile' \subseteq Pairs
      /\ own' \in [Pairs -> SUBSET Pairs]
  BY <1>0, <1>1, <1>2, <1>6, ZenonT(40) DEF Types
<1>8. FramesInOrder'
  <2>1. wire'[p] = Append(wire[p], v) /\ \A q \in Pairs : q # p => wire'[q] = wire[q]
    BY <1>0, <1>2, ZenonT(40) DEF Types
  <2>2. Append(wire[p], v) # << >>
        /\ \A k \in DOMAIN Append(wire[p], v) :
              \/ k \in DOMAIN wire[p] /\ Append(wire[p], v)[k] = wire[p][k]
              \/ Append(wire[p], v)[k] = v
    BY <1>0, <1>6
  <2> QED
    BY <1>0, <1>1, <1>2, <1>3, <2>1, <2>2, SMTT(30) DEF FramesInOrder
<1> QED
  BY <1>0, <1>4, <1>5, <1>7, <1>8, QuietKeeps, Zenon

-----------------------------------------------------------------------------
(***************************************************************************)
(* The steps of the window.                                                *)
(***************************************************************************)
\* Before and in the window neither keys nor frames matter.
LEMMA WindowKeeps ==
    ASSUME Types, KeyIsTheFile, FramesInOrder, NEW p \in Processes,
           NEW x \in {"create", "write", "rename", "exited"}, pc' = [pc EXCEPT ![p] = x],
           UNCHANGED pairVars
    PROVE  KeyIsTheFile' /\ FramesInOrder'
<1>1. \A q \in Pairs :
         pc'[q] \in {"keywrite", "hello", "verdict", "load"} => pc'[q] = pc[q]
  BY DEF Types
<1>2. wire' = wire /\ registered' = registered /\ keyfile' = keyfile /\ own' = own
  BY Zenon
<1> QED
  BY <1>1, <1>2, Zenon DEF KeyIsTheFile, FramesInOrder

\* p has changed list s to t: there are no duplicates, s's servers are there
\* and, in a pairing, with the same forwards.
KeepsList(p, s, t) ==
    /\ Distinct(t)
    /\ \A d \in Servers : With(s, d) # {} =>
          /\ With(t, d) # {}
          /\ p \in Pairs => forwards_of(t, d) = forwards_of(s, d)

\* A load whose change keeps what is in a list without duplicates and, in a
\* pairing, has the server, keeps the invariant: with another process in its
\* window it is a clash.
LEMMA LoadKeeps ==
    ASSUME IInv, NEW p \in Processes, pc[p] = "load", NEW s \in Parsed,
           NEW t \in Seq(Entry), Loaded(p, t),
           Distinct(s) => KeepsList(p, s, t),
           p \in Pairs => With(t, server[p]) # {}
    PROVE  IInv'
<1>0. Types /\ KeyIsTheFile /\ ListsAreDistinct /\ InodesAreFresh /\ FramesInOrder
      /\ SavesItsServer /\ PairedIsKept /\ (clash = {} => Undisturbed)
  BY DEF IInv
<1>1. /\ pc' = [pc EXCEPT ![p] = "create"] /\ store' = [store EXCEPT ![p] = t]
      /\ exit' = exit /\ UNCHANGED pairVars
      /\ file' = file /\ tmp' = tmp /\ open' = open /\ data' = data
  BY Zenon DEF Loaded, Goto
<1>2. /\ pc' \in [Processes -> Points] /\ store' \in [Processes -> Seq(Entry)]
      /\ pc'[p] = "create" /\ store'[p] = t
      /\ \A q \in Processes : q # p => pc'[q] = pc[q] /\ store'[q] = store[q]
  BY <1>0, <1>1 DEF Types, Points
<1>3. clash' \subseteq Processes
  BY <1>0, ZenonT(40) DEF Loaded, Types
<1>4. Types'
  BY <1>0, <1>1, <1>2, <1>3 DEF Types
<1>5. KeyIsTheFile' /\ FramesInOrder'
  BY <1>0, <1>1, WindowKeeps, Zenon
<1>6. InodesAreFresh'
  BY <1>0, <1>1, <1>2, ZenonT(40) DEF InodesAreFresh
<1>7. Parsed' = Parsed
  BY <1>1, Zenon DEF Parsed, Disk!Text
<1>8. ListsAreDistinct'
  <2> SUFFICES ASSUME clash' = {}
               PROVE  /\ \A q \in Processes : InWindow(q)' => Distinct(store'[q])
                      /\ \A u \in Parsed : Distinct(u)
    BY <1>7, Zenon DEF ListsAreDistinct
  <2>1. clash = {} /\ \A q \in Processes : ~InWindow(q)
    BY Zenon DEF Loaded
  <2>2. \A u \in Parsed : Distinct(u)
    BY <1>0, <2>1, Zenon DEF ListsAreDistinct
  <2>3. \A q \in Processes : InWindow(q)' => q = p
    BY <1>2, <2>1, Zenon DEF InWindow
  <2> QED
    BY <1>2, <2>2, <2>3, Zenon DEF KeepsList
<1>9. ASSUME clash' = {}
      PROVE  Undisturbed'
  <2>1. clash = {} /\ \A q \in Processes : ~InWindow(q)
    BY <1>9, Zenon DEF Loaded
  <2>2. Undisturbed
    BY <1>0, <2>1, Zenon
  <2>3. \A q \in Processes : InWindow(q)' => q = p
    BY <1>2, <2>1, Zenon DEF InWindow
  <2>4. WindowIsAlone'
    BY <2>3, ZenonT(40) DEF WindowIsAlone
  <2>5. OpenIsBlank' /\ TmpIsWritten'
    BY <1>2, <2>3, Zenon DEF OpenIsBlank, TmpIsWritten, InWindow
  <2>6. ASSUME NEW u \in Parsed
        PROVE  u = s
    <3>1. CASE file = {}
      BY <3>1, Zenon DEF Parsed
    <3>2. CASE file # {}
      <4>1. (\E i \in file : u \in data[i]) /\ (\E i \in file : s \in data[i])
        BY <3>2, Zenon DEF Parsed, Disk!Text
      <4>2. \A i \in file : i \in Processes
        BY <1>0, ZenonT(40) DEF Types
      <4> QED
        BY <1>0, <4>1, <4>2, Zenon DEF InodesAreFresh
    <3> QED
      BY <3>1, <3>2
  <2>7. NothingIsDropped'
    <3>1. KeepsList(p, s, t)
      BY <1>0, <2>1, Zenon DEF ListsAreDistinct
    <3> QED
      BY <1>2, <1>7, <2>3, <2>6, <3>1 DEF NothingIsDropped, KeepsList
  <2> QED
    BY <1>7, <2>2, <2>4, <2>5, <2>7, Zenon DEF Undisturbed
<1>10. SavesItsServer'
  <2>1. p \in Pairs => p \in registered
    BY <1>0, Zenon DEF FramesInOrder
  <2>2. server' = server /\ registered' = registered
    BY <1>1, Zenon
  <2> QED
    BY <1>0, <1>1, <1>2, <2>1, <2>2, ZenonT(40) DEF SavesItsServer, InWindow, Gone
<1>11. PairedIsKept'
  <2>1. clash' = {} => clash = {}
    BY Zenon DEF Loaded
  <2>2. server' = server /\ registered' = registered
    BY <1>1, Zenon
  <2> QED
    BY <1>0, <1>1, <1>7, <2>1, <2>2 DEF PairedIsKept
<1> QED
  BY <1>4, <1>5, <1>8, <1>6, <1>9, <1>10, <1>11, Zenon DEF IInv

\* LoadAndUpsert and LoadAndSetForwards keep the invariant.
LEMMA LoadSteps ==
    ASSUME IInv, NEW p \in Processes,
           (p \in Pairs /\ LoadAndUpsert(p)) \/ (p \in Saves /\ LoadAndSetForwards(p))
    PROVE  IInv'
<1>0. \A s \in Parsed : s \in Seq(Entry)
  BY ParsedIsList
<1>1. CASE p \in Pairs /\ LoadAndUpsert(p)
  <2>1. PICK s \in Parsed, n \in Names :
           /\ ~name_taken(s, n, server[p])
           /\ Loaded(p, upsert(s, [name |-> n, node |-> server[p],
                                   forwards |-> forwards_of(s, server[p])]))
    BY <1>1, Zenon DEF LoadAndUpsert
  <2>2. server[p] \in Servers
    BY <1>1, Zenon DEF IInv, Types
  <2>3. forwards_of(s, server[p]) \in Defaults
    BY <1>0, ForwardsOfType, Zenon
  <2> DEFINE e == [name |-> n, node |-> server[p], forwards |-> forwards_of(s, server[p])]
  <2>4. e \in Entry /\ e.node = server[p]
    BY <2>2, <2>3, ZenonT(40) DEF Entry
  <2>5. upsert(s, e) \in Seq(Entry) /\ With(upsert(s, e), server[p]) # {}
    <3> HIDE DEF e
    <3> QED
      BY <1>0, <2>4, UpsertType, SMTT(30)
  <2>6. Distinct(s) => KeepsList(p, s, upsert(s, e))
    BY <1>0, <2>1, <2>2, <2>4, UpsertKeeps DEF KeepsList
  <2>7. pc[p] = "load" /\ Loaded(p, upsert(s, e))
    BY <1>1, <2>1, Zenon DEF LoadAndUpsert
  <2> HIDE DEF e
  <2> QED
    BY <2>5, <2>6, <2>7, LoadKeeps, Zenon
<1>2. CASE p \in Saves /\ LoadAndSetForwards(p)
  <2>1. PICK s \in Parsed, n \in Names, f \in Defaults :
           Named(s, n) # {} /\ Loaded(p, set_forwards(s, n, f))
    BY <1>2, Zenon DEF LoadAndSetForwards
  <2>2. set_forwards(s, n, f) \in Seq(Entry)
    BY <1>0, <2>1, SetForwardsType, Zenon
  <2>3. pc[p] = "load" /\ p \notin Pairs
    BY <1>2, PairAssumption, Zenon DEF LoadAndSetForwards
  <2>4. Distinct(s) => KeepsList(p, s, set_forwards(s, n, f))
    BY <1>0, <2>1, <2>3, SetForwardsKeeps, Zenon DEF KeepsList
  <2> QED
    BY <2>1, <2>2, <2>3, <2>4, LoadKeeps, Zenon
<1> QED
  BY <1>1, <1>2

\* The creation of the temporary file keeps the invariant: it truncates an
\* inode that servers.toml does not name.
LEMMA CreateStep ==
    ASSUME IInv, NEW p \in Processes, Create(p)
    PROVE  IInv'
<1>0. Types /\ KeyIsTheFile /\ ListsAreDistinct /\ InodesAreFresh /\ FramesInOrder
      /\ SavesItsServer /\ PairedIsKept /\ (clash = {} => Undisturbed)
  BY Zenon DEF IInv
<1>1. /\ pc[p] = "create" /\ pc' = [pc EXCEPT ![p] = "write"]
      /\ exit' = exit /\ UNCHANGED pairVars /\ store' = store /\ clash' = clash
      /\ file' = file
      /\ tmp' = IF tmp = {} THEN {p} ELSE tmp
      /\ open' = [open EXCEPT ![p] = tmp']
      /\ data' = [i \in Processes |-> IF i \in tmp' THEN {} ELSE data[i]]
  BY Zenon DEF Create, Goto, Disk!CreateTmp
<1>2. /\ pc' \in [Processes -> Points] /\ pc'[p] = "write"
      /\ \A q \in Processes : q # p => pc'[q] = pc[q]
  BY <1>0, <1>1 DEF Types, Points
<1>3. tmp' \subseteq Processes /\ tmp' # {} /\ p \notin file
  BY <1>0, <1>1, ZenonT(40) DEF Types, InodesAreFresh
<1>4. open' \in [Processes -> SUBSET Processes] /\ open'[p] = tmp'
  BY <1>0, <1>1, <1>3 DEF Types
<1>5. /\ data' \in [Processes -> SUBSET Seq(Item)]
      /\ \A i \in Processes : data'[i] = IF i \in tmp' THEN {} ELSE data[i]
  BY <1>0, <1>1, ZenonT(40) DEF Types
<1>6. Types'
  BY <1>0, <1>1, <1>2, <1>3, <1>4, <1>5 DEF Types
<1>7. KeyIsTheFile' /\ FramesInOrder'
  BY <1>0, <1>1, WindowKeeps, Zenon
<1>8. InodesAreFresh'
  <2>1. \A q \in Processes :
           pc'[q] \notin {"write", "rename", "exited", "killed"} => q \notin file' \cup tmp'
    BY <1>0, <1>1, <1>2, Zenon DEF InodesAreFresh
  <2>2. file' \cap tmp' = {} /\ (\A i, j \in file' : i = j) /\ (\A i, j \in tmp' : i = j)
    BY <1>0, <1>1, <1>3, Zenon DEF InodesAreFresh
  <2>3. \A i \in Processes : \A s, t \in data'[i] : s = t
    BY <1>0, <1>5 DEF InodesAreFresh
  <2> QED
    BY <2>1, <2>2, <2>3 DEF InodesAreFresh
<1>9. Parsed' = Parsed
  <2>1. file' = file /\ \A i \in file : data'[i] = data[i]
    BY <1>0, <1>1, <1>5, <1>8 DEF InodesAreFresh, Types
  <2> QED
    BY <2>1, ZenonT(40) DEF Parsed, Disk!Text
<1>10. \A q \in Processes : InWindow(q)' <=> InWindow(q)
  BY <1>1, <1>2, Zenon DEF InWindow
<1>11. ListsAreDistinct'
  BY <1>0, <1>1, <1>9, <1>10, ZenonT(40) DEF ListsAreDistinct
<1>12. ASSUME clash' = {}
       PROVE  Undisturbed'
  <2>1. Undisturbed
    BY <1>0, <1>1, <1>12, Zenon
  <2>2. WindowIsAlone'
    BY <2>1, <1>10 DEF Undisturbed, WindowIsAlone
  <2>3. \A q \in Processes : pc'[q] \in {"write", "rename"} => q = p
    BY <1>2, <2>2, ZenonT(40) DEF WindowIsAlone, InWindow
  <2>4. OpenIsBlank' /\ TmpIsWritten'
    BY <1>2, <1>3, <1>4, <1>5, <2>3 DEF OpenIsBlank, TmpIsWritten
  <2>5. NothingIsDropped'
    BY <2>1, <1>1, <1>9, <1>10, ZenonT(40) DEF Undisturbed, NothingIsDropped
  <2> QED
    BY <2>1, <2>2, <2>4, <2>5, <1>9 DEF Undisturbed
<1>13. server' = server /\ registered' = registered
  BY <1>1, Zenon
<1>14. SavesItsServer'
  BY <1>0, <1>1, <1>2, <1>10, <1>13 DEF SavesItsServer, Gone
<1>15. PairedIsKept'
  BY <1>0, <1>1, <1>9, <1>13, Zenon DEF PairedIsKept
<1> QED
  BY <1>6, <1>7, <1>11, <1>8, <1>12, <1>14, <1>15, Zenon DEF IInv

\* The writing of the temporary file keeps the invariant: alone in its window
\* a process writes over nothing, and not to servers.toml.
LEMMA WriteStep ==
    ASSUME IInv, NEW p \in Processes, Write(p)
    PROVE  IInv'
<1>0. Types /\ KeyIsTheFile /\ ListsAreDistinct /\ InodesAreFresh /\ FramesInOrder
      /\ SavesItsServer /\ PairedIsKept /\ (clash = {} => Undisturbed)
  BY DEF IInv
<1>1. /\ pc[p] = "write" /\ pc' = [pc EXCEPT ![p] = "rename"]
      /\ exit' = exit /\ UNCHANGED pairVars /\ store' = store /\ clash' = clash
      /\ file' = file /\ tmp' = tmp /\ open' = [open EXCEPT ![p] = {}]
  BY Zenon DEF Write, Goto, Disk!WriteTmp
<1>2. PICK text :
         /\ Disk!Under(p) = {} => text = store[p]
         /\ Disk!Under(p) # {} => \E t \in Disk!Under(p) : text \in Over(store[p], t)
         /\ data' = [i \in Processes |-> IF i \in open[p] THEN {text} ELSE data[i]]
  <2>1. PICK text \in IF Disk!Under(p) = {} THEN {store[p]}
                      ELSE UNION {Over(store[p], t) : t \in Disk!Under(p)} :
           data' = [i \in Processes |-> IF i \in open[p] THEN {text} ELSE data[i]]
    BY Zenon DEF Write, Disk!WriteTmp
  <2> QED
    BY <2>1, Zenon
<1>3. /\ pc' \in [Processes -> Points] /\ pc'[p] = "rename"
      /\ \A q \in Processes : q # p => pc'[q] = pc[q]
  BY <1>0, <1>1, Zenon DEF Types, Points
<1>4. text \in Seq(Item)
  <2>1. store[p] \in Seq(Entry) /\ \A t \in Disk!Under(p) : t \in Seq(Item)
    BY <1>0, Zenon DEF Types, Disk!Under
  <2>2. store[p] \in Seq(Item)
    BY <2>1 DEF Item
  <2> QED
    BY <1>2, <2>1, <2>2, OverType, Zenon
<1>5. /\ data' \in [Processes -> SUBSET Seq(Item)]
      /\ \A i \in Processes : data'[i] = IF i \in open[p] THEN {text} ELSE data[i]
  BY <1>0, <1>2, <1>4, ZenonT(40) DEF Types
<1>6. Types'
  BY <1>0, <1>1, <1>3, <1>5 DEF Types
<1>7. KeyIsTheFile' /\ FramesInOrder'
  BY <1>0, <1>1, WindowKeeps, Zenon
<1>8. InodesAreFresh'
  <2>1. \A i \in Processes : \A s, t \in data'[i] : s = t
    BY <1>0, <1>5, SMTT(30) DEF InodesAreFresh
  <2> QED
    BY <1>0, <1>1, <1>3, <2>1, ZenonT(40) DEF InodesAreFresh
<1>9. \A q \in Processes : InWindow(q)' <=> InWindow(q)
  BY <1>1, <1>3 DEF InWindow
<1>10. ASSUME clash = {}
       PROVE  Parsed' = Parsed /\ \A i \in tmp : data'[i] = {store[p]}
  <2>1. open[p] = tmp /\ \A i \in tmp : data[i] = {}
    BY <1>0, <1>1, <1>10, Zenon DEF Undisturbed, OpenIsBlank
  <2>2. text = store[p]
    BY <1>2, <2>1, Zenon DEF Disk!Under
  <2>3. \A i \in tmp : data'[i] = {store[p]}
    BY <1>0, <1>5, <2>1, <2>2, Zenon DEF Types
  <2>4. \A i \in file : data'[i] = data[i]
    BY <1>0, <1>5, <2>1 DEF InodesAreFresh, Types
  <2> QED
    BY <1>1, <2>3, <2>4, ZenonT(40) DEF Parsed, Disk!Text
<1>11. ListsAreDistinct'
  BY <1>0, <1>1, <1>9, <1>10, Zenon DEF ListsAreDistinct
<1>12. ASSUME clash' = {}
       PROVE  Undisturbed'
  <2>1. Undisturbed /\ Parsed' = Parsed
    BY <1>0, <1>1, <1>10, <1>12, Zenon
  <2>2. WindowIsAlone'
    BY <2>1, <1>9, Zenon DEF Undisturbed, WindowIsAlone
  <2>3. \A q \in Processes : pc'[q] \in {"write", "rename"} => q = p
    BY <1>3, <2>2, ZenonT(40) DEF WindowIsAlone, InWindow
  <2>4. tmp # {}
    BY <1>1, <2>1 DEF Undisturbed, OpenIsBlank
  <2>5. OpenIsBlank' /\ TmpIsWritten'
    BY <1>1, <1>3, <1>10, <1>12, <2>3, <2>4, Zenon DEF OpenIsBlank, TmpIsWritten
  <2>6. NothingIsDropped'
    BY <2>1, <1>1, <1>9, ZenonT(40) DEF Undisturbed, NothingIsDropped
  <2> QED
    BY <2>1, <2>2, <2>5, <2>6 DEF Undisturbed
<1>13. server' = server /\ registered' = registered
  BY <1>1
<1>14. SavesItsServer'
  BY <1>0, <1>1, <1>3, <1>9, <1>13, Zenon DEF SavesItsServer, Gone
<1>15. PairedIsKept'
  BY <1>0, <1>1, <1>10, <1>13, Zenon DEF PairedIsKept
<1> QED
  BY <1>6, <1>7, <1>11, <1>8, <1>12, <1>14, <1>15, SMTT(30) DEF IInv

\* Alone in its window a process renames its own text over servers.toml.
LEMMA RenamedIsOwn ==
    ASSUME IInv, clash = {}, NEW p \in Processes, Rename(p)
    PROVE  Exit(p, 0) /\ Parsed' = {store[p]}
<1>1. tmp # {} /\ \A i \in tmp : data[i] = {store[p]}
  BY Zenon DEF IInv, Undisturbed, TmpIsWritten, Rename
<1>2. Exit(p, 0) /\ file' = tmp /\ data' = data
  BY <1>1, Zenon DEF Rename, Disk!Renamable, Disk!RenameTmp
<1>3. store[p] \in Seq(Entry)
  BY Zenon DEF IInv, Types
<1>4. file' # {} /\ Disk!Text' = {store[p]}
  BY <1>1, <1>2 DEF Disk!Text
<1> QED
  BY <1>2, <1>3, <1>4, Zenon DEF Parsed

\* The rename keeps the invariant: the new file has every server the old one
\* had, and so every server of an earlier pairing.
LEMMA RenameStep ==
    ASSUME IInv, NEW p \in Processes, Rename(p)
    PROVE  IInv'
<1>0. Types /\ KeyIsTheFile /\ ListsAreDistinct /\ InodesAreFresh /\ FramesInOrder
      /\ SavesItsServer /\ PairedIsKept /\ (clash = {} => Undisturbed)
  BY DEF IInv
<1>1. /\ pc[p] = "rename" /\ pc' = [pc EXCEPT ![p] = "exited"]
      /\ UNCHANGED pairVars /\ store' = store /\ clash' = clash
      /\ open' = open /\ data' = data
      /\ (file' = tmp /\ tmp' = {}) \/ (file' = file /\ tmp' = tmp)
  <2>1. CASE Disk!Renamable
    BY <2>1, Zenon DEF Rename, Exit, Goto, Disk!RenameTmp
  <2>2. CASE ~Disk!Renamable
    BY <2>2, Zenon DEF Rename, Exit, Goto
  <2> QED
    BY <2>1, <2>2, Zenon
<1>2. PICK c \in {0, 1} : exit' = [exit EXCEPT ![p] = {c}]
  BY Zenon DEF Rename, Exit
<1>3. /\ pc' \in [Processes -> Points] /\ pc'[p] = "exited"
      /\ \A q \in Processes : q # p => pc'[q] = pc[q]
  BY <1>0, <1>1, Zenon DEF Types, Points
<1>4. /\ exit' \in [Processes -> SUBSET Nat]
      /\ \A q \in Processes : q # p => exit'[q] = exit[q]
  <2>1. {c} \in SUBSET Nat
    BY SMTT(30)
  <2> QED
    BY <1>0, <1>2, <2>1, Zenon DEF Types
<1>5. Types'
  BY <1>0, <1>1, <1>3, <1>4 DEF Types
<1>6. KeyIsTheFile' /\ FramesInOrder'
  BY <1>0, <1>1, WindowKeeps, Zenon
<1>7. InodesAreFresh'
  BY <1>0, <1>1, <1>3, ZenonT(40) DEF InodesAreFresh
<1>8. \A q \in Processes : InWindow(q)' => InWindow(q) /\ q # p
  BY <1>3, Zenon DEF InWindow
<1>9. ListsAreDistinct'
  <2>1. InWindow(p)
    BY <1>1, Zenon DEF InWindow
  <2> QED
    BY <1>0, <1>1, <1>8, <2>1, RenamedIsOwn, ZenonT(40) DEF ListsAreDistinct
<1>10. ASSUME clash' = {}
       PROVE  Undisturbed'
  <2>1. Undisturbed /\ Parsed' = {store[p]}
    BY <1>0, <1>1, <1>10, RenamedIsOwn, Zenon
  <2>2. \A q \in Processes : ~InWindow(q)'
    BY <2>1, <1>1, <1>8, Zenon DEF Undisturbed, WindowIsAlone, InWindow
  <2>3. WindowIsAlone' /\ NothingIsDropped'
    BY <2>2, Zenon DEF WindowIsAlone, NothingIsDropped
  <2>4. OpenIsBlank' /\ TmpIsWritten'
    BY <2>2, Zenon DEF OpenIsBlank, TmpIsWritten, InWindow
  <2> QED
    BY <2>1, <2>3, <2>4, Zenon DEF Undisturbed
<1>11. server' = server /\ registered' = registered
  BY <1>1
<1>12. SavesItsServer'
  <2>1. InWindow(p)
    BY <1>1, Zenon DEF InWindow
  <2> QED
    BY <1>0, <1>1, <1>3, <1>4, <1>8, <1>11, <2>1, ZenonT(40) DEF SavesItsServer, Gone
<1>13. PairedIsKept'
  <2> SUFFICES ASSUME NEW q \in Pairs, exit'[q] = {0}
               PROVE  /\ q \in registered
                      /\ clash = {} => \A s \in Parsed' : With(s, server[q]) # {}
    BY <1>1, <1>11, ZenonT(40) DEF PairedIsKept
  <2>1. InWindow(p)
    BY <1>1 DEF InWindow
  <2>2. CASE q = p
    BY <1>0, <2>1, <2>2, RenamedIsOwn, Zenon DEF SavesItsServer
  <2>3. CASE q # p
    <3>1. exit[q] = {0} /\ server[q] \in Servers
      BY <1>0, <1>4, <2>3, Zenon DEF Types
    <3>2. ASSUME clash = {}
          PROVE  With(store[p], server[q]) # {}
      <4>1. PICK s \in Parsed : With(s, server[q]) # {}
        BY <1>0, <3>1, <3>2, Zenon DEF Undisturbed, PairedIsKept
      <4> QED
        BY <1>0, <2>1, <3>1, <3>2, <4>1, Zenon DEF Undisturbed, NothingIsDropped
    <3> QED
      BY <1>0, <3>1, <3>2, RenamedIsOwn, ZenonT(40) DEF PairedIsKept
  <2> QED
    BY <2>2, <2>3, Zenon
<1> QED
  BY <1>5, <1>6, <1>9, <1>7, <1>10, <1>12, <1>13, Zenon DEF IInv

-----------------------------------------------------------------------------
(***************************************************************************)
(* The invariant, and what follows from it.                                *)
(***************************************************************************)
\* A fresh data directory satisfies the invariant.
LEMMA InitIsSound == Init => IInv
<1> SUFFICES ASSUME Init
             PROVE  IInv
  OBVIOUS
<1>1. /\ \A p \in Processes : pc[p] \in {"code", "load"} /\ exit[p] = {} /\ store[p] = << >>
      /\ \A p \in Pairs : pc[p] = "code" /\ wire[p] = << >> /\ own[p] = {}
      /\ file = {} /\ tmp = {} /\ keyfile = {} /\ clash = {} /\ registered = {}
      /\ \A p \in Processes : data[p] = {}
  BY Zenon DEF Init, Disk!NoFile
<1>2. Types
  BY DEF Init, Disk!NoFile, Types, Points
<1>3. KeyIsTheFile
  BY <1>1, Zenon DEF KeyIsTheFile
<1>4. \A p \in Processes : ~InWindow(p)
  BY <1>1 DEF InWindow
<1>5. ListsAreDistinct /\ InodesAreFresh
  <2>1. Parsed = {<< >>} /\ Distinct(<< >>)
    BY <1>1 DEF Parsed, Distinct
  <2> QED
    BY <1>1, <1>4, <2>1, SMTT(30) DEF ListsAreDistinct, InodesAreFresh
<1>6. Undisturbed
  <2>1. WindowIsAlone /\ NothingIsDropped
    BY <1>4, Zenon DEF WindowIsAlone, NothingIsDropped
  <2>2. OpenIsBlank /\ TmpIsWritten
    BY <1>1, Zenon DEF OpenIsBlank, TmpIsWritten
  <2>3. Parsed # {}
    BY <1>1, ZenonT(40) DEF Parsed
  <2> QED
    BY <2>1, <2>2, <2>3 DEF Undisturbed
<1>7. FramesInOrder
  BY <1>1, SMTT(30) DEF FramesInOrder
<1>8. SavesItsServer /\ PairedIsKept
  <2>1. \A p \in Pairs : exit[p] # {0}
    BY <1>1, Zenon
  <2> QED
    BY <1>4, <2>1 DEF SavesItsServer, PairedIsKept
<1> QED
  BY <1>2, <1>3, <1>5, <1>6, <1>7, <1>8 DEF IInv

\* A step that changes nothing keeps the invariant.
LEMMA StutterKeeps ==
    ASSUME IInv, UNCHANGED vars
    PROVE  IInv'
<1>1. Parsed' = Parsed /\ \A p : InWindow(p)' <=> InWindow(p)
  BY DEF vars, Parsed, Disk!Text, InWindow
<1>2. Types' /\ KeyIsTheFile' /\ ListsAreDistinct' /\ InodesAreFresh' /\ FramesInOrder'
  BY <1>1, ZenonT(40) DEF IInv, vars, Types, KeyIsTheFile, ListsAreDistinct, InodesAreFresh,
      FramesInOrder
<1>3. (clash = {} => Undisturbed)'
  BY <1>1, ZenonT(40) DEF IInv, vars, Undisturbed, WindowIsAlone, OpenIsBlank, TmpIsWritten,
              NothingIsDropped
<1>4. SavesItsServer' /\ PairedIsKept'
  BY <1>1 DEF IInv, vars, SavesItsServer, PairedIsKept, Gone
<1> QED
  BY <1>2, <1>3, <1>4, Zenon DEF IInv

\* Every step keeps the invariant.
LEMMA NextKeeps == IInv /\ [Next]_vars => IInv'
<1> SUFFICES ASSUME IInv, [Next]_vars
             PROVE  IInv'
  OBVIOUS
<1>1. ASSUME NEW p \in Pairs, Client(p)
      PROVE  IInv'
  <2>0. p \in Processes
    OBVIOUS
  <2>1. CASE \/ CodeOk(p) \/ CodeInvalid(p) \/ DialFails(p) \/ NoWait(p) \/ VerdictTimeout(p)
    BY <2>0, <2>1, SilentSteps, SilentKeeps
  <2>2. CASE KeyLoad(p) \/ KeyCreate(p) \/ KeyWrite(p)
    BY <2>2, KeySteps
  <2>3. CASE Hello(p) \/ ReadWait(p) \/ ReadVerdict(p) \/ VerdictLost(p)
    BY <2>3, ReadSteps
  <2>4. CASE LoadAndUpsert(p)
    BY <2>0, <2>4, LoadSteps
  <2> QED
    BY <1>1, <2>1, <2>2, <2>3, <2>4 DEF Client
<1>2. ASSUME NEW p \in Pairs, Daemon(p) \/ TimePasses(p)
      PROVE  IInv'
  BY <1>2, SilentSteps, SilentKeeps, DaemonSteps DEF Daemon
<1>3. ASSUME NEW p \in Saves, LoadAndSetForwards(p)
      PROVE  IInv'
  BY <1>3, LoadSteps
<1>4. ASSUME NEW p \in Processes,
             LoadFails(p) \/ Create(p) \/ Write(p) \/ Rename(p) \/ SaveFails(p) \/ Kill(p)
      PROVE  IInv'
  BY <1>4, SilentSteps, SilentKeeps, CreateStep, WriteStep, RenameStep
<1>5. CASE UNCHANGED vars
  BY <1>5, StutterKeeps
<1> QED
  BY <1>1, <1>2, <1>3, <1>4, <1>5 DEF Next

\* The inductive invariant holds for any processes.
LEMMA Invariance == Spec => []IInv
  BY InitIsSound, NextKeeps, PTL DEF Spec

\* load_or_create_keypair: however many first commands start together, all
\* that get a key get the same.
THEOREM KeysAgree == Spec => []OneIdentity
<1>1. IInv => OneIdentity
  BY DEF IInv, KeyIsTheFile, OneIdentity
<1> QED
  BY <1>1, Invariance, PTL

\* ClientStore::upsert: servers.toml lists no name and no server twice, for
\* any number of commands, kills and failures, until two processes save at
\* the same time.
THEOREM FileStaysDistinct == Spec => []FileIsDistinct
<1>1. IInv => FileIsDistinct
  BY Zenon DEF IInv, ListsAreDistinct, FileIsDistinct
<1> QED
  BY <1>1, Invariance, PTL

\* Kills and failures alone never leave a servers.toml that does not parse.
THEOREM OnlyClashesTear == Spec => []TornNeedsClash
<1>1. IInv => TornNeedsClash
  BY Zenon DEF IInv, Undisturbed, TornNeedsClash
<1> QED
  BY <1>1, Invariance, PTL

\* A pairing that ended with success was recorded, and is kept until two
\* processes save at the same time.
THEOREM PairingsAreKept == Spec => []PairedIsKept
<1>1. IInv => PairedIsKept
  BY DEF IInv
<1> QED
  BY <1>1, Invariance, PTL

\* A process that stands before its rename ends with success by it only.
LEMMA SuccessIsRename ==
    ASSUME IInv, Next, NEW p \in Pairs, pc[p] = "rename", exit'[p] = {0}
    PROVE  Rename(p)
<1>0. exit \in [Processes -> SUBSET Nat] /\ exit[p] # {0}
  BY Zenon DEF IInv, Types, SavesItsServer, Gone
<1>1. ASSUME NEW q \in Processes, NEW c, exit' = [exit EXCEPT ![q] = {c}], q # p \/ c = 1
      PROVE  FALSE
  <2>1. CASE q # p
    BY <1>0, <1>1, <2>1
  <2>2. CASE q = p /\ c = 1
    BY <1>0, <1>1, <2>2
  <2> QED
    BY <1>1, <2>1, <2>2
<1>2. exit' # exit
  BY <1>0
<1>3. ASSUME NEW q \in Pairs, Client(q)
      PROVE  FALSE
  <2>1. pc[q] \notin {"create", "write", "rename", "exited", "killed"}
    BY <1>3, Zenon DEF Client, CodeOk, CodeInvalid, KeyLoad, KeyCreate, KeyWrite, DialFails, Hello,
        ReadWait, NoWait, ReadVerdict, VerdictLost, VerdictTimeout, LoadAndUpsert
  <2>2. exit' = exit \/ \E c : exit' = [exit EXCEPT ![q] = {c}]
    <3>1. ASSUME NEW c, Exit(q, c)
          PROVE  <2>2!:
      BY <3>1, Zenon DEF Exit
    <3>2. CASE \/ CodeOk(q) \/ CodeInvalid(q) \/ DialFails(q) \/ NoWait(q) \/ VerdictTimeout(q)
      BY <3>2, SilentSteps, Zenon DEF Silent
    <3>3. CASE KeyLoad(q) \/ KeyCreate(q) \/ KeyWrite(q)
      BY <3>3, <3>1, Zenon DEF KeyLoad, KeyCreate, KeyWrite
    <3>4. CASE Hello(q) \/ ReadWait(q) \/ VerdictLost(q) \/ LoadAndUpsert(q)
      BY <3>4, <3>1, Zenon DEF Hello, ReadWait, VerdictLost, LoadAndUpsert, Loaded
    <3>5. CASE ReadVerdict(q)
      <4>1. wire[q] \in Seq(Frames) /\ 1 \in DOMAIN wire[q] /\ Head(wire[q]) = wire[q][1]
            /\ pc[q] = "verdict"
        BY <3>5, SMTT(30) DEF ReadVerdict, IInv, Types
      <4>2. Head(wire[q]) \in Verdicts
        BY <4>1 DEF IInv, FramesInOrder
      <4> QED
        BY <3>5, <3>1, <4>2, Zenon DEF ReadVerdict, Verdicts
    <3> QED
      BY <1>3, <3>2, <3>3, <3>4, <3>5, Zenon DEF Client
  <2> QED
    BY <1>1, <1>2, <2>1, <2>2, Zenon
<1>4. ASSUME NEW q \in Pairs, Daemon(q) \/ TimePasses(q)
      PROVE  FALSE
  BY <1>2, <1>4, Zenon DEF Daemon, Confirm, Deny, ClientLost, TimePasses
<1>5. ASSUME NEW q \in Saves, LoadAndSetForwards(q)
      PROVE  FALSE
  BY <1>2, <1>5, Zenon DEF LoadAndSetForwards, Loaded
<1>6. ASSUME NEW q \in Processes,
             LoadFails(q) \/ Create(q) \/ Write(q) \/ SaveFails(q) \/ Kill(q)
      PROVE  FALSE
  BY <1>1, <1>2, <1>6, Zenon DEF LoadFails, Create, Write, SaveFails, Kill, Exit
<1>7. ASSUME NEW q \in Processes, Rename(q)
      PROVE  q = p
  <2>1. PICK c : exit' = [exit EXCEPT ![q] = {c}]
    BY <1>7, Zenon DEF Rename, Exit
  <2> QED
    BY <1>1, <2>1, Zenon
<1> QED
  BY <1>3, <1>4, <1>5, <1>6, <1>7, Zenon DEF Next

\* Pairing again keeps the default forwards of every server.
THEOREM ForwardsAreKept == Spec => ForwardsSurvivePairing
<1> DEFINE Keeps ==
        \A p \in Pairs : pc[p] = "rename" /\ exit'[p] = {0} /\ clash = {} =>
            \A d \in Servers, s \in Parsed, t \in Parsed' : With(s, d) # {} =>
                forwards_of(t, d) = forwards_of(s, d)
<1>1. ASSUME IInv, Next
      PROVE  Keeps
  <2> SUFFICES ASSUME NEW p \in Pairs, pc[p] = "rename", exit'[p] = {0}, clash = {},
                      NEW d \in Servers, NEW s \in Parsed, NEW t \in Parsed', With(s, d) # {}
               PROVE  forwards_of(t, d) = forwards_of(s, d)
    BY Zenon
  <2>1. t = store[p]
    BY <1>1, SuccessIsRename, RenamedIsOwn, Zenon
  <2> QED
    BY <1>1, <2>1 DEF IInv, Undisturbed, NothingIsDropped, InWindow
<1>2. IInv /\ [Next]_vars => [Keeps]_vars
  BY <1>1, Zenon
<1> QED
  BY <1>2, Invariance, PTL DEF Spec, ForwardsSurvivePairing

-----------------------------------------------------------------------------
(***************************************************************************)
(* The type invariant.  What it says more than Types needs that the last   *)
(* attempt at a code ends the command.                                     *)
(***************************************************************************)
\* What only TypeOK says of the counters and the sets.
Counts ==
    /\ exit \in [Processes -> SUBSET (0 .. 5)]
    /\ tries \in [Pairs -> 0 .. MaxTries]
    /\ \A p \in Pairs : pc[p] = "code" => tries[p] < MaxTries
    /\ prompt \subseteq Pairs
    /\ waited \in [Pairs -> Nat]
    /\ keyed \subseteq Pairs

\* Every step ends with one of the exit codes of the command, or does not end
\* the process.
LEMMA ExitsAreCodes ==
    ASSUME IInv, Next
    PROVE  exit' = exit \/ \E p \in Processes, code \in 0 .. 5 : exit' = [exit EXCEPT ![p] = {code}]
<1> DEFINE G == exit' = exit \/ \E p \in Processes, code \in 0 .. 5 : exit' = [exit EXCEPT ![p] = {code}]
<1>e. ASSUME NEW p \in Processes, NEW code \in {0, 1, 2, 3, 4, 5}, Exit(p, code) PROVE G
  <2>1. code \in 0 .. 5
    OBVIOUS
  <2> QED
    BY <1>e, <2>1, Zenon DEF Exit
<1> SUFFICES G
  OBVIOUS
<1> HIDE DEF G
<1>u. exit' = exit => G
  BY Zenon DEF G
<1>1. ASSUME NEW p \in Pairs, Client(p) PROVE G
  <2>1. CASE ReadVerdict(p)
    <3>1. Head(wire[p]) \in Verdicts
      <4>1. wire[p] \in Seq(Frames) /\ wire[p] # << >> /\ \A k \in DOMAIN wire[p] : wire[p][k] \in Verdicts
        BY <2>1, Zenon DEF ReadVerdict, IInv, Types, FramesInOrder
      <4> QED
        BY <4>1
    <3>2. \/ Head(wire[p]) = "confirm" \/ Head(wire[p]) = "denied"
          \/ Head(wire[p]) = "expired" \/ Head(wire[p]) = "failed"
      BY <3>1, Zenon DEF Verdicts
    <3>3. exit' = exit \/ Exit(p, 3) \/ Exit(p, 2) \/ Exit(p, 1)
      BY <2>1, <3>2, ZenonT(40) DEF ReadVerdict
    <3> QED
      BY <1>e, <1>u, <3>3, Zenon
  <2>2. CASE DialFails(p)
    BY <1>e, <2>2, Zenon DEF DialFails
  <2>3. CASE CodeInvalid(p) \/ KeyLoad(p) \/ KeyCreate(p)
    BY <1>e, <1>u, <2>3, Zenon DEF CodeInvalid, KeyLoad, KeyCreate
  <2>4. CASE CodeOk(p) \/ KeyWrite(p) \/ Hello(p) \/ ReadWait(p) \/ LoadAndUpsert(p)
    BY <1>u, <2>4, Zenon DEF CodeOk, KeyWrite, Hello, ReadWait, LoadAndUpsert, Loaded
  <2>5. CASE NoWait(p) \/ VerdictLost(p) \/ VerdictTimeout(p)
    BY <1>e, <2>5, Zenon DEF NoWait, VerdictLost, VerdictTimeout
  <2> QED
    BY <1>1, <2>1, <2>2, <2>3, <2>4, <2>5, Zenon DEF Client
<1>2. ASSUME NEW p \in Pairs, Daemon(p) \/ TimePasses(p) PROVE G
  BY <1>u, <1>2, Zenon DEF Daemon, Confirm, Deny, ClientLost, TimePasses
<1>3. ASSUME NEW p \in Saves, LoadAndSetForwards(p) PROVE G
  BY <1>u, <1>3, Zenon DEF LoadAndSetForwards, Loaded
<1>4. ASSUME NEW p \in Processes,
             LoadFails(p) \/ Create(p) \/ Write(p) \/ Rename(p) \/ SaveFails(p) \/ Kill(p)
      PROVE  G
  BY <1>e, <1>u, <1>4, Zenon DEF LoadFails, Create, Write, Rename, SaveFails, Kill
<1> QED
  BY <1>1, <1>2, <1>3, <1>4, Zenon DEF Next

\* p goes on, and not back to asking for a code.
Move(p) == \E x \in Points \ {"code"} : pc' = [pc EXCEPT ![p] = x]

\* Every step moves at most one process, and only as Move allows.
LEMMA MovesOn ==
    ASSUME IInv, Next
    PROVE  pc' = pc \/ \E p \in Processes : Move(p)
<1> DEFINE G == pc' = pc \/ \E p \in Processes : Move(p)
<1>u. pc' = pc => G
  BY Zenon
<1>e. ASSUME NEW p \in Processes, NEW code, Exit(p, code) PROVE G
  BY <1>e, Zenon DEF Exit, Goto, Move, Points
<1>g. ASSUME NEW p \in Processes, NEW x \in Points \ {"code"}, Goto(p, x) PROVE G
  BY <1>g, Zenon DEF Goto, Move
<1>p. {"key", "keygen", "keywrite", "dial", "hello", "verdict", "load", "create", "write",
       "rename", "exited", "killed"} \subseteq Points \ {"code"}
  BY DEF Points
<1> SUFFICES G
  OBVIOUS
<1> HIDE DEF G
<1>1. ASSUME NEW p \in Pairs, Client(p) PROVE G
  <2>1. CASE ReadVerdict(p)
    <3>1. Head(wire[p]) \in Verdicts
      <4>1. wire[p] \in Seq(Frames) /\ wire[p] # << >> /\ \A k \in DOMAIN wire[p] : wire[p][k] \in Verdicts
        BY <2>1, Zenon DEF ReadVerdict, IInv, Types, FramesInOrder
      <4> QED
        BY <4>1
    <3>2. \/ Head(wire[p]) = "confirm" \/ Head(wire[p]) = "denied"
          \/ Head(wire[p]) = "expired" \/ Head(wire[p]) = "failed"
      BY <3>1, Zenon DEF Verdicts
    <3>3. Goto(p, "load") \/ Exit(p, 3) \/ Exit(p, 2) \/ Exit(p, 1)
      BY <2>1, <3>2, ZenonT(40) DEF ReadVerdict
    <3> QED
      BY <1>e, <1>g, <1>p, <3>3, Zenon
  <2>2. CASE DialFails(p) \/ CodeInvalid(p) \/ NoWait(p) \/ VerdictLost(p) \/ VerdictTimeout(p)
    BY <1>e, <1>u, <2>2, Zenon DEF DialFails, CodeInvalid, NoWait, VerdictLost, VerdictTimeout
  <2>3. CASE KeyLoad(p) \/ KeyCreate(p)
    <3>2. (\E code \in {1} : Exit(p, code)) \/ Goto(p, "keygen") \/ Goto(p, "dial") \/ Goto(p, "keywrite")
      BY <2>3, Zenon DEF KeyLoad, KeyCreate
    <3> QED
      BY <1>e, <1>g, <1>p, <3>2, Zenon
  <2>4. CASE CodeOk(p) \/ KeyWrite(p) \/ Hello(p) \/ ReadWait(p) \/ LoadAndUpsert(p)
    <3>2. \/ Goto(p, "key") \/ Goto(p, "dial") \/ Goto(p, "hello") \/ Goto(p, "verdict")
          \/ Goto(p, "create")
      BY <2>4, Zenon DEF CodeOk, KeyWrite, Hello, ReadWait, LoadAndUpsert, Loaded
    <3> QED
      BY <1>g, <1>p, <3>2, Zenon
  <2> QED
    BY <1>1, <2>1, <2>2, <2>3, <2>4, Zenon DEF Client
<1>2. ASSUME NEW p \in Pairs, Daemon(p) \/ TimePasses(p) PROVE G
  BY <1>u, <1>2, Zenon DEF Daemon, Confirm, Deny, ClientLost, TimePasses
<1>3. ASSUME NEW p \in Saves, LoadAndSetForwards(p) PROVE G
  BY <1>3, <1>g, <1>p, Zenon DEF LoadAndSetForwards, Loaded
<1>4. ASSUME NEW p \in Processes, Create(p) \/ Write(p) PROVE G
  BY <1>4, <1>g, <1>p, ZenonT(40) DEF Create, Write
<1>5. ASSUME NEW p \in Processes, LoadFails(p) \/ Rename(p) \/ SaveFails(p) PROVE G
  BY <1>e, <1>5, Zenon DEF LoadFails, Rename, SaveFails
<1>6. ASSUME NEW p \in Processes, Kill(p) PROVE G
  BY <1>6, <1>p, Zenon DEF Kill, Goto, Move, G
<1> QED
  BY <1>1, <1>2, <1>3, <1>4, <1>5, <1>6, Zenon DEF Next

\* The attempts at a code stay within their number, and the last one ends.
LEMMA TriesStep ==
    ASSUME IInv, Counts, Next
    PROVE  /\ tries' \in [Pairs -> 0 .. MaxTries]
           /\ \A p \in Pairs : pc'[p] = "code" => tries'[p] < MaxTries
<1>0. /\ pc \in [Processes -> Points] /\ tries \in [Pairs -> 0 .. MaxTries]
      /\ \A p \in Pairs : pc[p] = "code" => tries[p] < MaxTries
  BY Zenon DEF IInv, Types, Counts
<1>1. ASSUME NEW p \in Pairs, CodeInvalid(p)
      PROVE  /\ tries' \in [Pairs -> 0 .. MaxTries]
             /\ \A q \in Pairs : pc'[q] = "code" => tries'[q] < MaxTries
  <2>1. tries[p] < MaxTries /\ tries' = [tries EXCEPT ![p] = tries[p] + 1] /\ MaxTries \in Nat
    BY <1>0, <1>1, PairAssumption DEF CodeInvalid
  <2>2. tries' \in [Pairs -> 0 .. MaxTries]
    BY <1>0, <2>1
  <2>3. pc' = [pc EXCEPT ![p] = "exited"] \/ (pc' = pc /\ tries'[p] < MaxTries)
    BY <1>1, <2>1, <2>2 DEF CodeInvalid, Exit, Goto
  <2> QED
    BY <1>0, <2>1, <2>2, <2>3, SMTT(30)
<1>2. ASSUME tries' = tries
      PROVE  /\ tries' \in [Pairs -> 0 .. MaxTries]
             /\ \A q \in Pairs : pc'[q] = "code" => tries'[q] < MaxTries
  <2>1. \A q \in Pairs : pc'[q] = "code" => pc[q] = "code"
    BY <1>0, MovesOn, SMTT(30) DEF Move
  <2> QED
    BY <1>0, <1>2, <2>1, Zenon
<1>3. (\E p \in Pairs : CodeInvalid(p)) \/ tries' = tries
  BY ZenonT(40) DEF Next, Client, Daemon, CodeOk, KeyLoad, KeyCreate, KeyWrite, DialFails, Hello,
     ReadWait, NoWait, ReadVerdict, VerdictLost, VerdictTimeout, LoadAndUpsert, Loaded, Confirm,
     Deny, ClientLost, TimePasses, LoadAndSetForwards, LoadFails, Create, Write, Rename,
     SaveFails, Kill
<1> QED
  BY <1>1, <1>2, <1>3, Zenon

\* The prompts, the clocks and the keys written are those of pairings.
LEMMA SetsStep ==
    ASSUME Counts, Next
    PROVE  prompt' \subseteq Pairs /\ waited' \in [Pairs -> Nat] /\ keyed' \subseteq Pairs
<1>0. prompt \subseteq Pairs /\ waited \in [Pairs -> Nat] /\ keyed \subseteq Pairs
  BY Zenon DEF Counts
<1>1. prompt' = prompt \/ \E p \in Pairs : prompt' = prompt \cup {p} \/ prompt' = prompt \ {p}
  BY ZenonT(40) DEF Next, Client, Daemon, CodeOk, CodeInvalid, KeyLoad, KeyCreate, KeyWrite, DialFails,
     Hello, ReadWait, NoWait, ReadVerdict, VerdictLost, VerdictTimeout, LoadAndUpsert, Loaded,
     Confirm, Deny, ClientLost, TimePasses, LoadAndSetForwards, LoadFails, Create, Write, Rename,
     SaveFails, Kill
<1>2. waited' = waited \/ \E p \in Pairs : waited' = [waited EXCEPT ![p] = @ + 1]
  BY ZenonT(40) DEF Next, Client, Daemon, CodeOk, CodeInvalid, KeyLoad, KeyCreate, KeyWrite, DialFails,
     Hello, ReadWait, NoWait, ReadVerdict, VerdictLost, VerdictTimeout, LoadAndUpsert, Loaded,
     Confirm, Deny, ClientLost, TimePasses, LoadAndSetForwards, LoadFails, Create, Write, Rename,
     SaveFails, Kill
<1>3. keyed' = keyed \/ \E p \in Pairs : keyed' = keyed \cup {p}
  BY ZenonT(40) DEF Next, Client, Daemon, CodeOk, CodeInvalid, KeyLoad, KeyCreate, KeyWrite, DialFails,
     Hello, ReadWait, NoWait, ReadVerdict, VerdictLost, VerdictTimeout, LoadAndUpsert, Loaded,
     Confirm, Deny, ClientLost, TimePasses, LoadAndSetForwards, LoadFails, Create, Write, Rename,
     SaveFails, Kill
<1> QED
  BY <1>0, <1>1, <1>2, <1>3

\* The type invariant holds, for any number of processes and of attempts.
THEOREM Typed == Spec => []TypeOK
<1>1. Init => Counts
  BY PairAssumption DEF Init, Counts
<1>2. IInv /\ Counts /\ [Next]_vars => Counts'
  <2> SUFFICES ASSUME IInv, Counts, [Next]_vars
               PROVE  Counts'
    OBVIOUS
  <2>1. CASE Next
    <3>1. exit' \in [Processes -> SUBSET (0 .. 5)]
      BY <2>1, ExitsAreCodes DEF Counts
    <3> QED
      BY <2>1, <3>1, TriesStep, SetsStep, Zenon DEF Counts
  <2>2. CASE UNCHANGED vars
    BY <2>2, Zenon DEF vars, Counts
  <2> QED
    BY <2>1, <2>2, Zenon
<1>3. IInv /\ Counts => TypeOK
  BY Zenon DEF IInv, Types, Points, Frames, Counts, InodesAreFresh, TypeOK
<1> QED
  BY <1>1, <1>2, <1>3, Invariance, PTL DEF Spec

=============================================================================

----------------------------- MODULE PairClient -----------------------------
(***************************************************************************)
(* The client commands that write servers.toml: `tmite pair`               *)
(* (tmite/src/main.rs, client/pair.rs), with the daemon's side of the      *)
(* verdict, and the start of `tmite connect --save-defaults`.  Several     *)
(* such processes may run at once in one data directory.                   *)
(*                                                                         *)
(* A save writes servers.toml.tmp, a name all processes share, and renames *)
(* it (TmpFile).  The key file is created once, by the first command that  *)
(* finds none.                                                             *)
(*                                                                         *)
(* Time is counted in steps of PAIRING_READ_TIMEOUT from the moment the    *)
(* client starts to wait for the verdict.  Simplifications: the daemon's   *)
(* handler is reduced to what its client can see (Invite has the rest),    *)
(* and what happens after a command has saved is not modelled.             *)
(***************************************************************************)
EXTENDS ClientStore

CONSTANTS
    Pairs,        \* runs of `tmite pair`
    Saves,        \* runs of `tmite connect --save-defaults`
    MaxTries,     \* PAIR_MAX_ATTEMPTS
    ReadTimeout,  \* PAIRING_READ_TIMEOUT
    PromptTimeout \* PROMPT_TIMEOUT

ASSUME PairAssumption ==
    /\ Pairs \cap Saves = {}
    /\ MaxTries \in Nat \ {0}
    /\ ReadTimeout \in Nat \ {0}
    /\ PromptTimeout \in Nat

VARIABLES
    pc,          \* where a process stands
    exit,        \* its exit code
    tries,       \* invalid codes entered so far
    server,      \* the server whose code was entered
    wire,        \* frames the daemon has sent and the client not read, or "lost"
    prompt,      \* pairings that wait for the admin
    waited,      \* time since the wait for the verdict began
    registered,  \* pairings the daemon has recorded
    keyfile,     \* the key file: whose it is, if there is one
    keyed,       \* key files whose key has been written
    own,         \* the key a process works with
    store,       \* the list a process has in memory
    file, tmp, open, data,  \* servers.toml, as in TmpFile
    clash        \* history: processes whose load and rename overlapped

keyVars == <<keyfile, keyed, own>>
verdictVars == <<wire, prompt, waited, registered>>
pairVars == <<tries, server, verdictVars, keyVars>>
diskVars == <<file, tmp, open, data>>
fileVars == <<store, diskVars, clash>>
vars == <<pc, exit, pairVars, fileVars>>

Processes == Pairs \cup Saves

Disk == INSTANCE TmpFile WITH Writers <- Processes

\* An Option is a set: empty, or with one element.
Init ==
    /\ pc = [p \in Processes |-> IF p \in Pairs THEN "code" ELSE "load"]
    /\ exit = [p \in Processes |-> {}]
    /\ tries = [p \in Pairs |-> 0]
    /\ server \in [Pairs -> Servers]
    /\ wire = [p \in Pairs |-> << >>]
    /\ prompt = {}
    /\ waited = [p \in Pairs |-> 0]
    /\ registered = {}
    /\ keyfile = {} /\ keyed = {}
    /\ own = [p \in Pairs |-> {}]
    /\ store = [p \in Processes |-> << >>]
    /\ Disk!NoFile
    /\ clash = {}

Goto(p, point) == pc' = [pc EXCEPT ![p] = point]

Exit(p, code) ==
    /\ Goto(p, "exited")
    /\ exit' = [exit EXCEPT ![p] = {code}]

Gone(p) == pc[p] \in {"exited", "killed"}

-----------------------------------------------------------------------------
(***************************************************************************)
(* pair_cmd and run, up to the verdict, and the daemon's answers.          *)
(***************************************************************************)
CodeOk(p) ==
    /\ pc[p] = "code"
    /\ Goto(p, "key")
    /\ UNCHANGED <<exit, pairVars, fileVars>>

\* Mutant: the last attempt is followed by another.
CodeInvalidAgain(p) ==
    /\ pc[p] = "code"
    /\ tries' = [tries EXCEPT ![p] = @ + 1]
    /\ IF tries[p] > MaxTries THEN Exit(p, 2) ELSE UNCHANGED <<pc, exit>>
    /\ UNCHANGED <<server, verdictVars, keyVars, fileVars>>

CodeInvalid(p) ==
    /\ pc[p] = "code"
    /\ tries' = [tries EXCEPT ![p] = @ + 1]
    /\ IF tries'[p] >= MaxTries THEN Exit(p, 2) ELSE UNCHANGED <<pc, exit>>
    /\ UNCHANGED <<server, verdictVars, keyVars, fileVars>>

\* load_or_create_keypair.  A file without a key is an error.
KeyLoad(p) ==
    /\ pc[p] = "key"
    /\ IF keyfile = {} THEN Goto(p, "keygen") /\ UNCHANGED <<exit, own>>
       ELSE IF keyfile \cap keyed = {} THEN Exit(p, 1) /\ UNCHANGED own
       ELSE /\ own' = [own EXCEPT ![p] = keyfile]
            /\ Goto(p, "dial") /\ UNCHANGED exit
    /\ UNCHANGED <<tries, server, verdictVars, keyfile, keyed, fileVars>>

\* Mutant: a key file that has appeared meanwhile is replaced.
KeyCreateAnyway(p) ==
    /\ pc[p] = "keygen"
    /\ keyfile' = {p}
    /\ Goto(p, "keywrite") /\ UNCHANGED exit
    /\ UNCHANGED <<tries, server, verdictVars, keyed, own, fileVars>>

\* create_new: a key file that has appeared meanwhile is an error.
KeyCreate(p) ==
    /\ pc[p] = "keygen"
    /\ IF keyfile = {}
       THEN keyfile' = {p} /\ Goto(p, "keywrite") /\ UNCHANGED exit
       ELSE Exit(p, 1) /\ UNCHANGED keyfile
    /\ UNCHANGED <<tries, server, verdictVars, keyed, own, fileVars>>

KeyWrite(p) ==
    /\ pc[p] = "keywrite"
    /\ keyed' = keyed \cup {p}
    /\ own' = [own EXCEPT ![p] = {p}]
    /\ Goto(p, "dial")
    /\ UNCHANGED <<exit, tries, server, verdictVars, keyfile, fileVars>>

\* Lost before the hello is sent, out of time, or unreachable.
DialFails(p) ==
    /\ pc[p] = "dial"
    /\ \E code \in {1, 4, 5} : Exit(p, code)
    /\ UNCHANGED <<pairVars, fileVars>>

\* VERSION and PAIR_HELLO are sent; the daemon prompts its admin, or turns
\* the client away at once.
Hello(p) ==
    /\ pc[p] = "dial"
    /\ \/ prompt' = prompt \cup {p} /\ wire' = [wire EXCEPT ![p] = <<"wait">>]
       \/ UNCHANGED prompt /\ wire' = [wire EXCEPT ![p] = <<"deny">>]
    /\ Goto(p, "hello")
    /\ UNCHANGED <<exit, tries, server, waited, registered, keyVars, fileVars>>

ReadWait(p) ==
    /\ pc[p] = "hello"
    /\ wire[p] # << >> /\ Head(wire[p]) = "wait"
    /\ wire' = [wire EXCEPT ![p] = Tail(@)]
    /\ Goto(p, "verdict")
    /\ UNCHANGED <<exit, tries, server, prompt, waited, registered, keyVars, fileVars>>

\* Any other frame, a lost connection, or nothing in time.
NoWait(p) ==
    /\ pc[p] = "hello"
    /\ Exit(p, 1)
    /\ UNCHANGED <<pairVars, fileVars>>

\* The handler records the peer, then sends the confirmation.
Confirm(p) ==
    /\ p \in prompt
    /\ prompt' = prompt \ {p}
    /\ registered' = registered \cup {p}
    /\ wire' = [wire EXCEPT ![p] = Append(@, "confirm")]
    /\ UNCHANGED <<pc, exit, tries, server, waited, keyVars, fileVars>>

\* The admin says no, the peer cannot be recorded, or the prompt or the whole
\* invite expires.
Deny(p) ==
    /\ p \in prompt
    /\ \E why \in {"denied", "failed", "expired"} :
          wire' = [wire EXCEPT ![p] = Append(@, why)]
    /\ prompt' = prompt \ {p}
    /\ UNCHANGED <<pc, exit, tries, server, waited, registered, keyVars, fileVars>>

\* The handler's read fails when the client is gone.
ClientLost(p) ==
    /\ p \in prompt /\ Gone(p)
    /\ prompt' = prompt \ {p}
    /\ UNCHANGED <<pc, exit, tries, server, wire, waited, registered, keyVars, fileVars>>

\* The inner deadline of read_frame, or the outer one around it.
Deadline ==
    LET outer == PromptTimeout + ReadTimeout + ReadTimeout
    IN  IF ReadTimeout <= outer THEN ReadTimeout ELSE outer

TimePasses(p) ==
    /\ pc[p] = "verdict"
    /\ waited[p] < Deadline
    /\ p \in prompt => waited[p] < PromptTimeout
    /\ waited' = [waited EXCEPT ![p] = @ + 1]
    /\ UNCHANGED <<pc, exit, tries, server, wire, prompt, registered, keyVars, fileVars>>

\* Mutant: any verdict is taken for a confirmation.
ReadAnyVerdict(p) ==
    /\ pc[p] = "verdict"
    /\ wire[p] # << >>
    /\ wire' = [wire EXCEPT ![p] = Tail(@)]
    /\ Goto(p, "load") /\ UNCHANGED exit
    /\ UNCHANGED <<tries, server, prompt, waited, registered, keyVars, fileVars>>

\* The verdict is acknowledged, whatever it is; exit_code maps a denial.
ReadVerdict(p) ==
    /\ pc[p] = "verdict"
    /\ wire[p] # << >>
    /\ wire' = [wire EXCEPT ![p] = Tail(@)]
    /\ CASE Head(wire[p]) = "confirm" -> Goto(p, "load") /\ UNCHANGED exit
         [] Head(wire[p]) = "denied" -> Exit(p, 3)
         [] Head(wire[p]) = "expired" -> Exit(p, 2)
         [] Head(wire[p]) = "failed" -> Exit(p, 1)
    /\ UNCHANGED <<tries, server, prompt, waited, registered, keyVars, fileVars>>

\* The connection breaks, or a frame comes that is no verdict.
VerdictLost(p) ==
    /\ pc[p] = "verdict"
    /\ wire' = [wire EXCEPT ![p] = <<"lost">>]
    /\ Exit(p, 1)
    /\ UNCHANGED <<tries, server, prompt, waited, registered, keyVars, fileVars>>

\* FrameIoError::Timeout is a frame error, Elapsed is PairError::Timeout.
VerdictTimeout(p) ==
    /\ pc[p] = "verdict"
    /\ waited[p] >= Deadline
    /\ Exit(p, IF Deadline = ReadTimeout THEN 1 ELSE 4)
    /\ UNCHANGED <<pairVars, fileVars>>

-----------------------------------------------------------------------------
(***************************************************************************)
(* ClientStore::load and save around the change a command makes.  Between  *)
(* its load and its rename a process is in its window.                     *)
(***************************************************************************)
InWindow(p) == pc[p] \in {"create", "write", "rename"}

\* load: no file is an empty list, a file that does not parse an error.
Parsed == IF file = {} THEN {<< >>} ELSE Disk!Text \cap Seq(Entry)

Loaded(p, s) ==
    /\ store' = [store EXCEPT ![p] = s]
    /\ clash' = clash \cup (IF \E q \in Processes : InWindow(q)
                            THEN {q \in Processes : InWindow(q)} \cup {p} ELSE {})
    /\ Goto(p, "create")
    /\ UNCHANGED <<exit, pairVars, diskVars>>

\* Mutant: an entry is stored without the forwards of the one it replaces.
LoadAndUpsertBare(p) ==
    /\ pc[p] = "load"
    /\ \E s \in Parsed, n \in Names :
         /\ ~name_taken(s, n, server[p])
         /\ Loaded(p, upsert(s, [name |-> n, node |-> server[p], forwards |-> "none"]))

\* The name is the one the daemon chose, or the alias given with --name.
LoadAndUpsert(p) ==
    /\ pc[p] = "load"
    /\ \E s \in Parsed, n \in Names :
         /\ ~name_taken(s, n, server[p])
         /\ Loaded(p, upsert(s, [name |-> n, node |-> server[p],
                                 forwards |-> forwards_of(s, server[p])]))

LoadAndSetForwards(p) ==
    /\ pc[p] = "load"
    /\ \E s \in Parsed, n \in Names, f \in Defaults :
         /\ Named(s, n) # {}
         /\ Loaded(p, set_forwards(s, n, f))

\* The file does not parse, the name is taken, or no server has it.
LoadFails(p) ==
    /\ pc[p] = "load"
    /\ \/ Parsed = {}
       \/ \E s \in Parsed, n \in Names :
             IF p \in Pairs THEN name_taken(s, n, server[p]) ELSE Named(s, n) = {}
    /\ Exit(p, 1)
    /\ UNCHANGED <<pairVars, fileVars>>

\* ClientStore::save: fs::write, in two steps, and fs::rename.  A list written
\* over another one ends where it ends, and a longer text goes on from there.
\* The rest of it begins with a whole entry, or amid one, t[k].  What is left
\* of that one repeats or breaks a key, and the text does not parse; or it is
\* no more than keys the last entry of the list lacks, its forwards among them.
Rest(t, k) == SubSeq(t, k, Len(t))

Over(s, t) ==
    LET n == Len(s) IN
    {s \o Rest(t, k) : k \in 2 .. Len(t) + 1}
    \cup {s \o <<[forwards |-> t[k].forwards]>> \o Rest(t, k + 1) : k \in DOMAIN t}
    \cup {[s EXCEPT ![n].forwards = t[k].forwards] \o Rest(t, k + 1) :
             k \in {k \in DOMAIN t : s[n].forwards = "none"}}

Create(p) ==
    /\ pc[p] = "create"
    /\ Disk!CreateTmp(p)
    /\ Goto(p, "write")
    /\ UNCHANGED <<exit, pairVars, store, clash>>

Write(p) ==
    /\ pc[p] = "write"
    /\ \E text \in IF Disk!Under(p) = {} THEN {store[p]}
                   ELSE UNION {Over(store[p], t) : t \in Disk!Under(p)} : Disk!WriteTmp(p, text)
    /\ Goto(p, "rename")
    /\ UNCHANGED <<exit, pairVars, store, clash>>

\* Mutant: the file is replaced before it is written.
RenameEarly(p) ==
    /\ pc[p] \in {"write", "rename"}
    /\ IF Disk!Renamable
       THEN Exit(p, 0) /\ Disk!RenameTmp
       ELSE Exit(p, 1) /\ UNCHANGED diskVars
    /\ UNCHANGED <<pairVars, store, clash>>

Rename(p) ==
    /\ pc[p] = "rename"
    /\ IF Disk!Renamable
       THEN Exit(p, 0) /\ Disk!RenameTmp
       ELSE Exit(p, 1) /\ UNCHANGED diskVars
    /\ UNCHANGED <<pairVars, store, clash>>

\* The disk is full, or the directory cannot be written.
SaveFails(p) ==
    /\ InWindow(p)
    /\ Exit(p, 1)
    /\ UNCHANGED <<pairVars, fileVars>>

Kill(p) ==
    /\ ~Gone(p)
    /\ Goto(p, "killed")
    /\ UNCHANGED <<exit, pairVars, fileVars>>

-----------------------------------------------------------------------------
Client(p) ==
    \/ CodeOk(p) \/ CodeInvalid(p) \/ KeyLoad(p) \/ KeyCreate(p) \/ KeyWrite(p)
    \/ DialFails(p) \/ Hello(p) \/ ReadWait(p) \/ NoWait(p)
    \/ ReadVerdict(p) \/ VerdictLost(p) \/ VerdictTimeout(p) \/ LoadAndUpsert(p)

Daemon(p) == Confirm(p) \/ Deny(p) \/ ClientLost(p)

Next ==
    \/ \E p \in Pairs : Client(p) \/ Daemon(p) \/ TimePasses(p)
    \/ \E p \in Saves : LoadAndSetForwards(p)
    \/ \E p \in Processes :
          LoadFails(p) \/ Create(p) \/ Write(p) \/ Rename(p) \/ SaveFails(p) \/ Kill(p)

Spec == Init /\ [][Next]_vars

-----------------------------------------------------------------------------
\* Type invariant of the client's processes and of the files they share.
TypeOK ==
    /\ pc \in [Processes -> {"code", "key", "keygen", "keywrite", "dial", "hello", "verdict",
                             "load", "create", "write", "rename", "exited", "killed"}]
    /\ exit \in [Processes -> SUBSET (0 .. 5)]
    /\ tries \in [Pairs -> 0 .. MaxTries]
    /\ server \in [Pairs -> Servers]
    /\ wire \in [Pairs -> Seq({"wait", "deny", "confirm", "denied", "failed", "expired", "lost"})]
    /\ prompt \subseteq Pairs
    /\ waited \in [Pairs -> Nat]
    /\ registered \subseteq Pairs
    /\ keyfile \subseteq Pairs /\ keyed \subseteq Pairs
    /\ own \in [Pairs -> SUBSET Pairs]
    /\ store \in [Processes -> Seq(Entry)]
    /\ file \in SUBSET Processes /\ tmp \in SUBSET Processes
    /\ open \in [Processes -> SUBSET Processes]
    /\ data \in [Processes -> SUBSET Seq(Item)]
    /\ \A i \in Processes : \A s, t \in data[i] : s = t
    /\ clash \subseteq Processes

\* Commands that start together in a fresh data directory never work under two
\* node ids: the admin of every server compares, and records, the one that
\* stays in the key file.
OneIdentity == \A p, q \in Pairs : own[p] # {} /\ own[q] # {} => own[p] = own[q]

\* servers.toml never lists a name or a server twice ("pairing with a second
\* server can never silently overwrite an existing one", fsio.rs:189), unless
\* two processes saved at the same time: one text that ends amid another may
\* read as such a list.
FileIsDistinct == clash = {} => \A s \in Parsed : Distinct(s)

\* A process killed while it saves never damages servers.toml; only another
\* process that saves at the same time can leave a file that does not parse.
TornNeedsClash == Parsed = {} => clash # {}

\* A `tmite pair` that exits with 0 was recorded by the daemon, and its server
\* stays in servers.toml through every later command, unless two processes
\* saved at the same time.
PairedIsKept ==
    \A p \in Pairs : exit[p] = {0} =>
        /\ p \in registered
        /\ clash = {} => \A s \in Parsed : With(s, server[p]) # {}

\* "Re-pairing the same server keeps any saved default forwards" (pair.rs:178):
\* no pairing changes the forwards of a server, its own or another, unless
\* two processes saved at the same time.
ForwardsSurvivePairing ==
    [][\A p \in Pairs : pc[p] = "rename" /\ exit'[p] = {0} /\ clash = {} =>
          \A d \in Servers, s \in Parsed, t \in Parsed' : With(s, d) # {} =>
              forwards_of(t, d) = forwards_of(s, d)]_vars

-----------------------------------------------------------------------------
(***************************************************************************)
(* What the documentation says and the code does not do.                   *)
(***************************************************************************)
\* "Confirmation may legitimately take up to the 120 s prompt timeout plus
\* human latency; bound generously" (pair.rs:138): a client that is still
\* connected does not give up while its prompt is open and the prompt timeout
\* has not passed.
WaitsForTheAdmin ==
    \A p \in Pairs : p \in prompt /\ pc[p] = "exited" /\ wire[p] = << >> =>
        waited[p] >= PromptTimeout

=============================================================================

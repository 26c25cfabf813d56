---------------------------- MODULE ClientStore ----------------------------
(***************************************************************************)
(* The client's list of servers, ClientStore in tmite-core/src/fsio.rs, as *)
(* functions from a list to a list.  paired_at and the file's version are  *)
(* dropped; the default forwards of a server are one value.                *)
(***************************************************************************)
EXTENDS Naturals, Sequences

CONSTANTS
    Servers,   \* node ids of servers
    Names,     \* local names of servers
    Forwards   \* lists of default forwards

\* "none" stands for no default forwards.
Defaults == Forwards \cup {"none"}
Entry == [name : Names, node : Servers, forwards : Defaults]

\* What a text of servers.toml is made of: entries, and what is left of one
\* whose beginning was written over.
Item == Entry \cup [forwards : Defaults]

Named(s, n) == {i \in DOMAIN s : s[i].name = n}
With(s, d) == {i \in DOMAIN s : s[i].node = d}

\* Mutant: only an entry of the same server is looked at.
name_taken_never(s, n, d) == FALSE

name_taken(s, n, d) == \E i \in Named(s, n) : s[i].node # d

\* upsert, the name being free: the entry of the same server is replaced.
upsert(s, e) ==
    IF With(s, e.node) = {}
    THEN Append(s, e)
    ELSE [s EXCEPT ![CHOOSE i \in With(s, e.node) : \A j \in With(s, e.node) : i <= j] = e]

\* set_forwards of a name that is there.
set_forwards(s, n, f) ==
    [s EXCEPT ![CHOOSE i \in Named(s, n) : \A j \in Named(s, n) : i <= j].forwards = f]

\* get_by_node_id, as far as pairing again uses it.
forwards_of(s, d) ==
    IF With(s, d) = {} THEN "none"
    ELSE s[CHOOSE i \in With(s, d) : \A j \in With(s, d) : i <= j].forwards

\* No two entries share a name or a server.
Distinct(s) ==
    \A i, j \in DOMAIN s : s[i].name = s[j].name \/ s[i].node = s[j].node => i = j

=============================================================================

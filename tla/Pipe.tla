-------------------------------- MODULE Pipe --------------------------------
(***************************************************************************)
(* What a forwarded TCP connection promises its two applications: one byte *)
(* stream each way, delivered in order and without change, whose end is    *)
(* seen only after all of it, unless the connection was broken on the way  *)
(* (docs/design.md, section 7.5).  The directions are independent.         *)
(***************************************************************************)
EXTENDS Naturals, Sequences

CONSTANT
    Dirs    \* the two directions

VARIABLES
    sent,    \* what was written at the start of a direction
    closed,  \* directions whose writer has closed
    got,     \* what was read at the end of a direction
    eof,     \* directions whose reader has seen the end
    broken   \* the connection was refused, reset, lost or timed out

vars == <<sent, closed, got, eof, broken>>

Init ==
    /\ sent = [d \in Dirs |-> << >>]
    /\ closed = {}
    /\ got = [d \in Dirs |-> << >>]
    /\ eof = {}
    /\ broken = FALSE

Send(d) ==
    /\ d \notin closed
    /\ sent'[d] # << >>
    /\ sent' = [sent EXCEPT ![d] = Append(@, sent'[d][Len(sent'[d])])]
    /\ UNCHANGED <<closed, got, eof, broken>>

Close(d) ==
    /\ closed' = closed \cup {d}
    /\ UNCHANGED <<sent, got, eof, broken>>

Deliver(d) ==
    /\ d \notin eof
    /\ Len(got[d]) < Len(sent[d])
    /\ got' = [got EXCEPT ![d] = Append(@, sent[d][Len(got[d]) + 1])]
    /\ UNCHANGED <<sent, closed, eof, broken>>

End(d) ==
    /\ broken \/ (d \in closed /\ got[d] = sent[d])
    /\ eof' = eof \cup {d}
    /\ UNCHANGED <<sent, closed, got, broken>>

Break ==
    /\ broken' = TRUE
    /\ UNCHANGED <<sent, closed, got, eof>>

Next == Break \/ \E d \in Dirs : Send(d) \/ Close(d) \/ Deliver(d) \/ End(d)

Spec == Init /\ [][Next]_vars

=============================================================================

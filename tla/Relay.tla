------------------------------- MODULE Relay -------------------------------
(***************************************************************************)
(* One forwarded TCP connection from end to end: the request and its reply *)
(* as length-prefixed frames (tmite-proto/src/frame.rs,                    *)
(* tmite-core/src/stream_io.rs), then the relay of both directions by the  *)
(* client (relay_local in client/connect.rs) and by the daemon (relay and  *)
(* pump in daemon/main_ep.rs).                                             *)
(*                                                                         *)
(*   app  --lo-->  client  --qo-->  daemon  --to-->  target     ("out")    *)
(*   app  <--lb--  client  <--qb--  daemon  <--tb--  target     ("back")   *)
(*                                                                         *)
(* lo, lb, to, tb are TCP, qo and qb one QUIC stream.  A transport is a    *)
(* bounded buffer that its writer can finish and that can be cut: by a     *)
(* fault, or because its reader has dropped it.                            *)
(*                                                                         *)
(* Simplifications.  An application's bytes are numbered.  A frame is one  *)
(* symbol for its header, that holds the type and the length, and one      *)
(* symbol for every byte of its payload; it fits the stream's window.      *)
(***************************************************************************)
EXTENDS Naturals, Sequences

CONSTANTS
    Bytes,        \* bound: bytes written in a direction
    TcpWindow,    \* bytes a TCP connection buffers
    QuicWindow,   \* bytes a QUIC stream buffers
    PayloadLen,   \* length of a frame's payload
    IdleTimeout   \* TRUE if the daemon has an idle timeout for reads

ASSUME RelayAssumption ==
    /\ Bytes \in [{"out", "back"} -> 0 .. 99]
    /\ PayloadLen \in 0 .. 99
    /\ TcpWindow \in Nat \ {0}
    /\ QuicWindow \in Nat \ 0 .. PayloadLen
    /\ IdleTimeout \in BOOLEAN

VARIABLES
    sent, closed, got, eof, broken,  \* as in Pipe
    data,     \* what a transport holds
    fin,      \* transports whose writer has finished
    cut,      \* transports that are broken
    client,   \* where handle_local stands
    daemon,   \* where handle_stream stands
    left,     \* what read_frame still has to read, once it has the header
    pump,     \* where a pump stands
    buf,      \* what it has read and not yet written
    counted   \* tx_counter and rx_counter

appVars == <<sent, closed, got, eof>>
vars == <<appVars, broken, data, fin, cut, client, daemon, left, pump, buf, counted>>

Dirs == {"out", "back"}
Other(d) == IF d = "out" THEN "back" ELSE "out"

Local == {"lo", "lb"}
Quic == {"qo", "qb"}
Target == {"to", "tb"}
Transports == Local \cup Quic \cup Target

First(d) == IF d = "out" THEN "lo" ELSE "tb"
Last(d) == IF d = "out" THEN "to" ELSE "lb"

\* The pumps of the client and of the daemon, by direction.
Pumps == {"co", "cb", "do", "db"}
Source == [co |-> "lo", cb |-> "qb", do |-> "qo", db |-> "tb"]
Sink == [co |-> "qo", cb |-> "lb", do |-> "to", db |-> "qb"]
OfClient == {"co", "cb"}
OfDaemon == {"do", "db"}

\* Symbols of a frame; the bytes of the applications are below 100.
Payload == 100
FORWARD == 1000
OK == 2000
DENY == 3000

\* Mutant: the length includes the type's byte.
frame_bytes_overlong(type) == <<type + PayloadLen + 1>> \o [i \in 1 .. PayloadLen |-> Payload]

frame_bytes(type) == <<type + PayloadLen>> \o [i \in 1 .. PayloadLen |-> Payload]

\* An Option is a set: empty, or with one element.
Init ==
    /\ sent = [d \in Dirs |-> << >>]
    /\ closed = {}
    /\ got = [d \in Dirs |-> << >>]
    /\ eof = {}
    /\ broken = FALSE
    /\ data = [c \in Transports |-> << >>]
    /\ fin = {}
    /\ cut = {}
    /\ client = "request"
    /\ daemon = "frame"
    /\ left = [x \in {"client", "daemon"} |-> {}]
    /\ pump = [p \in Pumps |-> "idle"]
    /\ buf = [p \in Pumps |-> << >>]
    /\ counted = [d \in Dirs |-> 0]

\* Whoever drops a transport it reads from cuts it, unless it is at its end.
AtEnd(c) == c \in fin /\ data[c] = << >>

Cut(cs) ==
    /\ cut' = cut \cup cs
    /\ data' = [c \in Transports |-> IF c \in cs THEN << >> ELSE data[c]]

Put(c, bytes) == data' = [data EXCEPT ![c] = @ \o bytes]
Room(c) == Len(data[c]) < (IF c \in Quic THEN QuicWindow ELSE TcpWindow)

-----------------------------------------------------------------------------
(***************************************************************************)
(* The applications, and what goes wrong around them.                      *)
(***************************************************************************)
AppSend(d) ==
    /\ d \notin closed /\ First(d) \notin cut /\ Room(First(d))
    /\ Len(sent[d]) < Bytes[d]
    /\ sent' = [sent EXCEPT ![d] = Append(@, Len(@) + 1)]
    /\ Put(First(d), <<Len(sent[d]) + 1>>)
    /\ UNCHANGED <<closed, got, eof, broken, fin, cut, client, daemon, left, pump, buf,
                   counted>>

AppClose(d) ==
    /\ d \notin closed
    /\ closed' = closed \cup {d}
    /\ fin' = fin \cup {First(d)}
    /\ UNCHANGED <<sent, got, eof, broken, data, cut, client, daemon, left, pump, buf,
                   counted>>

AppRead(d) ==
    /\ d \notin eof
    /\ data[Last(d)] # << >>
    /\ got' = [got EXCEPT ![d] = Append(@, Head(data[Last(d)]))]
    /\ data' = [data EXCEPT ![Last(d)] = Tail(@)]
    /\ UNCHANGED <<sent, closed, eof, broken, fin, cut, client, daemon, left, pump, buf,
                   counted>>

AppEnd(d) ==
    /\ d \notin eof
    /\ AtEnd(Last(d)) \/ Last(d) \in cut
    /\ eof' = eof \cup {d}
    /\ UNCHANGED <<sent, closed, got, broken, data, fin, cut, client, daemon, left, pump,
                   buf, counted>>

\* The QUIC connection is lost, or a TCP connection is reset.
Fault ==
    /\ \E cs \in {Local, Quic, Target} : ~(cs \subseteq cut) /\ Cut(cs)
    /\ broken' = TRUE
    /\ UNCHANGED <<appVars, fin, client, daemon, left, pump, buf, counted>>

-----------------------------------------------------------------------------
(***************************************************************************)
(* The request.  read_frame reads the header, then as many bytes as it     *)
(* says, in whatever pieces they arrive.                                   *)
(***************************************************************************)
\* Mutant: a read takes what is there, as a buffered reader would.
read_frame_buffered(x, c) ==
    /\ data[c] # << >> /\ c \notin cut
    /\ data' = [data EXCEPT ![c] = << >>]
    /\ left' = [left EXCEPT ![x] = {0}]

read_frame(x, c) ==
    /\ data[c] # << >> /\ c \notin cut
    /\ data' = [data EXCEPT ![c] = Tail(@)]
    /\ left' = [left EXCEPT ![x] = IF @ = {} THEN {Head(data[c]) % 1000}
                                   ELSE {n - 1 : n \in @}]

Unreadable(c) == c \in cut \/ AtEnd(c)

\* Denied, lost or out of time: everything is dropped, the frame not sent
\* included, and the application sees the end of its connection.
ClientGivesUp ==
    /\ client' = "closed"
    /\ fin' = fin \cup {"qo", "lb"}
    /\ Cut({c \in {"lo", "qb"} : ~AtEnd(c)})
    /\ broken' = TRUE

Request ==
    /\ client = "request" /\ "qo" \notin cut
    /\ client' = "reply"
    /\ Put("qo", frame_bytes(FORWARD))
    /\ UNCHANGED <<appVars, broken, fin, cut, daemon, left, pump, buf, counted>>

ReadReply ==
    /\ client = "reply"
    /\ left["client"] # {0}
    /\ read_frame("client", "qb")
    /\ client' = IF left["client"] = {} /\ Head(data["qb"]) >= DENY THEN "denied" ELSE client
    /\ UNCHANGED <<appVars, broken, fin, cut, daemon, pump, buf, counted>>

\* No way to send the request, a DENY, or no complete reply in time.
ReplyFails ==
    /\ \/ client = "request" /\ "qo" \in cut
       \/ client = "reply" /\ left["client"] # {0}
       \/ client = "denied"
    /\ ClientGivesUp
    /\ UNCHANGED <<appVars, daemon, left, pump, buf, counted>>

StartClient ==
    /\ client = "reply" /\ left["client"] = {0}
    /\ client' = "relay"
    /\ pump' = [p \in Pumps |-> IF p \in OfClient THEN "read" ELSE pump[p]]
    /\ UNCHANGED <<appVars, broken, data, fin, cut, daemon, left, buf, counted>>

ReadForward ==
    /\ daemon = "frame"
    /\ left["daemon"] # {0}
    /\ read_frame("daemon", "qo")
    /\ UNCHANGED <<appVars, broken, fin, cut, client, daemon, pump, buf, counted>>

\* The stream ends or fails before the frame is complete, or a stream that was
\* opened does not bring it in time: no reply, and the stream is dropped.
ForwardFails ==
    /\ daemon = "frame" /\ left["daemon"] # {0}
    /\ Unreadable("qo") \/ client # "request"
    /\ daemon' = "closed"
    /\ fin' = fin \cup {"qb"}
    /\ Cut({c \in {"qo"} : ~AtEnd(c)})
    /\ broken' = TRUE
    /\ UNCHANGED <<appVars, client, left, pump, buf, counted>>

\* No rule, or the target cannot be reached: DENY, and the stream is dropped.
Refuse ==
    /\ daemon = "frame" /\ left["daemon"] = {0}
    /\ daemon' = "closed"
    /\ fin' = fin \cup {"qb"}
    /\ LET gone == {c \in {"qo"} : ~AtEnd(c)} IN
         /\ cut' = cut \cup gone
         /\ data' = [c \in Transports |->
                        CASE c \in gone -> << >>
                          [] c = "qb" /\ c \notin cut -> data[c] \o frame_bytes(DENY)
                          [] OTHER -> data[c]]
    /\ broken' = TRUE
    /\ UNCHANGED <<appVars, client, left, pump, buf, counted>>

\* The target is reached.  Without a stream for the OK the handler returns;
\* otherwise it relays.
StartDaemon ==
    /\ daemon = "frame" /\ left["daemon"] = {0}
    /\ IF "qb" \in cut
       THEN /\ daemon' = "closed"
            /\ fin' = fin \cup {"to"}
            /\ Cut({c \in {"tb", "qo"} : ~AtEnd(c)})
            /\ UNCHANGED pump
       ELSE /\ daemon' = "relay"
            /\ Put("qb", frame_bytes(OK))
            /\ pump' = [p \in Pumps |-> IF p \in OfDaemon THEN "read" ELSE pump[p]]
            /\ UNCHANGED <<fin, cut>>
    /\ UNCHANGED <<appVars, broken, client, left, buf, counted>>

-----------------------------------------------------------------------------
(***************************************************************************)
(* pump and pump_counted.  A read returns any part of what is there; what  *)
(* was read is written as the sink has room.  However a pump ends, its     *)
(* sink is finished (shutdown or finish).                                  *)
(***************************************************************************)
\* Mutant: the counter holds the last read.
CountLast(p, n) ==
    CASE p = "co" -> counted' = [counted EXCEPT !["out"] = n]
      [] p = "cb" -> counted' = [counted EXCEPT !["back"] = n]
      [] OTHER -> UNCHANGED counted

Count(p, n) ==
    CASE p = "co" -> counted' = [counted EXCEPT !["out"] = @ + n]
      [] p = "cb" -> counted' = [counted EXCEPT !["back"] = @ + n]
      [] OTHER -> UNCHANGED counted

PumpRead(p) ==
    /\ pump[p] = "read"
    /\ Source[p] \notin cut
    /\ \E n \in 1 .. Len(data[Source[p]]) :
         /\ buf' = [buf EXCEPT ![p] = SubSeq(data[Source[p]], 1, n)]
         /\ data' = [data EXCEPT ![Source[p]] = SubSeq(@, n + 1, Len(@))]
         /\ Count(p, n)
    /\ pump' = [pump EXCEPT ![p] = "write"]
    /\ UNCHANGED <<appVars, broken, fin, cut, client, daemon, left>>

PumpWrite(p) ==
    /\ pump[p] = "write"
    /\ Sink[p] \notin cut /\ Room(Sink[p])
    /\ Put(Sink[p], <<Head(buf[p])>>)
    /\ buf' = [buf EXCEPT ![p] = Tail(@)]
    /\ pump' = [pump EXCEPT ![p] = IF Len(buf[p]) = 1 THEN "read" ELSE "write"]
    /\ UNCHANGED <<appVars, broken, fin, cut, client, daemon, left, counted>>

\* Mutant: the end of the source is not passed on.
PumpEndsSilently(p) ==
    /\ \/ pump[p] = "read" /\ Unreadable(Source[p])
       \/ pump[p] = "write" /\ Sink[p] \in cut
    /\ pump' = [pump EXCEPT ![p] = "end"]
    /\ buf' = [buf EXCEPT ![p] = << >>]
    /\ UNCHANGED <<appVars, broken, data, fin, cut, client, daemon, left, counted>>

\* Mutant: a failed write does not end the copy.
PumpIgnoresWriteErrors(p) ==
    /\ pump[p] = "read" /\ Unreadable(Source[p])
    /\ pump' = [pump EXCEPT ![p] = "end"]
    /\ fin' = fin \cup {Sink[p]}
    /\ UNCHANGED <<appVars, broken, data, cut, client, daemon, left, buf, counted>>

\* The end of the source, a failed read or a failed write.
PumpEnds(p) ==
    /\ \/ pump[p] = "read" /\ Unreadable(Source[p])
       \/ pump[p] = "write" /\ Sink[p] \in cut
    /\ pump' = [pump EXCEPT ![p] = "end"]
    /\ buf' = [buf EXCEPT ![p] = << >>]
    /\ fin' = fin \cup {Sink[p]}
    /\ UNCHANGED <<appVars, broken, data, cut, client, daemon, left, counted>>

PumpIdle(p) ==
    /\ IdleTimeout /\ p \in OfDaemon
    /\ pump[p] = "read" /\ data[Source[p]] = << >> /\ ~Unreadable(Source[p])
    /\ pump' = [pump EXCEPT ![p] = "end"]
    /\ fin' = fin \cup {Sink[p]}
    /\ broken' = TRUE
    /\ UNCHANGED <<appVars, data, cut, client, daemon, left, buf, counted>>

\* Both directions have ended: the halves that were read from are dropped.
ClientReturns ==
    /\ client = "relay" /\ \A p \in OfClient : pump[p] = "end"
    /\ client' = "done"
    /\ Cut({c \in {"lo", "qb"} : ~AtEnd(c)})
    /\ UNCHANGED <<appVars, broken, fin, daemon, left, pump, buf, counted>>

DaemonReturns ==
    /\ daemon = "relay" /\ \A p \in OfDaemon : pump[p] = "end"
    /\ daemon' = "done"
    /\ Cut({c \in {"qo", "tb"} : ~AtEnd(c)})
    /\ UNCHANGED <<appVars, broken, fin, client, left, pump, buf, counted>>

-----------------------------------------------------------------------------
Pump(p) == PumpRead(p) \/ PumpWrite(p) \/ PumpEnds(p)

Client == Request \/ ReadReply \/ ReplyFails \/ StartClient \/ ClientReturns

Daemon == ReadForward \/ ForwardFails \/ Refuse \/ StartDaemon \/ DaemonReturns

App(d) == AppSend(d) \/ AppClose(d) \/ AppRead(d) \/ AppEnd(d)

Next ==
    \/ Client \/ Daemon \/ Fault
    \/ \E p \in Pumps : Pump(p) \/ PumpIdle(p)
    \/ \E d \in Dirs : App(d)

Spec == Init /\ [][Next]_vars

Over == client \in {"closed", "done"} /\ daemon \in {"closed", "done"}

(***************************************************************************)
(* Tasks are scheduled and frames have deadlines.  Of the applications it  *)
(* is assumed that they read what arrives, and that one whose connection   *)
(* has ended, or was cut, closes its side too.                             *)
(***************************************************************************)
CloseInReturn(d) == (Other(d) \in eof \/ First(d) \in cut) /\ AppClose(d)

Fairness ==
    /\ WF_vars(Client) /\ WF_vars(Daemon)
    /\ \A p \in Pumps : WF_vars(Pump(p))
    /\ \A d \in Dirs : WF_vars(AppRead(d)) /\ WF_vars(AppEnd(d)) /\ WF_vars(CloseInReturn(d))

FairSpec == Spec /\ Fairness

-----------------------------------------------------------------------------
\* Type invariant of the forwarded connection.
TypeOK ==
    /\ sent \in [Dirs -> Seq(Nat)] /\ got \in [Dirs -> Seq(Nat)]
    /\ closed \subseteq Dirs /\ eof \subseteq Dirs
    /\ broken \in BOOLEAN
    /\ data \in [Transports -> Seq(Nat)]
    /\ fin \subseteq Transports /\ cut \subseteq Transports
    /\ client \in {"request", "reply", "denied", "relay", "closed", "done"}
    /\ daemon \in {"frame", "relay", "closed", "done"}
    /\ left \in [{"client", "daemon"} -> SUBSET (0 .. PayloadLen)]
    /\ pump \in [Pumps -> {"idle", "read", "write", "end"}]
    /\ buf \in [Pumps -> Seq(Nat)]
    /\ counted \in [Dirs -> Nat]

\* The applications see the promise of Pipe.tla: no byte of a frame reaches
\* them, none of theirs is lost, changed or reordered, and the end of a
\* stream comes after all of it unless the connection was broken.
Promise == INSTANCE Pipe

KeepsPipe == Promise!Spec

\* The byte counters of the TUI lie between what was written and what has
\* arrived, in both directions and at every moment.
CountersAreBetween ==
    \A d \in Dirs : Len(got[d]) <= counted[d] /\ counted[d] <= Len(sent[d])

\* "Half-close propagation is mandatory" (docs/design.md:350): a side that
\* closes is seen to close, while the other direction stays open.
HalfCloseArrives == \A d \in Dirs : (d \in closed) ~> (d \in eof \/ broken)

\* Once one side has closed, or anything has gone wrong, both relays return:
\* no task is left behind with a socket and a stream.
RelaysReturn == (closed # {} \/ broken) ~> Over

=============================================================================

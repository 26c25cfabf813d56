---------------------------- MODULE RelayProofs ----------------------------
(***************************************************************************)
(* What holds of Relay for any sizes of the transports and any numbers of  *)
(* bytes and lengths of frames that RelayAssumption allows: the two relays *)
(* are a pipe, and what the TUI counts is between what was written and     *)
(* what has arrived.                                                       *)
(*                                                                         *)
(* The argument follows the bytes of a direction through its five places:  *)
(* a transport, a pump's buffer, the QUIC stream, the other pump's buffer  *)
(* and the last transport.  Four numbers say how many bytes have come past *)
(* each; every place holds the bytes between two of them, in order, and    *)
(* all of them while nothing was lost.  On the stream a frame may be in    *)
(* front of the bytes, so the invariant follows the frames as well.        *)
(***************************************************************************)
EXTENDS Relay, TLAPS

\* The QUIC transport of a direction, and the pumps before and behind it.
Mid(d) == IF d = "out" THEN "qo" ELSE "qb"
Before(d) == IF d = "out" THEN "co" ELSE "db"
Behind(d) == IF d = "out" THEN "do" ELSE "cb"

\* What the client has still to read of the reply, with its header.
Unread == IF left["client"] = {} THEN PayloadLen + 1 ELSE CHOOSE n \in left["client"] : TRUE

\* How much of what the QUIC transport holds belongs to a frame.
Skip(d) ==
    IF pump[Before(d)] = "idle" THEN Len(data[Mid(d)])
    ELSE IF d = "back" /\ client = "reply" /\ "qb" \notin cut THEN Unread
    ELSE 0

\* s holds the bytes after the first n, behind k symbols of something else.
Continues(s, k, n) == \A i \in 1 .. Len(s) : i > k => s[i] = n + i - k

\* What a place holds: bytes that come after the first lo, in order, and none
\* beyond the first hi; all of those while nothing was lost.
Link(lo, s, k, hi) == Continues(s, k, lo) /\ lo + Len(s) - k <= hi
Full(lo, s, k, hi) == lo + Len(s) - k = hi
Piece(lo, s, k, hi, whole) == Link(lo, s, k, hi) /\ (whole => Full(lo, s, k, hi))

\* The places of a direction, from the last one to the first.  As many bytes
\* have come past the last transport, past the pump behind the stream, past
\* the stream and past the pump before it as h, m, b and f say.  What a cut
\* transport held is lost, and what a pump held that has ended in a broken
\* connection.  The pump that counts is the one before the stream on the way
\* out and the one behind it on the way back.
Line(d, h, m, b, f) ==
    /\ Continues(got[d], 0, 0) /\ Continues(sent[d], 0, 0)
    /\ Piece(Len(got[d]), data[Last(d)], 0, h, Last(d) \notin cut)
    /\ Piece(h, buf[Behind(d)], 0, m, ~(pump[Behind(d)] = "end" /\ broken))
    /\ Piece(m, data[Mid(d)], Skip(d), b, Mid(d) \notin cut)
    /\ Piece(b, buf[Before(d)], 0, f, ~(pump[Before(d)] = "end" /\ broken))
    /\ Piece(f, data[First(d)], 0, Len(sent[d]), First(d) \notin cut)
    /\ counted[d] = IF d = "out" THEN f ELSE m

\* A direction is in order.
InOrder(d) == \E h, m, b, f \in Nat : Line(d, h, m, b, f)

\* A pump holds bytes exactly while it writes, and a transport that is cut
\* holds none.
Buffers ==
    /\ \A p \in Pumps : pump[p] = "write" <=> buf[p] # << >>
    /\ \A c \in cut : data[c] = << >>

\* Where the handlers stand.
Handlers ==
    /\ \A p \in OfClient : pump[p] = "idle" <=> client \notin {"relay", "done"}
    /\ \A p \in OfDaemon : pump[p] = "idle" <=> daemon \notin {"relay", "done"}
    /\ client = "request" => daemon \in {"frame", "closed"}
    /\ client \in {"relay", "done"} => daemon \in {"relay", "done"}
    /\ client = "reply" /\ left["client"] # {} => daemon \in {"relay", "done"}
    /\ client = "denied" => daemon = "closed"
    /\ client = "closed" => "qb" \in cut \cup fin
    /\ daemon = "frame" => "qb" \notin fin

\* What is left of the request ...
RequestFrame ==
    /\ left["daemon"] = {} \/ \E n \in 0 .. PayloadLen : left["daemon"] = {n}
    /\ client = "request" => data["qo"] = << >> /\ left["daemon"] = {}
    /\ daemon = "frame" /\ left["daemon"] = {} =>
         data["qo"] = << >> \/ (Len(data["qo"]) = PayloadLen + 1 /\ data["qo"][1] = FORWARD + PayloadLen)
    /\ daemon = "frame" => \A n \in left["daemon"] : Len(data["qo"]) <= n
    /\ daemon \in {"relay", "done"} /\ pump["co"] = "idle" => data["qo"] = << >>

\* ... and of the reply.
ReplyFrame ==
    /\ left["client"] = {} \/ \E n \in 0 .. PayloadLen : left["client"] = {n}
    /\ client = "request" => left["client"] = {}
    /\ daemon = "frame" => data["qb"] = << >>
    /\ client = "reply" /\ daemon \in {"relay", "done"} /\ "qb" \notin cut =>
         /\ Unread <= Len(data["qb"])
         /\ left["client"] = {} => data["qb"][1] = OK + PayloadLen
    /\ client \in {"request", "reply"} /\ daemon = "closed" /\ data["qb"] # << >> =>
         data["qb"][1] = DENY + PayloadLen

\* Unless the connection was broken nothing is cut, and each place ends after
\* the one before it, when that one is empty.
Ends ==
    ~broken =>
        /\ cut = {}
        /\ \A d \in Dirs :
             /\ First(d) \in fin => d \in closed
             /\ pump[Before(d)] = "end" => First(d) \in fin /\ data[First(d)] = << >>
             /\ Mid(d) \in fin => pump[Before(d)] = "end"
             /\ pump[Behind(d)] = "end" => Mid(d) \in fin /\ data[Mid(d)] = << >>
             /\ Last(d) \in fin => pump[Behind(d)] = "end"

\* The inductive invariant.
IInv ==
    /\ TypeOK
    /\ Buffers
    /\ Handlers
    /\ RequestFrame
    /\ ReplyFrame
    /\ Ends
    /\ \A d \in Dirs : InOrder(d)

\* An empty buffer or transport, by its length.
LEMMA EmptyIs == \A s \in Seq(Nat) : s = << >> <=> Len(s) = 0
  OBVIOUS

-----------------------------------------------------------------------------
(***************************************************************************)
(* Types.                                                                  *)
(***************************************************************************)
\* How the pumps are connected, and that the places of a direction are apart
\* from each other.
LEMMA Places ==
    ASSUME NEW d \in Dirs
    PROVE  /\ {First(d), Mid(d), Last(d)} \subseteq Transports
           /\ {Before(d), Behind(d)} \subseteq Pumps
           /\ First(d) # Mid(d) /\ First(d) # Last(d) /\ Mid(d) # Last(d) /\ Before(d) # Behind(d)
           /\ Source[Before(d)] = First(d) /\ Sink[Before(d)] = Mid(d)
           /\ Source[Behind(d)] = Mid(d) /\ Sink[Behind(d)] = Last(d)
  BY DEF Dirs, First, Mid, Last, Before, Behind, Source, Sink, Transports, Local, Quic, Target, Pumps

\* The places of the two directions are apart.
LEMMA Apart ==
    ASSUME NEW d \in Dirs, NEW e \in Dirs, d # e
    PROVE  /\ {First(d), Mid(d), Last(d)} \cap {First(e), Mid(e), Last(e)} = {}
           /\ {Before(d), Behind(d)} \cap {Before(e), Behind(e)} = {}
  BY DEF Dirs, First, Mid, Last, Before, Behind

\* Every pump is one of the two of a direction.
LEMMA PumpIsOf == \A p \in Pumps : \E d \in Dirs : p = Before(d) \/ p = Behind(d)
<1>1. Before("out") = "co" /\ Behind("out") = "do" /\ Before("back") = "db" /\ Behind("back") = "cb"
  BY DEF Before, Behind
<1> QED
  BY <1>1 DEF Pumps, Dirs

\* A frame fits its length into the header.
LEMMA FrameIs ==
    ASSUME NEW type \in {FORWARD, OK, DENY}
    PROVE  /\ frame_bytes(type) \in Seq(Nat)
           /\ Len(frame_bytes(type)) = PayloadLen + 1
           /\ frame_bytes(type)[1] = type + PayloadLen
           /\ (type + PayloadLen) % 1000 = PayloadLen
<1>0. PayloadLen \in Nat /\ PayloadLen <= 99 /\ type \in {1000, 2000, 3000}
  BY RelayAssumption DEF FORWARD, OK, DENY
<1> DEFINE rest == [i \in 1 .. PayloadLen |-> Payload]
<1>1. rest \in Seq(Nat) /\ Len(rest) = PayloadLen
  BY <1>0 DEF Payload
<1> HIDE DEF rest
<1>2. <<type + PayloadLen>> \in Seq(Nat) /\ Len(<<type + PayloadLen>>) = 1
      /\ <<type + PayloadLen>>[1] = type + PayloadLen
  BY <1>0
<1>3. frame_bytes(type) = <<type + PayloadLen>> \o rest
  BY DEF frame_bytes, rest
<1>4. (type + PayloadLen) % 1000 = PayloadLen
  BY <1>0
<1> QED
  BY <1>0, <1>1, <1>2, <1>3, <1>4

\* A number that read_frame still has to read.
LEMMA UnreadIs ==
    /\ left["client"] = {} => Unread = PayloadLen + 1
    /\ \A n : left["client"] = {n} => Unread = n
  BY DEF Unread

\* Taking a symbol off a frame of n symbols leaves n - 1.
LEMMA ReadFrame ==
    ASSUME NEW x, NEW c, read_frame(x, c), NEW n \in 1 .. PayloadLen, left[x] = {n}
    PROVE  left' = [left EXCEPT ![x] = {n - 1}]
<1>1. left[x] # {} /\ {m - 1 : m \in left[x]} = {n - 1}
  OBVIOUS
<1> QED
  BY <1>1, ZenonT(40) DEF read_frame

\* A header says how much there is to read.
LEMMA ReadHeader ==
    ASSUME NEW x, NEW c, read_frame(x, c), left[x] = {},
           Head(data[c]) \in {FORWARD + PayloadLen, OK + PayloadLen, DENY + PayloadLen}
    PROVE  left' = [left EXCEPT ![x] = {PayloadLen}]
<1> DEFINE h == Head(data[c])
<1> DEFINE n == h % 1000
<1>1. left' = [left EXCEPT ![x] = {n}]
  BY DEF read_frame
<1>2. h \in {FORWARD + PayloadLen, OK + PayloadLen, DENY + PayloadLen}
  OBVIOUS
<1> HIDE DEF h
<1>3. n = PayloadLen
  BY <1>2, RelayAssumption DEF FORWARD, OK, DENY
<1> HIDE DEF n
<1> QED
  BY <1>1, <1>3, Zenon

\* Reading the reply: the header says how long it is, and every symbol
\* after it makes it one shorter.
LEMMA ReplyRead ==
    ASSUME TypeOK, ReplyFrame, ReadReply
    PROVE  \/ left["client"] = {} /\ left' = [left EXCEPT !["client"] = {PayloadLen}]
           \/ \E n \in 1 .. PayloadLen :
                left["client"] = {n} /\ left' = [left EXCEPT !["client"] = {n - 1}]
<1>0. /\ client = "reply" /\ left["client"] # {0} /\ read_frame("client", "qb")
      /\ data["qb"] # << >> /\ "qb" \notin cut /\ PayloadLen \in Nat
  BY RelayAssumption DEF ReadReply, read_frame
<1>1. CASE left["client"] = {}
  <2>1. data["qb"][1] \in {OK + PayloadLen, DENY + PayloadLen}
    BY <1>0, <1>1, Zenon DEF TypeOK, ReplyFrame
  <2>2. Head(data["qb"]) = data["qb"][1]
    BY <1>0 DEF TypeOK, Transports, Quic
  <2> QED
    BY <1>0, <1>1, <2>1, <2>2, ReadHeader, Zenon
<1>2. CASE left["client"] # {}
  <2>1. PICK n \in 0 .. PayloadLen : left["client"] = {n}
    BY <1>2, Zenon DEF ReplyFrame
  <2>2. n \in 1 .. PayloadLen
    BY <1>0, <2>1
  <2> QED
    BY <1>0, <2>1, <2>2, ReadFrame, Zenon
<1> QED
  BY <1>1, <1>2

\* The same of the request.
LEMMA RequestRead ==
    ASSUME TypeOK, RequestFrame, ReadForward
    PROVE  \/ left["daemon"] = {} /\ left' = [left EXCEPT !["daemon"] = {PayloadLen}]
           \/ \E n \in 1 .. PayloadLen :
                left["daemon"] = {n} /\ left' = [left EXCEPT !["daemon"] = {n - 1}]
<1>0. /\ daemon = "frame" /\ left["daemon"] # {0} /\ read_frame("daemon", "qo")
      /\ data["qo"] # << >> /\ PayloadLen \in Nat
  BY RelayAssumption DEF ReadForward, read_frame
<1>1. CASE left["daemon"] = {}
  <2>1. data["qo"][1] = FORWARD + PayloadLen
    BY <1>0, <1>1 DEF RequestFrame
  <2>2. Head(data["qo"]) = data["qo"][1]
    BY <1>0 DEF TypeOK, Transports, Quic
  <2> QED
    BY <1>0, <1>1, <2>1, <2>2, ReadHeader, Zenon
<1>2. CASE left["daemon"] # {}
  <2>1. PICK n \in 0 .. PayloadLen : left["daemon"] = {n}
    BY <1>2 DEF RequestFrame
  <2>2. n \in 1 .. PayloadLen
    BY <1>0, <2>1
  <2> QED
    BY <1>0, <2>1, <2>2, ReadFrame
<1> QED
  BY <1>1, <1>2

\* What a write and the loss of transports do to the transports.
LEMMA PutIs ==
    ASSUME TypeOK, NEW c \in Transports, NEW bytes \in Seq(Nat), Put(c, bytes)
    PROVE  /\ data' \in [Transports -> Seq(Nat)]
           /\ data'[c] = data[c] \o bytes
           /\ \A e \in Transports \ {c} : data'[e] = data[e]
<1>1. data \in [Transports -> Seq(Nat)] /\ data[c] \o bytes \in Seq(Nat)
  BY DEF TypeOK
<1> QED
  BY <1>1, SMTT(30) DEF Put

\* Connections that break lose what they hold.
LEMMA CutIs ==
    ASSUME TypeOK, NEW cs \in SUBSET Transports, Cut(cs)
    PROVE  /\ data' \in [Transports -> Seq(Nat)]
           /\ cut' = cut \cup cs /\ cut' \subseteq Transports
           /\ \A c \in Transports : data'[c] = IF c \in cs THEN << >> ELSE data[c]
<1>1. data \in [Transports -> Seq(Nat)] /\ << >> \in Seq(Nat) /\ cut \subseteq Transports
  BY DEF TypeOK
<1> QED
  BY <1>1 DEF Cut

\* The same of a symbol that is read.
LEMMA TakeIs ==
    ASSUME TypeOK, NEW c \in Transports, data[c] # << >>, data' = [data EXCEPT ![c] = Tail(@)]
    PROVE  /\ data' \in [Transports -> Seq(Nat)]
           /\ data'[c] = Tail(data[c]) /\ Len(data'[c]) = Len(data[c]) - 1
           /\ Head(data[c]) \in Nat
           /\ \A e \in Transports \ {c} : data'[e] = data[e]
<1>1. data \in [Transports -> Seq(Nat)] /\ data[c] \in Seq(Nat)
  BY DEF TypeOK
<1>2. Tail(data[c]) \in Seq(Nat) /\ Len(Tail(data[c])) = Len(data[c]) - 1 /\ Head(data[c]) \in Nat
  BY <1>1
<1> QED
  BY <1>1, <1>2, Zenon

\* Who counts, and what.
LEMMA CountIs ==
    ASSUME counted \in [Dirs -> Nat], NEW p \in Pumps, NEW n \in Nat, Count(p, n)
    PROVE  /\ counted' \in [Dirs -> Nat]
           /\ counted'["out"] = IF p = "co" THEN counted["out"] + n ELSE counted["out"]
           /\ counted'["back"] = IF p = "cb" THEN counted["back"] + n ELSE counted["back"]
<1>1. CASE p = "co"
  <2>1. counted' = [counted EXCEPT !["out"] = counted["out"] + n]
    BY <1>1, Zenon DEF Count
  <2> QED
    BY <1>1, <2>1 DEF Dirs
<1>2. CASE p = "cb"
  <2>1. counted' = [counted EXCEPT !["back"] = counted["back"] + n]
    BY <1>2, Zenon DEF Count
  <2> QED
    BY <1>2, <2>1 DEF Dirs
<1>3. CASE p # "co" /\ p # "cb"
  <2>1. counted' = counted
    BY <1>3 DEF Count
  <2> QED
    BY <1>3, <2>1, Zenon
<1> QED
  BY <1>1, <1>2, <1>3

\* What a pump reads.
LEMMA PumpReadIs ==
    ASSUME TypeOK, NEW p \in Pumps, PumpRead(p)
    PROVE  \E n \in 1 .. Len(data[Source[p]]) :
             /\ buf' \in [Pumps -> Seq(Nat)]
             /\ buf'[p] = SubSeq(data[Source[p]], 1, n)
             /\ \A q \in Pumps \ {p} : buf'[q] = buf[q]
             /\ data' \in [Transports -> Seq(Nat)]
             /\ data'[Source[p]] = SubSeq(data[Source[p]], n + 1, Len(data[Source[p]]))
             /\ \A e \in Transports \ {Source[p]} : data'[e] = data[e]
             /\ Count(p, n) /\ counted' \in [Dirs -> Nat]
<1>0. Source[p] \in Transports
  BY DEF Source, Pumps, Transports, Local, Quic, Target
<1> DEFINE s == data[Source[p]]
<1>1. s \in Seq(Nat) /\ Len(s) \in Nat
  BY <1>0 DEF TypeOK
<1>2. PICK n \in 1 .. Len(s) :
             /\ buf' = [buf EXCEPT ![p] = SubSeq(s, 1, n)]
             /\ data' = [data EXCEPT ![Source[p]] = SubSeq(s, n + 1, Len(s))]
             /\ Count(p, n)
  BY Zenon DEF PumpRead
<1>3. buf \in [Pumps -> Seq(Nat)] /\ data \in [Transports -> Seq(Nat)] /\ counted \in [Dirs -> Nat]
  BY DEF TypeOK
<1> HIDE DEF s
<1>4. SubSeq(s, 1, n) \in Seq(Nat) /\ SubSeq(s, n + 1, Len(s)) \in Seq(Nat)
  BY <1>1, SMTT(30)
<1>5. counted' \in [Dirs -> Nat]
  BY <1>1, <1>2, <1>3, CountIs
<1>6. /\ buf' \in [Pumps -> Seq(Nat)]
      /\ buf'[p] = SubSeq(s, 1, n)
      /\ \A q \in Pumps \ {p} : buf'[q] = buf[q]
  BY <1>2, <1>3, <1>4, Zenon
<1>7. /\ data' \in [Transports -> Seq(Nat)]
      /\ data'[Source[p]] = SubSeq(s, n + 1, Len(s))
      /\ \A e \in Transports \ {Source[p]} : data'[e] = data[e]
  BY <1>0, <1>2, <1>3, <1>4, Zenon
<1> QED
  BY <1>2, <1>5, <1>6, <1>7, Zenon DEF s

\* What a pump writes.
LEMMA PumpWriteIs ==
    ASSUME TypeOK, Buffers, NEW p \in Pumps, PumpWrite(p)
    PROVE  /\ buf[p] # << >>
           /\ buf' \in [Pumps -> Seq(Nat)]
           /\ buf'[p] = Tail(buf[p]) /\ Len(buf'[p]) = Len(buf[p]) - 1
           /\ \A q \in Pumps \ {p} : buf'[q] = buf[q]
           /\ Head(buf[p]) \in Nat
           /\ data' \in [Transports -> Seq(Nat)]
           /\ data'[Sink[p]] = data[Sink[p]] \o <<Head(buf[p])>>
           /\ \A e \in Transports \ {Sink[p]} : data'[e] = data[e]
<1>0. Sink[p] \in Transports
  BY DEF Sink, Pumps, Transports, Local, Quic, Target
<1>1. buf[p] # << >> /\ buf[p] \in Seq(Nat) /\ buf \in [Pumps -> Seq(Nat)]
  BY Zenon DEF TypeOK, Buffers, PumpWrite
<1>2. Tail(buf[p]) \in Seq(Nat) /\ Len(Tail(buf[p])) = Len(buf[p]) - 1 /\ Head(buf[p]) \in Nat
  BY <1>1
<1>3. <<Head(buf[p])>> \in Seq(Nat)
  BY <1>2
<1>4. Put(Sink[p], <<Head(buf[p])>>) /\ buf' = [buf EXCEPT ![p] = Tail(@)]
  BY Zenon DEF PumpWrite
<1>5. /\ buf' \in [Pumps -> Seq(Nat)]
      /\ buf'[p] = Tail(buf[p])
      /\ \A q \in Pumps \ {p} : buf'[q] = buf[q]
  BY <1>1, <1>2, <1>4, Zenon
<1> QED
  BY <1>0, <1>1, <1>2, <1>3, <1>4, <1>5, PutIs, ZenonT(40)

\* What a refusal leaves of the transports.
LEMMA RefuseIs ==
    ASSUME TypeOK, Refuse
    PROVE  /\ data' \in [Transports -> Seq(Nat)]
           /\ data'["qb"] = IF "qb" \in cut THEN data["qb"] ELSE data["qb"] \o frame_bytes(DENY)
           /\ \A c \in Transports \ Quic : data'[c] = data[c]
           /\ IF AtEnd("qo") THEN cut' = cut /\ data'["qo"] = data["qo"]
                             ELSE cut' = cut \cup {"qo"} /\ data'["qo"] = << >>
<1> DEFINE gone == {c \in {"qo"} : ~AtEnd(c)}
<1>1. /\ cut' = cut \cup gone
      /\ data' = [c \in Transports |->
                        CASE c \in gone -> << >>
                          [] c = "qb" /\ c \notin cut -> data[c] \o frame_bytes(DENY)
                          [] OTHER -> data[c]]
  BY DEF Refuse
<1>2. gone = IF AtEnd("qo") THEN {} ELSE {"qo"}
  BY Zenon
<1> HIDE DEF gone
<1>3. /\ data \in [Transports -> Seq(Nat)] /\ << >> \in Seq(Nat)
      /\ {"qo", "qb"} \subseteq Transports /\ frame_bytes(DENY) \in Seq(Nat)
  BY FrameIs DEF TypeOK, Transports, Quic
<1>4. data["qb"] \o frame_bytes(DENY) \in Seq(Nat)
  BY <1>3
<1>5. \A c \in Transports : data'[c] = IF c \in gone THEN << >>
                                       ELSE IF c = "qb" /\ c \notin cut THEN data[c] \o frame_bytes(DENY)
                                       ELSE data[c]
  <2> TAKE c \in Transports
  <2>1. data'[c] = CASE c \in gone -> << >>
                     [] c = "qb" /\ c \notin cut -> data[c] \o frame_bytes(DENY)
                     [] OTHER -> data[c]
    BY <1>1, Zenon
  <2>2. ~(c \in gone /\ c = "qb")
    BY <1>2, Zenon
  <2> QED
    BY <2>1, <2>2, Zenon
<1>6. data' \in [Transports -> Seq(Nat)]
  BY <1>1, <1>3, <1>4, Zenon
<1>7. \A c \in Transports \ Quic : data'[c] = data[c]
  BY <1>2, <1>5 DEF Quic
<1>8. "qb" \notin gone
  BY <1>2, Zenon
<1>9. data'["qb"] = IF "qb" \in cut THEN data["qb"] ELSE data["qb"] \o frame_bytes(DENY)
  BY <1>3, <1>5, <1>8, Zenon
<1>10. IF AtEnd("qo") THEN cut' = cut /\ data'["qo"] = data["qo"]
                      ELSE cut' = cut \cup {"qo"} /\ data'["qo"] = << >>
  BY <1>1, <1>2, <1>3, <1>5, Zenon
<1> QED
  BY <1>6, <1>7, <1>9, <1>10, Zenon

\* The same of a request that does not come.
LEMMA ForwardFailsIs ==
    ASSUME TypeOK, ForwardFails
    PROVE  /\ data' \in [Transports -> Seq(Nat)] /\ cut \subseteq cut' /\ cut' \subseteq Transports
           /\ \A c \in cut' : data'[c] = << >> \/ (c \in cut /\ data'[c] = data[c])
           /\ \A c \in Transports \ {"qo"} : data'[c] = data[c]
           /\ data'["qo"] = data["qo"] \/ data'["qo"] = << >>
<1> DEFINE gone == {c \in {"qo"} : ~AtEnd(c)}
<1>1. Cut(gone) /\ gone \in SUBSET Transports /\ gone \subseteq {"qo"} /\ "qo" \in Transports
  BY Zenon DEF ForwardFails, Transports, Quic
<1> HIDE DEF gone
<1>2. /\ data' \in [Transports -> Seq(Nat)]
      /\ cut' = cut \cup gone /\ cut' \subseteq Transports
      /\ \A c \in Transports : data'[c] = IF c \in gone THEN << >> ELSE data[c]
  BY <1>1, CutIs, Zenon
<1> QED
  BY <1>1, <1>2, Zenon

\* Every step keeps the types.
LEMMA TypeStep ==
    ASSUME TypeOK, Buffers, RequestFrame, ReplyFrame, [Next]_vars
    PROVE  TypeOK'
<1>0. PayloadLen \in Nat
  BY RelayAssumption
<1>1. CASE Request
  <2>0. frame_bytes(FORWARD) \in Seq(Nat) /\ "qo" \in Transports
    BY FrameIs DEF Transports, Quic
  <2>1. data' \in [Transports -> Seq(Nat)]
    BY <1>1, <2>0, PutIs, Zenon DEF Request
  <2> QED
    BY <1>1, <2>1, Zenon DEF TypeOK, Request, appVars
<1>2. CASE ReadReply
  <2>1. data' \in [Transports -> Seq(Nat)]
    BY <1>2, TakeIs, Zenon DEF ReadReply, read_frame, Transports, Quic
  <2>2. left' \in [{"client", "daemon"} -> SUBSET (0 .. PayloadLen)]
    BY <1>0, <1>2, ReplyRead DEF TypeOK
  <2> QED
    BY <1>2, <2>1, <2>2, Zenon DEF TypeOK, ReadReply, appVars
<1>3. CASE ReplyFails
  <2>1. data' \in [Transports -> Seq(Nat)] /\ cut' \subseteq Transports
    BY <1>3, CutIs, Zenon DEF ReplyFails, ClientGivesUp, Transports, Local, Quic
  <2>2. fin' \subseteq Transports
    BY <1>3, Zenon DEF TypeOK, ReplyFails, ClientGivesUp, Transports, Local, Quic
  <2> QED
    BY <1>3, <2>1, <2>2, Zenon DEF TypeOK, ReplyFails, ClientGivesUp, appVars
<1>4. CASE StartClient
  BY <1>4, Zenon DEF TypeOK, StartClient, appVars
<1>5. CASE ClientReturns
  <2>1. data' \in [Transports -> Seq(Nat)] /\ cut' \subseteq Transports
    BY <1>5, CutIs, Zenon DEF ClientReturns, Transports, Local, Quic
  <2> QED
    BY <1>5, <2>1, Zenon DEF TypeOK, ClientReturns, appVars
<1>6. CASE ReadForward
  <2>1. data' \in [Transports -> Seq(Nat)]
    BY <1>6, TakeIs, Zenon DEF ReadForward, read_frame, Transports, Quic
  <2>2. left' \in [{"client", "daemon"} -> SUBSET (0 .. PayloadLen)]
    BY <1>0, <1>6, RequestRead, SMTT(30) DEF TypeOK
  <2> QED
    BY <1>6, <2>1, <2>2, Zenon DEF TypeOK, ReadForward, appVars
<1>7. CASE ForwardFails
  <2>1. data' \in [Transports -> Seq(Nat)] /\ cut' \subseteq Transports
    BY <1>7, ForwardFailsIs, Zenon
  <2>2. fin' \subseteq Transports
    BY <1>7, Zenon DEF TypeOK, ForwardFails, Transports, Quic
  <2> QED
    BY <1>7, <2>1, <2>2, Zenon DEF TypeOK, ForwardFails, appVars
<1>8. CASE Refuse
  <2>1. data' \in [Transports -> Seq(Nat)]
    BY <1>8, RefuseIs
  <2>2. fin' \subseteq Transports /\ cut' \subseteq Transports
    BY <1>8, Zenon DEF TypeOK, Refuse, Transports, Quic
  <2> QED
    BY <1>8, <2>1, <2>2, Zenon DEF TypeOK, Refuse, appVars
<1>9. CASE StartDaemon
  <2>1. CASE "qb" \in cut
    <3>1. data' \in [Transports -> Seq(Nat)] /\ cut' \subseteq Transports
      BY <1>9, <2>1, CutIs, Zenon DEF StartDaemon, Transports, Target, Quic
    <3>2. fin' \subseteq Transports
      BY <1>9, <2>1, Zenon DEF TypeOK, StartDaemon, Transports, Target
    <3> QED
      BY <1>9, <2>1, <3>1, <3>2, Zenon DEF TypeOK, StartDaemon, appVars
  <2>2. CASE "qb" \notin cut
    <3>0. frame_bytes(OK) \in Seq(Nat) /\ "qb" \in Transports
      BY FrameIs DEF Transports, Quic
    <3>1. data' \in [Transports -> Seq(Nat)]
      BY <1>9, <2>2, <3>0, PutIs, Zenon DEF StartDaemon
    <3> QED
      BY <1>9, <2>2, <3>1, Zenon DEF TypeOK, StartDaemon, appVars
  <2> QED
    BY <2>1, <2>2, Zenon
<1>10. CASE DaemonReturns
  <2>1. data' \in [Transports -> Seq(Nat)] /\ cut' \subseteq Transports
    BY <1>10, CutIs, Zenon DEF DaemonReturns, Transports, Target, Quic
  <2> QED
    BY <1>10, <2>1 DEF TypeOK, DaemonReturns, appVars
<1>11. CASE Fault
  <2>1. data' \in [Transports -> Seq(Nat)] /\ cut' \subseteq Transports
    BY <1>11, CutIs, Zenon DEF Fault, Transports
  <2> QED
    BY <1>11, <2>1, Zenon DEF TypeOK, Fault, appVars
<1>12. ASSUME NEW p \in Pumps, PumpRead(p) \/ PumpWrite(p) \/ PumpEnds(p) \/ PumpIdle(p)
       PROVE  TypeOK'
  <2>0. Sink[p] \in Transports /\ << >> \in Seq(Nat)
    BY DEF Sink, Pumps, Transports, Local, Quic, Target
  <2>1. CASE PumpRead(p)
    BY <2>1, PumpReadIs, Zenon DEF TypeOK, PumpRead, appVars
  <2>2. CASE PumpWrite(p)
    BY <2>2, PumpWriteIs, Zenon DEF TypeOK, PumpWrite, appVars
  <2>3. CASE PumpEnds(p)
    BY <2>0, <2>3, Zenon DEF TypeOK, PumpEnds, appVars
  <2>4. CASE PumpIdle(p)
    BY <2>0, <2>4, Zenon DEF TypeOK, PumpIdle, appVars
  <2> QED
    BY <1>12, <2>1, <2>2, <2>3, <2>4, Zenon
<1>13. ASSUME NEW d \in Dirs, AppSend(d) \/ AppClose(d) \/ AppRead(d) \/ AppEnd(d)
       PROVE  TypeOK'
  <2>0. First(d) \in Transports /\ Last(d) \in Transports
    BY Places, Zenon
  <2>1. CASE AppSend(d)
    <3>1. Len(sent[d]) + 1 \in Nat /\ sent[d] \in Seq(Nat)
      BY DEF TypeOK
    <3>2. <<Len(sent[d]) + 1>> \in Seq(Nat) /\ Append(sent[d], Len(sent[d]) + 1) \in Seq(Nat)
      BY <3>1
    <3>3. data' \in [Transports -> Seq(Nat)]
      BY <2>0, <2>1, <3>2, PutIs, Zenon DEF AppSend
    <3>4. sent' \in [Dirs -> Seq(Nat)]
      BY <2>1, <3>2, Zenon DEF AppSend, TypeOK
    <3> QED
      BY <2>1, <3>3, <3>4, Zenon DEF TypeOK, AppSend
  <2>2. CASE AppClose(d)
    BY <2>0, <2>2, Zenon DEF TypeOK, AppClose
  <2>3. CASE AppRead(d)
    <3>1. data' \in [Transports -> Seq(Nat)] /\ Head(data[Last(d)]) \in Nat
      BY <2>0, <2>3, TakeIs, Zenon DEF AppRead
    <3>2. got' \in [Dirs -> Seq(Nat)]
      BY <2>3, <3>1 DEF AppRead, TypeOK
    <3> QED
      BY <2>3, <3>1, <3>2, Zenon DEF TypeOK, AppRead
  <2>4. CASE AppEnd(d)
    BY <2>4, Zenon DEF TypeOK, AppEnd
  <2> QED
    BY <1>13, <2>1, <2>2, <2>3, <2>4
<1>14. CASE UNCHANGED vars
  BY <1>14 DEF TypeOK, vars, appVars
<1> QED
  BY Zenon, <1>1, <1>2, <1>3, <1>4, <1>5, <1>6, <1>7, <1>8, <1>9, <1>10, <1>11, <1>12, <1>13, <1>14,
     Zenon DEF Next, Client, Daemon, Pump, App

-----------------------------------------------------------------------------
(***************************************************************************)
(* Buffers, handlers and frames.                                           *)
(***************************************************************************)
\* A step that leaves the pumps alone and empties what it cuts.
LEMMA BuffersKept ==
    ASSUME TypeOK, Buffers, UNCHANGED <<pump, buf>>,
           \A c \in cut' : c \in Transports /\ (data'[c] = << >> \/ (c \in cut /\ data'[c] = data[c]))
    PROVE  Buffers'
  BY DEF Buffers

\* A pump holds bytes exactly while it writes; a transport that is cut holds
\* none.
LEMMA BuffersStep ==
    ASSUME TypeOK, Buffers, Handlers, [Next]_vars
    PROVE  Buffers'
<1>0. cut \subseteq Transports /\ \A c \in cut : data[c] = << >>
  BY DEF TypeOK, Buffers
<1>1. CASE Request
  <2>0. frame_bytes(FORWARD) \in Seq(Nat) /\ "qo" \in Transports
    BY FrameIs DEF Transports, Quic
  <2>1. "qo" \notin cut /\ cut' = cut /\ \A e \in Transports \ {"qo"} : data'[e] = data[e]
    BY <1>1, <2>0, PutIs, Zenon DEF Request
  <2> QED
    BY <1>0, <1>1, <2>1, BuffersKept, Zenon DEF Request
<1>2. CASE ReadReply
  <2>1. "qb" \notin cut /\ cut' = cut /\ \A e \in Transports \ {"qb"} : data'[e] = data[e]
    BY <1>2, TakeIs DEF ReadReply, read_frame, Transports, Quic
  <2> QED
    BY <1>0, <1>2, <2>1, BuffersKept, Zenon DEF ReadReply
<1>3. CASE ReplyFails
  BY <1>0, <1>3, CutIs, BuffersKept, Zenon DEF ReplyFails, ClientGivesUp, Transports, Local, Quic
<1>4. CASE StartClient
  BY <1>4, Zenon DEF StartClient, Handlers, Buffers, OfClient, TypeOK
<1>5. CASE ClientReturns
  BY <1>0, <1>5, CutIs, BuffersKept, Zenon DEF ClientReturns, Transports, Local, Quic
<1>6. CASE ReadForward
  <2>1. "qo" \notin cut /\ cut' = cut /\ \A e \in Transports \ {"qo"} : data'[e] = data[e]
    BY <1>6, TakeIs, Zenon DEF ReadForward, read_frame, Transports, Quic
  <2> QED
    BY <1>0, <1>6, <2>1, BuffersKept, Zenon DEF ReadForward
<1>7. CASE ForwardFails
  BY <1>0, <1>7, ForwardFailsIs, BuffersKept, Zenon DEF ForwardFails
<1>8. CASE Refuse
  BY <1>0, <1>8, RefuseIs, BuffersKept, Zenon DEF Refuse, Transports, Quic
<1>9. CASE StartDaemon
  <2>1. CASE "qb" \in cut
    BY <1>0, <1>9, <2>1, CutIs, BuffersKept DEF StartDaemon, Transports, Target, Quic
  <2>2. CASE "qb" \notin cut
    <3>0. frame_bytes(OK) \in Seq(Nat) /\ "qb" \in Transports
      BY FrameIs DEF Transports, Quic
    <3>1. \A e \in Transports \ {"qb"} : data'[e] = data[e]
      BY <1>9, <2>2, <3>0, PutIs, Zenon DEF StartDaemon
    <3>2. \A c \in cut' : data'[c] = << >>
      BY <1>0, <1>9, <2>2, <3>1 DEF StartDaemon
    <3> QED
      BY <1>9, <2>2, <3>2, ZenonT(40) DEF StartDaemon, Handlers, Buffers, OfDaemon, TypeOK
  <2> QED
    BY <2>1, <2>2, Zenon
<1>10. CASE DaemonReturns
  BY <1>0, <1>10, CutIs, BuffersKept DEF DaemonReturns, Transports, Target, Quic
<1>11. CASE Fault
  BY <1>0, <1>11, CutIs, BuffersKept DEF Fault, Transports
<1>12. ASSUME NEW p \in Pumps, PumpRead(p) \/ PumpWrite(p) \/ PumpEnds(p) \/ PumpIdle(p)
       PROVE  Buffers'
  <2>0. pump \in [Pumps -> {"idle", "read", "write", "end"}] /\ buf \in [Pumps -> Seq(Nat)]
    BY Zenon DEF TypeOK
  <2>1. CASE PumpRead(p)
    <3>0. Source[p] \in Transports /\ Source[p] \notin cut /\ cut' = cut /\ data[Source[p]] \in Seq(Nat)
      BY <2>1, SMTT(30) DEF Source, Pumps, Transports, Local, Quic, Target, PumpRead, TypeOK
    <3>1. PICK n \in 1 .. Len(data[Source[p]]) :
             /\ buf'[p] = SubSeq(data[Source[p]], 1, n)
             /\ \A q \in Pumps \ {p} : buf'[q] = buf[q]
             /\ \A e \in Transports \ {Source[p]} : data'[e] = data[e]
      BY <2>1, PumpReadIs, Zenon
    <3>2. buf'[p] # << >>
      BY <3>0, <3>1, SMTT(30)
    <3>3. pump'[p] = "write" /\ \A q \in Pumps \ {p} : pump'[q] = pump[q]
      BY <2>0, <2>1 DEF PumpRead
    <3> QED
      BY <1>0, <3>0, <3>1, <3>2, <3>3, Zenon DEF Buffers
  <2>2. CASE PumpWrite(p)
    <3>0. Sink[p] \in Transports /\ Sink[p] \notin cut /\ cut' = cut /\ buf[p] \in Seq(Nat)
      BY <2>0, <2>2 DEF Sink, Pumps, Transports, Local, Quic, Target, PumpWrite
    <3>1. /\ buf[p] # << >> /\ buf'[p] = Tail(buf[p])
          /\ \A q \in Pumps \ {p} : buf'[q] = buf[q]
          /\ \A e \in Transports \ {Sink[p]} : data'[e] = data[e]
      BY <2>2, PumpWriteIs, Zenon
    <3>2. (Len(buf[p]) = 1) <=> (buf'[p] = << >>)
      <4>1. Tail(buf[p]) \in Seq(Nat) /\ Len(Tail(buf[p])) = Len(buf[p]) - 1 /\ Len(buf[p]) \in Nat
        BY <3>0, <3>1
      <4>2. Tail(buf[p]) = << >> <=> Len(Tail(buf[p])) = 0
        BY <4>1, EmptyIs, Zenon
      <4> QED
        BY <3>1, <4>1, <4>2, SMTT(30)
    <3>3. /\ pump'[p] = IF Len(buf[p]) = 1 THEN "read" ELSE "write"
          /\ \A q \in Pumps \ {p} : pump'[q] = pump[q]
      BY <2>0, <2>2, Zenon DEF PumpWrite
    <3> QED
      BY <1>0, <3>0, <3>1, <3>2, <3>3, ZenonT(40) DEF Buffers
  <2>3. CASE PumpEnds(p)
    BY <1>0, <2>0, <2>3, Zenon DEF PumpEnds, Buffers
  <2>4. CASE PumpIdle(p)
    BY <1>0, <2>0, <2>4, Zenon DEF PumpIdle, Buffers
  <2> QED
    BY <1>12, <2>1, <2>2, <2>3, <2>4, Zenon
<1>13. ASSUME NEW d \in Dirs, AppSend(d) \/ AppClose(d) \/ AppRead(d) \/ AppEnd(d)
       PROVE  Buffers'
  <2>0. First(d) \in Transports /\ Last(d) \in Transports
    BY Places, Zenon
  <2>1. CASE AppSend(d)
    <3>1. <<Len(sent[d]) + 1>> \in Seq(Nat)
      BY DEF TypeOK
    <3>2. \A e \in Transports \ {First(d)} : data'[e] = data[e]
      BY <2>0, <2>1, <3>1, PutIs, Zenon DEF AppSend
    <3> QED
      BY <1>0, <2>1, <3>2, BuffersKept, Zenon DEF AppSend
  <2>2. CASE AppClose(d)
    BY <1>0, <2>2, BuffersKept, Zenon DEF AppClose
  <2>3. CASE AppRead(d)
    <3>1. \A e \in Transports \ {Last(d)} : data'[e] = data[e]
      BY <2>0, <2>3, TakeIs, Zenon DEF AppRead
    <3> QED
      BY <1>0, <2>3, <3>1, BuffersKept, Zenon DEF AppRead
  <2>4. CASE AppEnd(d)
    BY <1>0, <2>4, BuffersKept, Zenon DEF AppEnd
  <2> QED
    BY <1>13, <2>1, <2>2, <2>3, <2>4
<1>14. CASE UNCHANGED vars
  BY <1>0, <1>14, BuffersKept DEF vars
<1> QED
  BY Zenon, <1>1, <1>2, <1>3, <1>4, <1>5, <1>6, <1>7, <1>8, <1>9, <1>10, <1>11, <1>12, <1>13, <1>14,
     Zenon DEF Next, Client, Daemon, Pump, App

\* What the client learns from the header of the reply: whether the daemon
\* has refused.
LEMMA ReplyTells ==
    ASSUME TypeOK, ReplyFrame, ReadReply
    PROVE  /\ left["client"] # {} => client' = "reply"
           /\ left["client"] = {} /\ daemon \in {"relay", "done"} => client' = "reply"
           /\ left["client"] = {} /\ daemon \notin {"relay", "done"} =>
                daemon = "closed" /\ client' = "denied"
<1>0. client = "reply" /\ data["qb"] # << >> /\ "qb" \notin cut /\ data["qb"] \in Seq(Nat)
  BY DEF ReadReply, read_frame, TypeOK, Transports, Quic
<1>1. Head(data["qb"]) = data["qb"][1]
  BY <1>0
<1>2. CASE left["client"] # {}
  BY <1>0, <1>2, Zenon DEF ReadReply
<1>3. CASE left["client"] = {} /\ daemon \in {"relay", "done"}
  <2>1. Head(data["qb"]) = OK + PayloadLen
    BY <1>0, <1>1, <1>3, Zenon DEF ReplyFrame
  <2>2. ~(Head(data["qb"]) >= DENY)
    BY <2>1, RelayAssumption DEF OK, DENY
  <2> QED
    BY <1>0, <1>3, <2>2, Zenon DEF ReadReply
<1>4. CASE left["client"] = {} /\ daemon \notin {"relay", "done"}
  <2>0. daemon = "closed"
    BY <1>0, <1>4, Zenon DEF ReplyFrame, TypeOK
  <2>1. Head(data["qb"]) = DENY + PayloadLen
    BY <1>0, <1>1, <2>0, Zenon DEF ReplyFrame
  <2>2. Head(data["qb"]) >= DENY
    BY <2>1, RelayAssumption DEF DENY
  <2> QED
    BY <1>4, <2>0, <2>2, Zenon DEF ReadReply
<1> QED
  BY <1>2, <1>3, <1>4, Zenon

\* The client and the daemon agree on how far they are.
LEMMA HandlersStep ==
    ASSUME TypeOK, Handlers, RequestFrame, ReplyFrame, [Next]_vars
    PROVE  Handlers'
<1>1. CASE Request
  BY <1>1 DEF Handlers, Request, ReplyFrame, OfClient, OfDaemon, appVars
<1>2. CASE ReadReply
  <2>1. client = "reply" /\ UNCHANGED <<daemon, pump, cut, fin>>
    BY <1>2, Zenon DEF ReadReply
  <2>2. CASE client' = "reply"
    <3>1. daemon \in {"relay", "done"}
      BY <1>2, <2>1, <2>2, ReplyTells, Zenon DEF Handlers
    <3> QED
      BY <2>1, <2>2, <3>1, Zenon DEF Handlers
  <2>3. CASE client' = "denied" /\ daemon = "closed"
    BY <2>1, <2>3, Zenon DEF Handlers
  <2> QED
    BY <1>2, <2>2, <2>3, ReplyTells, Zenon
<1>3. CASE ReplyFails
  <2>1. client \in {"request", "reply", "denied"} /\ client' = "closed" /\ UNCHANGED <<daemon, pump, left>>
    BY <1>3, Zenon DEF ReplyFails, ClientGivesUp
  <2>2. "qb" \in cut' \cup fin'
    BY <1>3, Zenon DEF ReplyFails, ClientGivesUp, Cut, AtEnd
  <2>3. "qb" \notin fin => "qb" \notin fin'
    BY <1>3, Zenon DEF ReplyFails, ClientGivesUp
  <2> QED
    BY <2>1, <2>2, <2>3, Zenon DEF Handlers
<1>4. CASE StartClient
  <2>1. client = "reply" /\ left["client"] # {} /\ client' = "relay" /\ UNCHANGED <<daemon, left, cut, fin>>
    BY <1>4, Zenon DEF StartClient
  <2>2. \A p \in Pumps : pump'[p] = IF p \in OfClient THEN "read" ELSE pump[p]
    BY <1>4, Zenon DEF StartClient
  <2> QED
    BY <2>1, <2>2, Zenon DEF Handlers, OfClient, OfDaemon, Pumps
<1>5. CASE ClientReturns
  BY <1>5, Zenon DEF Handlers, ClientReturns, OfClient, OfDaemon, Cut
<1>6. CASE ReadForward
  <2>1. left'["client"] = left["client"] /\ UNCHANGED <<client, daemon, pump, cut, fin>>
    BY <1>6, Zenon DEF ReadForward, read_frame, TypeOK
  <2> QED
    BY <2>1, Zenon DEF Handlers
<1>7. CASE ForwardFails
  <2>1. daemon = "frame" /\ daemon' = "closed" /\ UNCHANGED <<client, left, pump>>
        /\ cut \subseteq cut' /\ fin \subseteq fin'
    BY <1>7, Zenon DEF ForwardFails, Cut
  <2> QED
    BY <2>1, Zenon DEF Handlers
<1>8. CASE Refuse
  <2>1. daemon = "frame" /\ daemon' = "closed" /\ UNCHANGED <<client, left, pump>>
        /\ cut \subseteq cut' /\ fin \subseteq fin'
    BY <1>8, Zenon DEF Refuse
  <2> QED
    BY <2>1, Zenon DEF Handlers
<1>9. CASE StartDaemon
  <2>0. daemon = "frame" /\ left["daemon"] # {} /\ UNCHANGED <<client, left>>
        /\ cut \subseteq cut' /\ fin \subseteq fin'
    BY <1>9, Zenon DEF StartDaemon, Cut
  <2>1. CASE "qb" \in cut
    BY <1>9, <2>0, <2>1, Zenon DEF Handlers, StartDaemon
  <2>2. CASE "qb" \notin cut
    <3>1. daemon' = "relay" /\ \A p \in Pumps : pump'[p] = IF p \in OfDaemon THEN "read" ELSE pump[p]
      BY <1>9, <2>2, Zenon DEF StartDaemon
    <3> QED
      BY <2>0, <3>1, Zenon DEF Handlers, RequestFrame, OfClient, OfDaemon, Pumps
  <2> QED
    BY <2>1, <2>2, Zenon
<1>10. CASE DaemonReturns
  BY <1>10, Zenon DEF Handlers, DaemonReturns, OfClient, OfDaemon, Cut
<1>11. CASE Fault
  <2>1. UNCHANGED <<client, daemon, left, pump, fin>> /\ cut \subseteq cut'
    BY <1>11, Zenon DEF Fault, Cut
  <2> QED
    BY <2>1, Zenon DEF Handlers
<1>12. ASSUME NEW p \in Pumps, PumpRead(p) \/ PumpWrite(p) \/ PumpEnds(p) \/ PumpIdle(p)
       PROVE  Handlers'
  <2>1. UNCHANGED <<client, daemon, left, cut>>
    BY <1>12, Zenon DEF PumpRead, PumpWrite, PumpEnds, PumpIdle
  <2>2. /\ pump[p] # "idle" /\ pump'[p] # "idle"
        /\ \A q \in Pumps \ {p} : pump'[q] = pump[q]
    <3>1. pump[p] # "idle" /\ \E x \in {"read", "write", "end"} : pump' = [pump EXCEPT ![p] = x]
      BY <1>12, Zenon DEF PumpRead, PumpWrite, PumpEnds, PumpIdle
    <3> QED
      BY <3>1 DEF TypeOK
  <2>3. fin \subseteq fin' /\ ("qb" \in fin' => "qb" \in fin \/ p = "db")
    <3>1. fin' = fin \/ fin' = fin \cup {Sink[p]}
      BY <1>12, Zenon DEF PumpRead, PumpWrite, PumpEnds, PumpIdle
    <3>2. Sink[p] = "qb" => p = "db"
      BY DEF Sink, Pumps
    <3> QED
      BY <3>1, <3>2, Zenon
  <2> QED
    BY <2>1, <2>2, <2>3, Zenon DEF Handlers, OfClient, OfDaemon, Pumps
<1>13. ASSUME NEW d \in Dirs, AppSend(d) \/ AppClose(d) \/ AppRead(d) \/ AppEnd(d)
       PROVE  Handlers'
  <2>1. UNCHANGED <<client, daemon, left, pump, cut>> /\ fin \subseteq fin'
        /\ ("qb" \in fin' => "qb" \in fin)
    BY <1>13, Zenon DEF AppSend, AppClose, AppRead, AppEnd, First
  <2> QED
    BY <2>1, Zenon DEF Handlers
<1>14. CASE UNCHANGED vars
  BY <1>14, Zenon DEF Handlers, vars
<1> QED
  BY ZenonT(40), <1>1, <1>2, <1>3, <1>4, <1>5, <1>6, <1>7, <1>8, <1>9, <1>10, <1>11, <1>12, <1>13, <1>14,
     Zenon DEF Next, Client, Daemon, Pump, App

\* Steps that leave the request alone, or lose what was there of it; and
\* steps after both relays have started.
LEMMA RequestKept ==
    ASSUME RequestFrame, left'["daemon"] = left["daemon"],
           data'["qo"] = data["qo"] \/ data'["qo"] = << >>,
           client' = "request" => client = "request",
           daemon' = "frame" => daemon = "frame",
           daemon' \in {"relay", "done"} /\ pump'["co"] = "idle" =>
             (daemon \in {"relay", "done"} /\ pump["co"] = "idle") \/ data'["qo"] = << >>
    PROVE  RequestFrame'
<1>1. PayloadLen \in Nat /\ Len(<< >>) = 0
  BY RelayAssumption
<1>2. CASE data'["qo"] = data["qo"]
  BY <1>2, Zenon DEF RequestFrame
<1>3. CASE data'["qo"] = << >>
  BY <1>1, <1>3 DEF RequestFrame
<1> QED
  BY <1>2, <1>3, Zenon

\* A request that was read to its end is of no concern any more.
LEMMA RequestOver ==
    ASSUME RequestFrame, left'["daemon"] = left["daemon"],
           client' # "request", daemon' \in {"relay", "done"}, pump'["co"] # "idle"
    PROVE  RequestFrame'
  BY DEF RequestFrame

\* What the QUIC stream holds of the request.
LEMMA RequestStep ==
    ASSUME TypeOK, Handlers, RequestFrame, [Next]_vars
    PROVE  RequestFrame'
<1>0. "qo" \in Transports /\ "qb" \in Transports /\ data["qo"] \in Seq(Nat) /\ PayloadLen \in Nat
  BY RelayAssumption DEF TypeOK, Transports, Quic
<1>1. CASE Request
  <2>1. frame_bytes(FORWARD) \in Seq(Nat) /\ Len(frame_bytes(FORWARD)) = PayloadLen + 1
        /\ frame_bytes(FORWARD)[1] = FORWARD + PayloadLen
    BY FrameIs
  <2>2. client = "request" /\ client' = "reply" /\ data["qo"] = << >> /\ left["daemon"] = {}
        /\ daemon \in {"frame", "closed"} /\ UNCHANGED <<daemon, left, pump>>
    BY <1>1 DEF Request, RequestFrame, Handlers
  <2>3. data'["qo"] = << >> \o frame_bytes(FORWARD)
    BY <1>0, <1>1, <2>1, <2>2, PutIs, Zenon DEF Request
  <2>4. data'["qo"] = frame_bytes(FORWARD)
    BY <2>1, <2>3
  <2> QED
    BY <2>1, <2>2, <2>4, Zenon DEF RequestFrame
<1>2. CASE ReadReply
  <2>1. data'["qo"] = data["qo"]
    BY <1>0, <1>2, TakeIs, Zenon DEF ReadReply, read_frame
  <2>2. left'["daemon"] = left["daemon"]
    BY <1>2, Zenon DEF ReadReply, read_frame, TypeOK
  <2> QED
    BY <1>2, <2>1, <2>2, RequestKept, Zenon DEF ReadReply
<1>3. CASE ReplyFails
  <2> DEFINE cs == {c \in {"lo", "qb"} : ~AtEnd(c)}
  <2>0. cs \in SUBSET Transports /\ Cut(cs) /\ "qo" \notin cs
    BY <1>3 DEF ReplyFails, ClientGivesUp, Transports, Local, Quic
  <2>1. data'["qo"] = data["qo"]
    BY <1>0, <2>0, CutIs, Zenon
  <2> QED
    BY <1>3, <2>1, RequestKept, Zenon DEF ReplyFails, ClientGivesUp
<1>4. CASE StartClient
  BY <1>4, RequestKept, Zenon DEF StartClient, Pumps, OfClient
<1>5. CASE ClientReturns
  <2>1. data'["qo"] = data["qo"]
    BY <1>0, <1>5, CutIs, SMTT(30) DEF ClientReturns, Transports, Local, Quic
  <2> QED
    BY <1>5, <2>1, RequestKept, Zenon DEF ClientReturns
<1>6. CASE ReadForward
  <2>0. data["qo"] # << >> /\ data' = [data EXCEPT !["qo"] = Tail(@)]
        /\ daemon = "frame" /\ UNCHANGED <<daemon, client, pump>>
    BY <1>6 DEF ReadForward, read_frame
  <2>1. data["qo"] # << >> /\ Len(data'["qo"]) = Len(data["qo"]) - 1 /\ Len(data["qo"]) \in Nat
        /\ daemon = "frame" /\ UNCHANGED <<daemon, client, pump>>
    <3>1. Len(data["qo"]) \in Nat
      BY <1>0
    <3>2. Len(data'["qo"]) = Len(data["qo"]) - 1
      BY <1>0, <2>0, TakeIs, Zenon
    <3> QED
      BY <2>0, <3>1, <3>2, Zenon
  <2>2. client # "request"
    BY <2>1, Zenon DEF RequestFrame
  <2>3. CASE left["daemon"] = {} /\ left' = [left EXCEPT !["daemon"] = {PayloadLen}]
    <3>1. Len(data["qo"]) = PayloadLen + 1
      BY <2>1, <2>3, Zenon DEF RequestFrame
    <3>2. left'["daemon"] = {PayloadLen}
      BY <2>3, Zenon DEF TypeOK
    <3> QED
      BY <1>0, <2>1, <2>2, <3>1, <3>2 DEF RequestFrame
  <2>4. ASSUME NEW n \in 1 .. PayloadLen, left["daemon"] = {n}, left' = [left EXCEPT !["daemon"] = {n - 1}]
        PROVE  RequestFrame'
    <3>1. Len(data["qo"]) <= n
      BY <2>1, <2>4, Zenon DEF RequestFrame
    <3>2. left'["daemon"] = {n - 1}
      BY <2>4, Zenon DEF TypeOK
    <3> QED
      BY <1>0, <2>1, <2>2, <3>1, <3>2 DEF RequestFrame
  <2> QED
    BY <1>6, <2>3, <2>4, RequestRead, Zenon
<1>7. CASE ForwardFails
  <2>1. data'["qo"] = data["qo"] \/ data'["qo"] = << >>
    BY <1>7, ForwardFailsIs, Zenon
  <2> QED
    BY <1>7, <2>1, RequestKept, Zenon DEF ForwardFails
<1>8. CASE Refuse
  <2>1. data'["qo"] = data["qo"] \/ data'["qo"] = << >>
    BY <1>8, RefuseIs, Zenon
  <2> QED
    BY <1>8, <2>1, RequestKept, Zenon DEF Refuse
<1>9. CASE StartDaemon
  <2>0. daemon = "frame" /\ left["daemon"] = {0} /\ UNCHANGED <<client, left>>
    BY <1>9, Zenon DEF StartDaemon
  <2>1. Len(data["qo"]) <= 0
    BY <2>0, Zenon DEF RequestFrame
  <2>2. data["qo"] = << >>
    BY <1>0, <2>1, EmptyIs
  <2>3. CASE "qb" \in cut
    <3>1. data'["qo"] = << >> /\ daemon' = "closed"
      BY <1>0, <1>9, <2>2, <2>3, CutIs, Zenon DEF StartDaemon, Transports, Target, Quic
    <3> QED
      BY <2>0, <3>1, RequestKept, Zenon
  <2>4. CASE "qb" \notin cut
    <3>0. frame_bytes(OK) \in Seq(Nat)
      BY FrameIs
    <3>1. data'["qo"] = << >> /\ daemon' = "relay"
      BY <1>0, <1>9, <2>2, <2>4, <3>0, PutIs, Zenon DEF StartDaemon
    <3> QED
      BY <2>0, <3>1, RequestKept, Zenon
  <2> QED
    BY <2>3, <2>4, Zenon
<1>10. CASE DaemonReturns
  <2>1. data'["qo"] = data["qo"] \/ data'["qo"] = << >>
    BY <1>0, <1>10, CutIs, Zenon DEF DaemonReturns, Transports, Target, Quic
  <2> QED
    BY <1>10, <2>1, RequestKept, Zenon DEF DaemonReturns
<1>11. CASE Fault
  <2>1. data'["qo"] = data["qo"] \/ data'["qo"] = << >>
    BY <1>0, <1>11, CutIs, Zenon DEF Fault, Transports
  <2> QED
    BY <1>11, <2>1, RequestKept, Zenon DEF Fault
<1>12. ASSUME NEW p \in Pumps, PumpRead(p) \/ PumpWrite(p) \/ PumpEnds(p) \/ PumpIdle(p)
       PROVE  RequestFrame'
  <2>0. UNCHANGED <<client, daemon, left>> /\ pump[p] # "idle"
    BY <1>12 DEF PumpRead, PumpWrite, PumpEnds, PumpIdle
  <2>1. pump'["co"] = "idle" <=> pump["co"] = "idle"
    BY <1>12, Zenon DEF PumpRead, PumpWrite, PumpEnds, PumpIdle, TypeOK, Pumps
  <2>2. CASE data'["qo"] = data["qo"]
    BY <2>0, <2>1, <2>2, RequestKept, Zenon
  <2>3. CASE PumpRead(p) /\ p = "do"
    <3>1. daemon \in {"relay", "done"} /\ client # "request"
      BY <2>0, <2>3, ZenonT(40) DEF Handlers, OfDaemon
    <3>2. data["qo"] # << >>
      BY <2>3 DEF PumpRead, Source
    <3>3. pump["co"] # "idle"
      BY <3>1, <3>2, Zenon DEF RequestFrame
    <3> QED
      BY <2>0, <2>1, <3>1, <3>3, RequestOver, Zenon
  <2>4. CASE p = "co"
    <3>1. daemon \in {"relay", "done"} /\ client # "request"
      BY <2>0, <2>4, Zenon DEF Handlers, OfClient
    <3> QED
      BY <2>0, <2>1, <2>4, <3>1, RequestOver, Zenon
  <2>5. CASE PumpWrite(p) /\ p # "co"
    <3>1. Put(Sink[p], <<Head(buf[p])>>) /\ Sink[p] # "qo"
      BY <2>5 DEF PumpWrite, Sink, Pumps
    <3>2. data'["qo"] = data["qo"]
      BY <1>0, <3>1, Zenon DEF Put, TypeOK
    <3> QED
      BY <2>2, <3>2, Zenon
  <2>6. CASE PumpRead(p) /\ p # "do"
    <3>1. Source[p] # "qo"
      BY <2>6 DEF Source, Pumps
    <3>2. data'["qo"] = data["qo"]
      BY <1>0, <2>6, <3>1, PumpReadIs, Zenon
    <3> QED
      BY <2>2, <3>2
  <2>7. CASE PumpEnds(p) \/ PumpIdle(p)
    BY <2>2, <2>7, Zenon DEF PumpEnds, PumpIdle
  <2> QED
    BY <1>12, <2>3, <2>4, <2>5, <2>6, <2>7, ZenonT(40)
<1>13. ASSUME NEW d \in Dirs, AppSend(d) \/ AppClose(d) \/ AppRead(d) \/ AppEnd(d)
       PROVE  RequestFrame'
  <2>1. UNCHANGED <<client, daemon, left, pump>>
    BY <1>13 DEF AppSend, AppClose, AppRead, AppEnd
  <2>2. First(d) # "qo" /\ Last(d) # "qo"
    BY Zenon DEF First, Last
  <2>3. data'["qo"] = data["qo"]
    BY <1>0, <1>13, <2>2, Zenon DEF AppSend, AppClose, AppRead, AppEnd, Put, TypeOK
  <2> QED
    BY <2>1, <2>3, RequestKept, ZenonT(40)
<1>14. CASE UNCHANGED vars
  BY <1>14, RequestKept DEF vars
<1> QED
  BY ZenonT(40), <1>1, <1>2, <1>3, <1>4, <1>5, <1>6, <1>7, <1>8, <1>9, <1>10, <1>11, <1>12, <1>13, <1>14,
     Zenon DEF Next, Client, Daemon, Pump, App

\* What is left of the reply, as a number.
LEMMA UnreadKept ==
    ASSUME left'["client"] = left["client"]
    PROVE  Unread' = Unread
  BY DEF Unread

\* Of a reply there is at most the frame to read.
LEMMA UnreadType ==
    ASSUME ReplyFrame
    PROVE  Unread \in 0 .. PayloadLen + 1
<1>0. PayloadLen \in Nat
  BY RelayAssumption
<1>1. CASE left["client"] = {}
  BY <1>0, <1>1, UnreadIs
<1>2. ASSUME NEW n \in 0 .. PayloadLen, left["client"] = {n} PROVE Unread \in 0 .. PayloadLen + 1
  <2>1. Unread = n
    BY <1>2, UnreadIs, Zenon
  <2> QED
    BY <1>0, <2>1
<1> QED
  BY <1>1, <1>2, Zenon DEF ReplyFrame

\* Steps that leave the reply alone, or lose what was there of it; and steps
\* of a client that no longer waits for it.
LEMMA ReplyKept ==
    ASSUME ReplyFrame, left'["client"] = left["client"], cut \subseteq cut',
           data'["qb"] = data["qb"] \/ (data'["qb"] = << >> /\ "qb" \in cut'),
           client' \in {"request", "reply"} => client' = client, daemon' = daemon
    PROVE  ReplyFrame'
<1>1. Unread' = Unread
  BY UnreadKept, Zenon
<1> QED
  BY <1>1, Zenon DEF ReplyFrame

\* Nor is a reply that the client has read, or gave up to read.
LEMMA ReplyOver ==
    ASSUME ReplyFrame, left'["client"] = {} \/ \E n \in 0 .. PayloadLen : left'["client"] = {n},
           client' \notin {"request", "reply"}, daemon' # "frame"
    PROVE  ReplyFrame'
  BY Zenon DEF ReplyFrame

\* A byte behind the reply.
LEMMA ReplyBehind ==
    ASSUME TypeOK, ReplyFrame, left'["client"] = left["client"], cut' = cut,
           UNCHANGED <<client, daemon>>, daemon \in {"relay", "done"},
           NEW b \in Nat, data'["qb"] = data["qb"] \o <<b>>
    PROVE  ReplyFrame'
<1>0. data["qb"] \in Seq(Nat) /\ Len(data["qb"]) \in Nat
  BY DEF TypeOK, Transports, Quic
<1>1. Unread' = Unread /\ Unread \in Nat /\ PayloadLen \in Nat
  BY UnreadKept, UnreadType, RelayAssumption
<1>2. Len(data["qb"] \o <<b>>) = Len(data["qb"]) + 1
  BY <1>0
<1>3. Len(data["qb"]) >= 1 => (data["qb"] \o <<b>>)[1] = data["qb"][1]
  BY <1>0
<1>4. CASE client = "reply" /\ "qb" \notin cut
  <2>1. Unread <= Len(data["qb"]) /\ (left["client"] = {} => data["qb"][1] = OK + PayloadLen)
    BY <1>4, Zenon DEF ReplyFrame
  <2>2. left["client"] = {} => Unread = PayloadLen + 1
    BY UnreadIs, Zenon
  <2>3. Unread <= Len(data'["qb"])
    BY <1>0, <1>1, <1>2, <2>1, SMTT(30)
  <2>4. left["client"] = {} => data'["qb"][1] = OK + PayloadLen
    BY <1>0, <1>1, <1>3, <2>1, <2>2, SMTT(30)
  <2> QED
    BY <1>1, <1>4, <2>3, <2>4, Zenon DEF ReplyFrame
<1>5. CASE ~(client = "reply" /\ "qb" \notin cut)
  BY <1>5 DEF ReplyFrame
<1> QED
  BY <1>4, <1>5, Zenon

\* What the QUIC stream holds of the reply.
LEMMA ReplyStep ==
    ASSUME TypeOK, Buffers, Handlers, RequestFrame, ReplyFrame, [Next]_vars
    PROVE  ReplyFrame'
<1>0. "qo" \in Transports /\ "qb" \in Transports /\ data["qb"] \in Seq(Nat) /\ PayloadLen \in Nat
  BY RelayAssumption DEF TypeOK, Transports, Quic
<1>1. CASE Request
  <2>0. frame_bytes(FORWARD) \in Seq(Nat)
    BY FrameIs
  <2>1. data'["qb"] = data["qb"]
    BY <1>0, <1>1, <2>0, PutIs, Zenon DEF Request
  <2>2. client = "request" /\ client' = "reply" /\ daemon \in {"frame", "closed"}
        /\ UNCHANGED <<daemon, left, cut>>
    BY <1>1, Zenon DEF Request, Handlers
  <2> QED
    BY <2>1, <2>2, Zenon DEF ReplyFrame
<1>2. CASE ReadReply
  <2>0. /\ client = "reply" /\ data["qb"] # << >> /\ data' = [data EXCEPT !["qb"] = Tail(@)]
        /\ "qb" \notin cut /\ UNCHANGED <<daemon, cut>> /\ daemon # "frame"
    BY <1>2 DEF ReadReply, read_frame, ReplyFrame
  <2>1. Len(data'["qb"]) = Len(data["qb"]) - 1
    BY <1>0, <2>0, TakeIs, Zenon
  <2>2. /\ left'["client"] # {} /\ Unread' = Unread - 1
        /\ \E n \in 0 .. PayloadLen : left'["client"] = {n}
    <3>1. CASE left["client"] = {} /\ left' = [left EXCEPT !["client"] = {PayloadLen}]
      <4>1. left'["client"] = {PayloadLen}
        BY <3>1, Zenon DEF TypeOK
      <4>2. Unread = PayloadLen + 1 /\ Unread' = PayloadLen
        BY <3>1, <4>1, Zenon DEF Unread
      <4> QED
        BY <1>0, <4>1, <4>2
    <3>2. ASSUME NEW n \in 1 .. PayloadLen, left["client"] = {n}, left' = [left EXCEPT !["client"] = {n - 1}]
          PROVE  /\ left'["client"] # {} /\ Unread' = Unread - 1
                 /\ \E m \in 0 .. PayloadLen : left'["client"] = {m}
      <4>1. left'["client"] = {n - 1}
        BY <3>2, Zenon DEF TypeOK
      <4>2. Unread = n /\ Unread' = n - 1
        BY <3>2, <4>1, Zenon DEF Unread
      <4>3. n - 1 \in 0 .. PayloadLen
        BY <1>0
      <4> QED
        BY <4>1, <4>2, <4>3, Zenon
    <3> QED
      BY <1>2, <3>1, <3>2, ReplyRead, Zenon
  <2>3. CASE client' = "denied"
    BY <2>0, <2>2, <2>3, ReplyOver, Zenon
  <2>4. CASE client' = "reply" /\ daemon \in {"relay", "done"}
    <3>1. Unread <= Len(data["qb"])
      BY <2>0, <2>4, Zenon DEF ReplyFrame
    <3>2. Unread \in Nat /\ Len(data["qb"]) \in Nat
      BY <1>0, UnreadType
    <3>3. Unread' <= Len(data'["qb"])
      BY <2>1, <2>2, <3>1, <3>2
    <3> QED
      BY <2>0, <2>2, <2>4, <3>3, Zenon DEF ReplyFrame
  <2> QED
    BY <1>2, <2>0, <2>3, <2>4, ReplyTells, Zenon DEF Handlers
<1>3. CASE ReplyFails
  <2>1. left'["client"] = left["client"] /\ client' = "closed" /\ daemon' = daemon /\ cut \subseteq cut'
    BY <1>3, Zenon DEF ReplyFails, ClientGivesUp, Cut
  <2>2. data'["qb"] = data["qb"] \/ (data'["qb"] = << >> /\ "qb" \in cut')
    BY <1>0, <1>3, Zenon DEF ReplyFails, ClientGivesUp, Cut
  <2> QED
    BY <2>1, <2>2, ReplyKept, Zenon
<1>4. CASE StartClient
  BY <1>4, ReplyKept, Zenon DEF StartClient
<1>5. CASE ClientReturns
  <2>1. left'["client"] = left["client"] /\ client' = "done" /\ daemon' = daemon /\ cut \subseteq cut'
    BY <1>5, Zenon DEF ClientReturns, Cut
  <2>2. data'["qb"] = data["qb"] \/ (data'["qb"] = << >> /\ "qb" \in cut')
    BY <1>0, <1>5, Zenon DEF ClientReturns, Cut
  <2> QED
    BY <2>1, <2>2, ReplyKept, Zenon
<1>6. CASE ReadForward
  <2>1. data'["qb"] = data["qb"] /\ left'["client"] = left["client"] /\ UNCHANGED <<client, daemon, cut>>
    BY <1>0, <1>6, Zenon DEF ReadForward, read_frame, TypeOK
  <2> QED
    BY <2>1, ReplyKept, Zenon
<1>7. CASE ForwardFails
  <2>1. daemon = "frame" /\ daemon' = "closed" /\ UNCHANGED <<client, left>>
    BY <1>7, Zenon DEF ForwardFails
  <2>2. data'["qb"] = data["qb"]
    BY <1>7, ForwardFailsIs DEF Transports, Quic
  <2> QED
    BY <2>1, <2>2, Zenon DEF ReplyFrame
<1>8. CASE Refuse
  <2>1. daemon = "frame" /\ daemon' = "closed" /\ UNCHANGED <<client, left>>
    BY <1>8, Zenon DEF Refuse
  <2>2. data["qb"] = << >>
    BY <2>1, Zenon DEF ReplyFrame
  <2>3. frame_bytes(DENY) \in Seq(Nat) /\ frame_bytes(DENY)[1] = DENY + PayloadLen
    BY FrameIs
  <2>4. data'["qb"] = << >> \/ data'["qb"] = << >> \o frame_bytes(DENY)
    BY <1>8, <2>2, RefuseIs, Zenon
  <2>5. << >> \o frame_bytes(DENY) = frame_bytes(DENY)
    BY <2>3
  <2> QED
    BY <2>1, <2>3, <2>4, <2>5, Zenon DEF ReplyFrame
<1>9. CASE StartDaemon
  <2>0. daemon = "frame" /\ left["daemon"] # {} /\ UNCHANGED <<client, left>> /\ data["qb"] = << >>
    BY <1>9, Zenon DEF StartDaemon, ReplyFrame
  <2>1. CASE "qb" \in cut
    <3>1. data'["qb"] = << >> /\ daemon' = "closed"
      BY <1>0, <1>9, <2>0, <2>1, Zenon DEF StartDaemon, Cut
    <3> QED
      BY <2>0, <3>1, Zenon DEF ReplyFrame
  <2>2. CASE "qb" \notin cut
    <3>0. /\ frame_bytes(OK) \in Seq(Nat) /\ Len(frame_bytes(OK)) = PayloadLen + 1
          /\ frame_bytes(OK)[1] = OK + PayloadLen
      BY FrameIs
    <3>1. data'["qb"] = << >> \o frame_bytes(OK) /\ daemon' = "relay"
      BY <1>0, <1>9, <2>0, <2>2, <3>0, PutIs, ZenonT(40) DEF StartDaemon
    <3>2. data'["qb"] = frame_bytes(OK)
      BY <3>0, <3>1
    <3>3. client = "reply" => left["client"] = {}
      BY <2>0, Zenon DEF Handlers
    <3>4. client = "reply" => Unread' <= Len(data'["qb"])
      BY <1>0, <2>0, <3>0, <3>2, <3>3 DEF Unread
    <3> QED
      BY <2>0, <3>0, <3>1, <3>2, <3>3, <3>4, Zenon DEF ReplyFrame
  <2> QED
    BY <2>1, <2>2, Zenon
<1>10. CASE DaemonReturns
  <2>1. /\ daemon = "relay" /\ daemon' = "done" /\ UNCHANGED <<client, left>> /\ cut \subseteq cut'
        /\ data'["qb"] = data["qb"]
    BY <1>0, <1>10, Zenon DEF DaemonReturns, Cut
  <2>2. Unread' = Unread
    BY <2>1, UnreadKept, Zenon
  <2> QED
    BY <2>1, <2>2, Zenon DEF ReplyFrame
<1>11. CASE Fault
  <2>1. UNCHANGED <<client, daemon, left>> /\ cut \subseteq cut'
    BY <1>11, Zenon DEF Fault, Cut
  <2>2. data'["qb"] = data["qb"] \/ (data'["qb"] = << >> /\ "qb" \in cut')
    BY <1>0, <1>11, Zenon DEF Fault, Cut
  <2> QED
    BY <2>1, <2>2, ReplyKept, Zenon
<1>12. ASSUME NEW p \in Pumps, PumpRead(p) \/ PumpWrite(p) \/ PumpEnds(p) \/ PumpIdle(p)
       PROVE  ReplyFrame'
  <2>0. UNCHANGED <<client, daemon, left, cut>> /\ pump[p] # "idle"
    BY <1>12, Zenon DEF PumpRead, PumpWrite, PumpEnds, PumpIdle
  <2>1. CASE data'["qb"] = data["qb"]
    BY <2>0, <2>1, ReplyKept, Zenon
  <2>2. CASE p = "cb"
    <3>1. client \in {"relay", "done"} /\ daemon \in {"relay", "done"}
      BY <2>0, <2>2, Zenon DEF Handlers, OfClient
    <3> QED
      BY <2>0, <3>1, Zenon DEF ReplyFrame
  <2>3. CASE PumpWrite(p) /\ p = "db"
    <3>1. daemon \in {"relay", "done"}
      BY <2>0, <2>3, Zenon DEF Handlers, OfDaemon
    <3>2. Sink[p] = "qb"
      BY <2>3 DEF Sink
    <3>3. Head(buf[p]) \in Nat /\ data'["qb"] = data["qb"] \o <<Head(buf[p])>>
      BY <2>3, <3>2, PumpWriteIs, Zenon
    <3> QED
      BY <2>0, <3>1, <3>3, ReplyBehind, Zenon
  <2>4. CASE PumpWrite(p) /\ p \notin {"cb", "db"}
    <3>1. Put(Sink[p], <<Head(buf[p])>>) /\ Sink[p] # "qb"
      BY <2>4 DEF PumpWrite, Sink, Pumps
    <3>2. data'["qb"] = data["qb"]
      BY <1>0, <3>1, Zenon DEF Put, TypeOK
    <3> QED
      BY <2>1, <3>2, Zenon
  <2>5. CASE PumpRead(p) /\ p # "cb"
    <3>1. Source[p] # "qb"
      BY <2>5 DEF Source, Pumps
    <3>2. data'["qb"] = data["qb"]
      BY <1>0, <2>5, <3>1, PumpReadIs, Zenon
    <3> QED
      BY <2>1, <3>2
  <2>6. CASE PumpEnds(p) \/ PumpIdle(p)
    BY <2>1, <2>6, Zenon DEF PumpEnds, PumpIdle
  <2> QED
    BY <1>12, <2>2, <2>3, <2>4, <2>5, <2>6, Zenon
<1>13. ASSUME NEW d \in Dirs, AppSend(d) \/ AppClose(d) \/ AppRead(d) \/ AppEnd(d)
       PROVE  ReplyFrame'
  <2>1. UNCHANGED <<client, daemon, left, cut>>
    BY <1>13 DEF AppSend, AppClose, AppRead, AppEnd
  <2>2. First(d) # "qb" /\ Last(d) # "qb"
    BY Zenon DEF First, Last
  <2>3. data'["qb"] = data["qb"]
    BY <1>0, <1>13, <2>2, Zenon DEF AppSend, AppClose, AppRead, AppEnd, Put, TypeOK
  <2> QED
    BY <2>1, <2>3, ReplyKept, ZenonT(40)
<1>14. CASE UNCHANGED vars
  BY <1>14, ReplyKept, Zenon DEF vars
<1> QED
  BY ZenonT(40), <1>1, <1>2, <1>3, <1>4, <1>5, <1>6, <1>7, <1>8, <1>9, <1>10, <1>11, <1>12, <1>13, <1>14,
     Zenon DEF Next, Client, Daemon, Pump, App

\* Steps that change no place but to empty one.
LEMMA EndsKept ==
    ASSUME Ends, ~broken, UNCHANGED <<cut, fin>>, closed \subseteq closed',
           \A p \in Pumps : pump'[p] = pump[p] \/ (pump[p] # "end" /\ pump'[p] # "end"),
           \A c \in Transports : data'[c] = data[c] \/ data[c] # << >>
                                 \/ \E d \in Dirs : \/ c = First(d) /\ pump[Before(d)] # "end"
                                                    \/ c = Mid(d) /\ pump[Behind(d)] # "end"
                                                    \/ c = Last(d)
    PROVE  Ends'
<1>1. SUFFICES ASSUME NEW d \in Dirs
      PROVE  /\ First(d) \in fin => d \in closed'
             /\ pump'[Before(d)] = "end" => First(d) \in fin /\ data'[First(d)] = << >>
             /\ Mid(d) \in fin => pump'[Before(d)] = "end"
             /\ pump'[Behind(d)] = "end" => Mid(d) \in fin /\ data'[Mid(d)] = << >>
             /\ Last(d) \in fin => pump'[Behind(d)] = "end"
  BY Zenon DEF Ends
<1>2. {First(d), Mid(d)} \subseteq Transports /\ {Before(d), Behind(d)} \subseteq Pumps
  BY Places, Zenon
<1>3. /\ First(d) \in fin => d \in closed
      /\ pump[Before(d)] = "end" => First(d) \in fin /\ data[First(d)] = << >>
      /\ Mid(d) \in fin => pump[Before(d)] = "end"
      /\ pump[Behind(d)] = "end" => Mid(d) \in fin /\ data[Mid(d)] = << >>
      /\ Last(d) \in fin => pump[Behind(d)] = "end"
  BY Zenon DEF Ends
<1>4. \A e \in Dirs : /\ First(e) = First(d) => e = d
                      /\ Mid(e) = Mid(d) => e = d
                      /\ {First(d), Mid(d)} \cap {Last(e)} = {}
                      /\ First(d) # Mid(e) /\ First(e) # Mid(d)
  BY DEF First, Mid, Last, Dirs
<1>5. pump[Before(d)] = "end" => data'[First(d)] = << >>
  BY <1>2, <1>3, <1>4, Zenon
<1>6. pump[Behind(d)] = "end" => data'[Mid(d)] = << >>
  BY <1>2, <1>3, <1>4, Zenon
<1> QED
  BY <1>2, <1>3, <1>5, <1>6

\* Unless the connection was broken, the end is passed on from place to
\* place, and only behind the last byte.
LEMMA EndsStep ==
    ASSUME TypeOK, Handlers, ReplyFrame, Ends, [Next]_vars
    PROVE  Ends'
<1>a. ASSUME broken' PROVE Ends'
  BY <1>a, Zenon DEF Ends
<1>1. CASE Request
  <2>0. frame_bytes(FORWARD) \in Seq(Nat) /\ "qo" \in Transports
    BY FrameIs DEF Transports, Quic
  <2>1. \A c \in Transports \ {"qo"} : data'[c] = data[c]
    BY <1>1, <2>0, PutIs, Zenon DEF Request
  <2>2. "out" \in Dirs /\ "qo" = Mid("out") /\ pump[Behind("out")] # "end"
    BY <1>1, Zenon DEF Request, Handlers, Mid, Behind, OfDaemon, Dirs
  <2>3. UNCHANGED <<broken, cut, fin, closed, pump>>
    BY <1>1, Zenon DEF Request, appVars
  <2> QED
    BY <1>a, <2>1, <2>2, <2>3, EndsKept, Zenon
<1>2. CASE ReadReply
  <2>1. data["qb"] # << >> /\ \A c \in Transports \ {"qb"} : data'[c] = data[c]
    BY <1>2, Zenon DEF ReadReply, read_frame, TypeOK
  <2>2. UNCHANGED <<broken, cut, fin, closed, pump>>
    BY <1>2, Zenon DEF ReadReply, appVars
  <2>3. "back" \in Dirs /\ "qb" = Mid("back") /\ pump[Behind("back")] # "end"
    BY <1>2, Zenon DEF ReadReply, Handlers, Mid, Behind, OfClient, Dirs
  <2> QED
    BY <1>a, <2>1, <2>2, <2>3, EndsKept, Zenon
<1>3. CASE ReplyFails
  BY <1>3, <1>a, Zenon DEF ReplyFails, ClientGivesUp
<1>4. CASE StartClient
  <2>1. /\ UNCHANGED <<broken, cut, fin, closed, data>>
        /\ \A p \in Pumps : pump'[p] = IF p \in OfClient THEN "read" ELSE pump[p]
    BY <1>4, Zenon DEF StartClient, appVars
  <2>2. \A p \in OfClient : pump[p] = "idle"
    BY <1>4, Zenon DEF StartClient, Handlers
  <2> QED
    BY <1>a, <2>1, <2>2, EndsKept, Zenon
<1>5. CASE ClientReturns
  <2>1. /\ UNCHANGED <<broken, fin, closed, pump>> /\ Cut({c \in {"lo", "qb"} : ~AtEnd(c)})
        /\ pump["co"] = "end" /\ pump["cb"] = "end"
    BY <1>5, Zenon DEF ClientReturns, appVars, OfClient
  <2>2. ASSUME ~broken PROVE AtEnd("lo") /\ AtEnd("qb") /\ cut = {}
    BY <2>1, <2>2, Zenon DEF Ends, AtEnd, Dirs, First, Mid, Before, Behind
  <2>3. ASSUME ~broken PROVE {c \in {"lo", "qb"} : ~AtEnd(c)} = {}
    BY <2>2, <2>3, Zenon
  <2>4. ASSUME ~broken PROVE cut' = cut /\ \A c \in Transports : data'[c] = data[c]
    BY <2>1, <2>3, <2>4, Zenon DEF Cut
  <2> QED
    BY <1>a, <2>1, <2>4, EndsKept, Zenon
<1>6. CASE ReadForward
  <2>1. data["qo"] # << >> /\ \A c \in Transports \ {"qo"} : data'[c] = data[c]
    BY <1>6, Zenon DEF ReadForward, read_frame, TypeOK
  <2>2. UNCHANGED <<broken, cut, fin, closed, pump>>
    BY <1>6, Zenon DEF ReadForward, appVars
  <2>3. "out" \in Dirs /\ "qo" = Mid("out") /\ pump[Behind("out")] # "end"
    BY <1>6, Zenon DEF ReadForward, Handlers, Mid, Behind, OfDaemon, Dirs
  <2> QED
    BY <1>a, <2>1, <2>2, <2>3, EndsKept, Zenon
<1>7. CASE ForwardFails
  BY <1>7, <1>a, Zenon DEF ForwardFails
<1>8. CASE Refuse
  BY <1>8, <1>a, Zenon DEF Refuse
<1>9. CASE StartDaemon /\ ~broken
  <2>0. "qb" \notin cut /\ daemon = "frame"
    BY <1>9 DEF Ends, StartDaemon
  <2>1. frame_bytes(OK) \in Seq(Nat) /\ "qb" \in Transports
    BY FrameIs DEF Transports, Quic
  <2>2. \A c \in Transports \ {"qb"} : data'[c] = data[c]
    BY <1>9, <2>0, <2>1, PutIs, Zenon DEF StartDaemon
  <2>3. "back" \in Dirs /\ "qb" = Mid("back") /\ pump[Behind("back")] # "end"
    BY <2>0, Zenon DEF Handlers, Mid, Behind, OfClient, Dirs
  <2>4. /\ UNCHANGED <<broken, cut, fin, closed>>
        /\ \A p \in Pumps : pump'[p] = IF p \in OfDaemon THEN "read" ELSE pump[p]
    BY <1>9, <2>0, Zenon DEF StartDaemon, appVars
  <2>5. \A p \in OfDaemon : pump[p] = "idle"
    BY <2>0, Zenon DEF Handlers
  <2> QED
    BY <1>9, <2>2, <2>3, <2>4, <2>5, EndsKept, Zenon
<1>10. CASE DaemonReturns
  <2>1. /\ UNCHANGED <<broken, fin, closed, pump>> /\ Cut({c \in {"qo", "tb"} : ~AtEnd(c)})
        /\ pump["do"] = "end" /\ pump["db"] = "end"
    BY <1>10, Zenon DEF DaemonReturns, appVars, OfDaemon
  <2>2. ASSUME ~broken PROVE AtEnd("qo") /\ AtEnd("tb") /\ cut = {}
    BY <2>1, <2>2, Zenon DEF Ends, AtEnd, Dirs, First, Mid, Before, Behind
  <2>3. ASSUME ~broken PROVE {c \in {"qo", "tb"} : ~AtEnd(c)} = {}
    BY <2>2, <2>3, Zenon
  <2>4. ASSUME ~broken PROVE cut' = cut /\ \A c \in Transports : data'[c] = data[c]
    BY <2>1, <2>3, <2>4, Zenon DEF Cut
  <2> QED
    BY <1>a, <2>1, <2>4, EndsKept, Zenon
<1>11. CASE Fault
  BY <1>11, <1>a, Zenon DEF Fault
<1>12. ASSUME NEW p \in Pumps, PumpRead(p) \/ PumpWrite(p) \/ PumpEnds(p) \/ PumpIdle(p), ~broken
       PROVE  Ends'
  <2>0. cut = {}
    BY <1>12, Zenon DEF Ends
  <2>1. PICK d \in Dirs : p = Before(d) \/ p = Behind(d)
    BY PumpIsOf, Zenon
  <2>2. CASE PumpRead(p)
    <3>1. /\ pump[p] = "read" /\ pump'[p] = "write"
          /\ \A q \in Pumps \ {p} : pump'[q] = pump[q]
          /\ UNCHANGED <<closed, fin, cut>>
      BY <2>2, Zenon DEF PumpRead, TypeOK, appVars
    <3>2. \A c \in Transports \ {Source[p]} : data'[c] = data[c]
      BY <2>2, PumpReadIs, Zenon
    <3>3. \/ Source[p] = First(d) /\ pump[Before(d)] # "end"
          \/ Source[p] = Mid(d) /\ pump[Behind(d)] # "end"
      BY <2>1, <3>1, Places, Zenon
    <3> QED
      BY <1>12, <3>1, <3>2, <3>3, EndsKept, Zenon
  <2>3. CASE PumpWrite(p)
    <3>1. /\ pump[p] = "write" /\ pump'[p] # "end"
          /\ \A q \in Pumps \ {p} : pump'[q] = pump[q]
          /\ UNCHANGED <<closed, fin, cut>>
      BY <2>3, Zenon DEF PumpWrite, TypeOK, appVars
    <3>2. \A c \in Transports \ {Sink[p]} : data'[c] = data[c]
      BY <2>3, Zenon DEF PumpWrite, Put, TypeOK
    <3>3. \/ Sink[p] = Mid(d) /\ pump[Behind(d)] # "end"
          \/ Sink[p] = Last(d)
      BY <1>12, <2>1, <3>1, Places, ZenonT(40) DEF Ends
    <3> QED
      BY <1>12, <3>1, <3>2, <3>3, EndsKept, Zenon
  <2>4. CASE PumpEnds(p)
    <3>1. pump[p] = "read" /\ AtEnd(Source[p])
      BY <2>0, <2>4, Zenon DEF PumpEnds, Unreadable
    <3>2. /\ pump'[p] = "end" /\ \A q \in Pumps \ {p} : pump'[q] = pump[q]
          /\ fin' = fin \cup {Sink[p]} /\ UNCHANGED <<broken, closed, cut, data>>
      BY <2>4, Zenon DEF PumpEnds, TypeOK, appVars
    <3> QED
      BY <1>12, <2>0, <3>1, <3>2 DEF Ends, AtEnd, Dirs, First, Mid, Last, Before, Behind, Source, Sink, Pumps
  <2>5. CASE PumpIdle(p)
    BY <2>5, <1>a, Zenon DEF PumpIdle
  <2> QED
    BY <1>12, <2>2, <2>3, <2>4, <2>5, Zenon
<1>13. ASSUME NEW d \in Dirs, AppSend(d) \/ AppClose(d) \/ AppRead(d) \/ AppEnd(d), ~broken
       PROVE  Ends'
  <2>1. CASE AppSend(d)
    <3>1. \A c \in Transports \ {First(d)} : data'[c] = data[c]
      BY <2>1 DEF AppSend, Put, TypeOK
    <3>2. pump[Before(d)] # "end"
      BY <1>13, <2>1, Zenon DEF AppSend, Ends
    <3> QED
      BY <1>13, <2>1, <3>1, <3>2, EndsKept, Zenon DEF AppSend
  <2>2. CASE AppClose(d)
    BY <1>13, <2>2, Zenon DEF AppClose, Ends, Dirs, First, Mid, Last
  <2>3. CASE AppRead(d)
    <3>1. \A c \in Transports \ {Last(d)} : data'[c] = data[c]
      BY <2>3 DEF AppRead, TypeOK
    <3> QED
      BY <1>13, <2>3, <3>1, EndsKept, Zenon DEF AppRead
  <2>4. CASE AppEnd(d)
    BY <1>13, <2>4, EndsKept, Zenon DEF AppEnd
  <2> QED
    BY <1>13, <2>1, <2>2, <2>3, <2>4, Zenon
<1>14. CASE UNCHANGED vars
  BY <1>14, Zenon DEF Ends, vars, appVars
<1>15. ASSUME broken, Next PROVE broken'
  BY <1>15, Zenon DEF Next, Client, Daemon, Pump, App, Request, ReadReply, ReplyFails, ClientGivesUp,
     StartClient, ClientReturns, ReadForward, ForwardFails, Refuse, StartDaemon, DaemonReturns,
     Fault, PumpRead, PumpWrite, PumpEnds, PumpIdle, AppSend, AppClose, AppRead, AppEnd
<1> QED
  BY ZenonT(40), <1>a, <1>1, <1>2, <1>3, <1>4, <1>5, <1>6, <1>7, <1>8, <1>9, <1>10, <1>11, <1>12, <1>13, <1>14,
     <1>15, Zenon DEF Next, Client, Daemon, Pump, App

-----------------------------------------------------------------------------
(***************************************************************************)
(* Numbered bytes in a sequence.                                           *)
(***************************************************************************)
\* An empty buffer holds bytes from wherever one likes.
LEMMA EmptyContinues == \A k, n : Continues(<< >>, k, n)
  BY DEF Continues

\* What is put behind all the rest is the next byte.
LEMMA PutContinues ==
    ASSUME NEW s \in Seq(Nat), NEW k \in 0 .. Len(s), NEW n \in Nat,
           Continues(s, k, n), NEW b \in Nat, b = n + Len(s) - k + 1
    PROVE  /\ s \o <<b>> \in Seq(Nat)
           /\ Len(s \o <<b>>) = Len(s) + 1
           /\ Continues(s \o <<b>>, k, n)
<1>1. s \o <<b>> \in Seq(Nat) /\ Len(s \o <<b>>) = Len(s) + 1
  OBVIOUS
<1>2. \A i \in 1 .. Len(s) + 1 : (s \o <<b>>)[i] = IF i <= Len(s) THEN s[i] ELSE b
  OBVIOUS
<1>3. ASSUME NEW i \in 1 .. Len(s) + 1, i > k PROVE (s \o <<b>>)[i] = n + i - k
  <2>1. CASE i \in 1 .. Len(s)
    <3>1. s[i] = n + i - k
      BY <1>3, <2>1 DEF Continues
    <3> QED
      BY <1>2, <2>1, <3>1
  <2>2. CASE i = Len(s) + 1
    <3>1. Len(s) \in Nat /\ ~(i <= Len(s))
      BY <2>2
    <3>2. (s \o <<b>>)[i] = b
      BY <1>2, <3>1, Zenon
    <3> QED
      BY <2>2, <3>1, <3>2
  <2>3. Len(s) \in Nat
    OBVIOUS
  <2>4. i \in 1 .. Len(s) \/ i = Len(s) + 1
    BY <2>3, SMTT(30)
  <2> QED
    BY <2>1, <2>2, <2>4, Zenon
<1> QED
  BY <1>1, <1>3, Zenon DEF Continues

\* Taking the first byte.
LEMMA TailContinues ==
    ASSUME NEW s \in Seq(Nat), s # << >>, NEW n \in Nat, Continues(s, 0, n)
    PROVE  /\ Head(s) = n + 1
           /\ Continues(Tail(s), 0, n + 1)
<1>1. Len(s) \in Nat /\ Len(s) > 0 /\ Head(s) = s[1] /\ Tail(s) \in Seq(Nat) /\ Len(Tail(s)) = Len(s) - 1
  OBVIOUS
<1>2. \A i \in 1 .. Len(s) - 1 : Tail(s)[i] = s[i + 1]
  BY <1>1
<1>3. DOMAIN Tail(s) = 1 .. Len(s) - 1 /\ DOMAIN s = 1 .. Len(s)
  BY <1>1
<1> QED
  BY <1>1, <1>2, <1>3 DEF Continues

\* Reading a symbol of the frame in front of the bytes.
LEMMA TailSkips ==
    ASSUME NEW s \in Seq(Nat), NEW k \in 1 .. Len(s), NEW n \in Nat, Continues(s, k, n)
    PROVE  Continues(Tail(s), k - 1, n)
<1>1. Len(s) \in Nat /\ Len(s) > 0 /\ Tail(s) \in Seq(Nat) /\ Len(Tail(s)) = Len(s) - 1
  OBVIOUS
<1>2. \A i \in 1 .. Len(s) - 1 : Tail(s)[i] = s[i + 1]
  BY <1>1
<1>3. DOMAIN Tail(s) = 1 .. Len(s) - 1 /\ DOMAIN s = 1 .. Len(s)
  BY <1>1
<1> QED
  BY <1>1, <1>2, <1>3 DEF Continues

\* A read of the first m bytes.
LEMMA ReadContinues ==
    ASSUME NEW s \in Seq(Nat), NEW m \in 1 .. Len(s), NEW n \in Nat, Continues(s, 0, n)
    PROVE  /\ SubSeq(s, 1, m) \in Seq(Nat) /\ Len(SubSeq(s, 1, m)) = m
           /\ Continues(SubSeq(s, 1, m), 0, n)
           /\ SubSeq(s, m + 1, Len(s)) \in Seq(Nat) /\ Len(SubSeq(s, m + 1, Len(s))) = Len(s) - m
           /\ Continues(SubSeq(s, m + 1, Len(s)), 0, n + m)
<1>0. Len(s) \in Nat /\ m \in Nat /\ \A i \in 1 .. Len(s) : s[i] \in Nat /\ s[i] = n + i
  BY SMTT(30) DEF Continues
<1> DEFINE t == SubSeq(s, 1, m)
<1> DEFINE u == SubSeq(s, m + 1, Len(s))
<1>1. t \in Seq(Nat) /\ Len(t) = m /\ \A i \in 1 .. m : t[i] = s[i]
  BY <1>0
<1>2. u \in Seq(Nat) /\ Len(u) = Len(s) - m /\ \A i \in 1 .. Len(s) - m : u[i] = s[m + i]
  BY <1>0
<1> HIDE DEF t, u
<1>3. DOMAIN t = 1 .. m /\ DOMAIN u = 1 .. Len(s) - m
  BY <1>1, <1>2
<1>4. ASSUME NEW i \in 1 .. m PROVE t[i] = n + i - 0
  <2>1. i \in 1 .. Len(s)
    BY <1>0
  <2> QED
    BY <1>0, <1>1, <2>1, SMTT(30)
<1>5. ASSUME NEW i \in 1 .. Len(s) - m PROVE u[i] = n + m + i - 0
  <2>1. m + i \in 1 .. Len(s)
    BY <1>0
  <2>2. s[m + i] = n + (m + i)
    BY <1>0, <2>1, Zenon
  <2> QED
    BY <1>0, <1>2, <2>2
<1> QED
  BY <1>1, <1>2, <1>3, <1>4, <1>5, Zenon DEF t, u, Continues

\* The same of a place: a byte is taken from it, ...
LEMMA LinkTake ==
    ASSUME NEW lo \in Nat, NEW hi \in Nat, NEW s \in Seq(Nat), s # << >>, Link(lo, s, 0, hi)
    PROVE  /\ Head(s) = lo + 1 /\ lo + 1 <= hi
           /\ Link(lo + 1, Tail(s), 0, hi)
           /\ Full(lo, s, 0, hi) => Full(lo + 1, Tail(s), 0, hi)
<1>1. Len(s) \in Nat /\ Len(s) > 0 /\ Len(Tail(s)) = Len(s) - 1
  OBVIOUS
<1>2. Head(s) = lo + 1 /\ Continues(Tail(s), 0, lo + 1)
  BY TailContinues DEF Link
<1>3. lo + 1 + Len(Tail(s)) - 0 = lo + Len(s) - 0 /\ lo + 1 <= lo + Len(s) - 0
  BY <1>1
<1> QED
  BY <1>1, <1>2, <1>3, SMTT(30) DEF Link, Full

\* ... or put into it, ...
LEMMA LinkPut ==
    ASSUME NEW lo \in Nat, NEW hi \in Nat, NEW s \in Seq(Nat), NEW k \in 0 .. Len(s),
           Link(lo, s, k, hi), Full(lo, s, k, hi)
    PROVE  Link(lo, s \o <<hi + 1>>, k, hi + 1) /\ Full(lo, s \o <<hi + 1>>, k, hi + 1)
<1>0. Len(s) \in Nat
  OBVIOUS
<1>1. hi + 1 \in Nat /\ hi + 1 = lo + Len(s) - k + 1
  BY <1>0, SMTT(30) DEF Full
<1>2. Len(s \o <<hi + 1>>) = Len(s) + 1 /\ Continues(s \o <<hi + 1>>, k, lo)
  BY <1>1, PutContinues, Zenon DEF Link
<1>3. Len(s) \in Nat /\ k \in Nat
  OBVIOUS
<1>4. lo + Len(s \o <<hi + 1>>) - k = hi + 1
  BY <1>1, <1>2, <1>3
<1> QED
  BY <1>1, <1>2, <1>4 DEF Link, Full

\* ... some of it is read, ...
LEMMA LinkRead ==
    ASSUME NEW lo \in Nat, NEW hi \in Nat, NEW s \in Seq(Nat), NEW n \in 1 .. Len(s), Link(lo, s, 0, hi)
    PROVE  /\ Link(lo, SubSeq(s, 1, n), 0, lo + n) /\ Full(lo, SubSeq(s, 1, n), 0, lo + n)
           /\ Link(lo + n, SubSeq(s, n + 1, Len(s)), 0, hi)
           /\ Full(lo, s, 0, hi) => Full(lo + n, SubSeq(s, n + 1, Len(s)), 0, hi)
<1> DEFINE t == SubSeq(s, 1, n)
<1> DEFINE u == SubSeq(s, n + 1, Len(s))
<1>1. /\ Len(t) = n /\ Continues(t, 0, lo)
      /\ Len(u) = Len(s) - n /\ Continues(u, 0, lo + n)
  BY ReadContinues DEF Link
<1>2. Len(s) \in Nat /\ n \in Nat
  OBVIOUS
<1> HIDE DEF t, u
<1>3. lo + Len(t) - 0 = lo + n /\ lo + n + Len(u) - 0 = lo + Len(s) - 0
  BY <1>1, <1>2
<1>4. Link(lo, t, 0, lo + n) /\ Full(lo, t, 0, lo + n)
  BY <1>1, <1>2, <1>3 DEF Link, Full
<1>5. Link(lo + n, u, 0, hi) /\ (Full(lo, s, 0, hi) => Full(lo + n, u, 0, hi))
  BY <1>1, <1>3, SMTT(30) DEF Link, Full
<1> QED
  BY <1>4, <1>5 DEF t, u

\* ... all of it is dropped, ...
LEMMA LinkDrop ==
    ASSUME NEW lo \in Nat, NEW hi \in Nat, NEW s \in Seq(Nat), NEW k \in 0 .. Len(s), Link(lo, s, k, hi)
    PROVE  Link(lo, << >>, 0, hi)
<1>1. Len(s) \in Nat /\ lo + Len(s) - k <= hi /\ Len(<< >>) = 0
  BY DEF Link
<1>2. lo + Len(<< >>) - 0 <= hi
  BY <1>1
<1> QED
  BY <1>2, EmptyContinues DEF Link

\* ... a symbol of the frame in front is read, ...
LEMMA LinkSkip ==
    ASSUME NEW lo \in Nat, NEW hi \in Nat, NEW s \in Seq(Nat), NEW k \in 1 .. Len(s), Link(lo, s, k, hi)
    PROVE  /\ Link(lo, Tail(s), k - 1, hi)
           /\ Full(lo, s, k, hi) => Full(lo, Tail(s), k - 1, hi)
<1>1. Continues(Tail(s), k - 1, lo)
  BY TailSkips, Zenon DEF Link
<1>2. s # << >> /\ Len(s) \in Nat /\ k \in Nat
  OBVIOUS
<1>3. Len(Tail(s)) = Len(s) - 1
  BY <1>2
<1>4. lo + Len(Tail(s)) - (k - 1) = lo + Len(s) - k
  BY <1>2, <1>3
<1> QED
  BY <1>1, <1>4, Zenon DEF Link, Full

\* ... or it holds nothing but frames.
LEMMA LinkFrame ==
    ASSUME NEW lo \in Nat, NEW hi \in Nat, NEW s \in Seq(Nat), NEW t \in Seq(Nat), Link(lo, s, Len(s), hi)
    PROVE  /\ Link(lo, t, Len(t), hi)
           /\ Full(lo, s, Len(s), hi) => Full(lo, t, Len(t), hi)
<1>1. Len(s) \in Nat /\ Len(t) \in Nat
  OBVIOUS
<1>2. Continues(t, Len(t), lo)
  BY <1>1 DEF Continues
<1>3. lo + Len(s) - Len(s) = lo /\ lo + Len(t) - Len(t) = lo
  BY <1>1
<1> QED
  BY <1>2, <1>3, Zenon DEF Link, Full

\* Nothing is between the ends of an empty place.
LEMMA LinkEmpty ==
    ASSUME NEW lo \in Nat, NEW hi \in Nat
    PROVE  /\ Full(lo, << >>, 0, hi) => lo = hi
           /\ Link(lo, << >>, 0, hi) => lo <= hi
           /\ Link(lo, << >>, 0, lo) /\ Full(lo, << >>, 0, lo)
<1>1. Len(<< >>) = 0
  OBVIOUS
<1>2. lo + Len(<< >>) - 0 = lo
  BY <1>1
<1> QED
  BY <1>2, EmptyContinues DEF Link, Full

\* What was written, and what was read, is numbered from one.
LEMMA NextContinues ==
    ASSUME NEW s \in Seq(Nat), Continues(s, 0, 0)
    PROVE  Continues(s \o <<Len(s) + 1>>, 0, 0) /\ Len(s \o <<Len(s) + 1>>) = Len(s) + 1
<1>1. Len(s) \in Nat
  OBVIOUS
<1>2. 0 \in 0 .. Len(s) /\ 0 \in Nat /\ Len(s) + 1 \in Nat /\ Len(s) + 1 = 0 + Len(s) - 0 + 1
  BY <1>1
<1> QED
  BY <1>2, PutContinues

-----------------------------------------------------------------------------
(***************************************************************************)
(* The order of the bytes.                                                 *)
(***************************************************************************)
\* The frame in front is no longer than what the stream holds.
LEMMA SkipBound ==
    ASSUME TypeOK, Handlers, ReplyFrame, NEW d \in Dirs
    PROVE  Skip(d) \in 0 .. Len(data[Mid(d)])
<1>0. Mid(d) \in Transports
  BY Places, SMTT(30)
<1>1. Len(data[Mid(d)]) \in Nat
  BY <1>0, SMTT(30) DEF TypeOK
<1>2. CASE pump[Before(d)] = "idle"
  BY <1>1, <1>2 DEF Skip
<1>3. CASE pump[Before(d)] # "idle" /\ d = "back" /\ client = "reply" /\ "qb" \notin cut
  <2>1. daemon \in {"relay", "done"} /\ Mid(d) = "qb"
    BY <1>3, SMTT(30) DEF Handlers, OfDaemon, Before, Mid
  <2>2. Unread <= Len(data[Mid(d)])
    BY <1>3, <2>1 DEF ReplyFrame
  <2>3. Unread \in Nat
    BY UnreadType, RelayAssumption
  <2>4. Skip(d) = Unread
    BY <1>3 DEF Skip
  <2> QED
    BY <1>1, <2>2, <2>3, <2>4, SMTT(30)
<1>4. CASE pump[Before(d)] # "idle" /\ ~(d = "back" /\ client = "reply" /\ "qb" \notin cut)
  BY <1>1, <1>4, SMTT(30) DEF Skip
<1> QED
  BY <1>2, <1>3, <1>4, Zenon

\* The places hold bytes.
Sequences(d) ==
    /\ data[First(d)] \in Seq(Nat) /\ data[Mid(d)] \in Seq(Nat) /\ data[Last(d)] \in Seq(Nat)
    /\ buf[Before(d)] \in Seq(Nat) /\ buf[Behind(d)] \in Seq(Nat)
    /\ sent[d] \in Seq(Nat) /\ got[d] \in Seq(Nat)
    /\ Len(sent[d]) \in Nat /\ Len(got[d]) \in Nat /\ counted[d] \in Nat

\* The type invariant, for one direction.
LEMMA Sizes ==
    ASSUME TypeOK, NEW d \in Dirs
    PROVE  Sequences(d)
  BY Places, SMTT(30) DEF TypeOK, Sequences

\* A transport, the stream and a buffer that are left alone or dropped.
LEMMA TransportKept ==
    ASSUME NEW c \in Transports, data[c] \in Seq(Nat), Buffers', cut \subseteq cut',
           c \in cut' \/ data'[c] = data[c],
           NEW lo \in Nat, NEW hi \in Nat, Piece(lo, data[c], 0, hi, c \notin cut)
    PROVE  Piece(lo, data'[c], 0, hi, c \notin cut')
<1>1. CASE c \in cut'
  <2>1. data'[c] = << >>
    BY <1>1 DEF Buffers
  <2>2. 0 \in 0 .. Len(data[c])
    OBVIOUS
  <2> QED
    BY <1>1, <2>1, <2>2, LinkDrop, Zenon DEF Piece
<1>2. CASE c \notin cut'
  BY <1>2 DEF Piece
<1> QED
  BY <1>1, <1>2

\* A buffer.
LEMMA BufferKept ==
    ASSUME NEW p \in Pumps, buf[p] \in Seq(Nat), broken => broken', pump[p] = "end" => pump'[p] = "end",
           buf'[p] = buf[p] \/ (buf'[p] = << >> /\ pump'[p] = "end" /\ broken'),
           NEW lo \in Nat, NEW hi \in Nat, Piece(lo, buf[p], 0, hi, ~(pump[p] = "end" /\ broken))
    PROVE  Piece(lo, buf'[p], 0, hi, ~(pump'[p] = "end" /\ broken'))
<1>1. CASE buf'[p] = buf[p]
  BY <1>1, Zenon DEF Piece
<1>2. CASE buf'[p] = << >> /\ pump'[p] = "end" /\ broken'
  <2>1. 0 \in 0 .. Len(buf[p])
    OBVIOUS
  <2> QED
    BY <1>2, <2>1, LinkDrop, Zenon DEF Piece
<1> QED
  BY <1>1, <1>2, Zenon

\* The stream, with a frame in front of the bytes or without.
LEMMA StreamKept ==
    ASSUME NEW d \in Dirs, data[Mid(d)] \in Seq(Nat), data'[Mid(d)] \in Seq(Nat), Buffers', cut \subseteq cut',
           Skip(d) \in 0 .. Len(data[Mid(d)]),
           \/ Mid(d) \in cut'
           \/ data'[Mid(d)] = data[Mid(d)] /\ Skip(d)' = Skip(d)
           \/ Skip(d) = Len(data[Mid(d)]) /\ Skip(d)' = Len(data'[Mid(d)]),
           NEW lo \in Nat, NEW hi \in Nat, Piece(lo, data[Mid(d)], Skip(d), hi, Mid(d) \notin cut)
    PROVE  Piece(lo, data'[Mid(d)], Skip(d)', hi, Mid(d) \notin cut')
<1>1. CASE Mid(d) \in cut'
  <2>1. data'[Mid(d)] = << >> /\ Len(<< >>) = 0
    BY <1>1 DEF Buffers
  <2>2. Skip(d)' = 0
    BY <1>1, <2>1, Zenon DEF Skip, Mid
  <2>3. Link(lo, << >>, 0, hi)
    BY LinkDrop DEF Piece
  <2> QED
    BY <1>1, <2>1, <2>2, <2>3, Zenon DEF Piece
<1>2. CASE Mid(d) \notin cut' /\ data'[Mid(d)] = data[Mid(d)] /\ Skip(d)' = Skip(d)
  BY <1>2, Zenon DEF Piece
<1>3. CASE Mid(d) \notin cut' /\ Skip(d) = Len(data[Mid(d)]) /\ Skip(d)' = Len(data'[Mid(d)])
  BY <1>3, LinkFrame, SMTT(30) DEF Piece
<1> QED
  BY <1>1, <1>2, <1>3, Zenon

\* The order is kept when each place keeps what it holds, or drops it and is
\* cut or has ended.
LEMMA OrderKept ==
    ASSUME TypeOK, Handlers, ReplyFrame, TypeOK', Buffers', NEW d \in Dirs, InOrder(d),
           sent'[d] = sent[d], got'[d] = got[d], counted'[d] = counted[d],
           cut \subseteq cut', broken => broken',
           \A c \in {First(d), Last(d)} \ cut' : data'[c] = data[c],
           \A p \in {Before(d), Behind(d)} :
             /\ pump[p] = "end" => pump'[p] = "end"
             /\ buf'[p] = buf[p] \/ (buf'[p] = << >> /\ pump'[p] = "end" /\ broken'),
           Mid(d) \notin cut' => \/ data'[Mid(d)] = data[Mid(d)] /\ Skip(d)' = Skip(d)
                                 \/ Skip(d) = Len(data[Mid(d)]) /\ Skip(d)' = Len(data'[Mid(d)])
    PROVE  InOrder(d)'
<1>0. PICK h, m, b, f \in Nat : Line(d, h, m, b, f)
  BY DEF InOrder
<1>1. Sequences(d) /\ data'[Mid(d)] \in Seq(Nat)
  BY Sizes, Places, ZenonT(40) DEF TypeOK
<1>2. {First(d), Mid(d), Last(d)} \subseteq Transports /\ {Before(d), Behind(d)} \subseteq Pumps
  BY Places
<1>3. Piece(Len(got[d]), data'[Last(d)], 0, h, Last(d) \notin cut')
  BY <1>0, <1>1, <1>2, TransportKept, Zenon DEF Line, Sequences
<1>4. Piece(h, buf'[Behind(d)], 0, m, ~(pump'[Behind(d)] = "end" /\ broken'))
  BY <1>0, <1>1, <1>2, BufferKept, Zenon DEF Line, Sequences
<1>5. Piece(m, data'[Mid(d)], Skip(d)', b, Mid(d) \notin cut')
  <2>1. Skip(d) \in 0 .. Len(data[Mid(d)])
    BY SkipBound
  <2>2. data[Mid(d)] \in Seq(Nat) /\ Piece(m, data[Mid(d)], Skip(d), b, Mid(d) \notin cut)
    BY <1>0, <1>1, Zenon DEF Line, Sequences
  <2> QED
    BY <1>1, <2>1, <2>2, StreamKept, ZenonT(40)
<1>6. Piece(b, buf'[Before(d)], 0, f, ~(pump'[Before(d)] = "end" /\ broken'))
  BY <1>0, <1>1, <1>2, BufferKept, Zenon DEF Line, Sequences
<1>7. Piece(f, data'[First(d)], 0, Len(sent[d]), First(d) \notin cut')
  BY <1>0, <1>1, <1>2, TransportKept, Zenon DEF Line, Sequences
<1>8. Line(d, h, m, b, f)'
  BY <1>0, <1>3, <1>4, <1>5, <1>6, <1>7, ZenonT(40) DEF Line
<1> QED
  BY <1>8, ZenonT(40) DEF InOrder

\* An application writes its next byte.
LEMMA SendKept ==
    ASSUME TypeOK, NEW d \in Dirs, InOrder(d),
           UNCHANGED <<cut, broken, pump, buf, got, counted>>, Skip(d)' = Skip(d),
           data'[Mid(d)] = data[Mid(d)], data'[Last(d)] = data[Last(d)],
           sent'[d] = sent[d] \o <<Len(sent[d]) + 1>>,
           data'[First(d)] = data[First(d)] \o <<Len(sent[d]) + 1>>, First(d) \notin cut
    PROVE  InOrder(d)'
<1>0. PICK h, m, b, f \in Nat : Line(d, h, m, b, f)
  BY Zenon DEF InOrder
<1>1. Sequences(d)
  BY Sizes, Zenon
<1>2. 0 \in 0 .. Len(data[First(d)]) /\ 0 \in 0 .. Len(sent[d]) /\ 0 \in Nat /\ Len(sent[d]) + 1 \in Nat
  BY <1>1, SMTT(30) DEF Sequences
<1>3. Piece(f, data'[First(d)], 0, Len(sent[d]) + 1, First(d) \notin cut')
  BY <1>0, <1>1, <1>2, LinkPut, ZenonT(40) DEF Line, Piece, Sequences
<1>4. Continues(sent'[d], 0, 0) /\ Len(sent'[d]) = Len(sent[d]) + 1
  BY <1>0, <1>1, NextContinues, SMTT(30) DEF Line, Sequences
<1>5. Line(d, h, m, b, f)'
  BY <1>0, <1>3, <1>4, Zenon DEF Line, Piece
<1> QED
  BY <1>5, SMTT(30) DEF InOrder

\* An application reads a byte: it is the next one.
LEMMA DeliverKept ==
    ASSUME TypeOK, NEW d \in Dirs, InOrder(d),
           UNCHANGED <<cut, broken, pump, buf, sent, counted>>, Skip(d)' = Skip(d),
           data'[Mid(d)] = data[Mid(d)], data'[First(d)] = data[First(d)],
           data[Last(d)] # << >>, data'[Last(d)] = Tail(data[Last(d)]),
           got'[d] = got[d] \o <<Head(data[Last(d)])>>
    PROVE  InOrder(d)'
<1>0. PICK h, m, b, f \in Nat : Line(d, h, m, b, f)
  BY Zenon DEF InOrder
<1>1. Sequences(d)
  BY Sizes, Zenon
<1>2. 0 \in 0 .. Len(got[d]) /\ 0 \in Nat /\ Len(got[d]) + 1 \in Nat
  BY <1>1 DEF Sequences
<1>3. /\ Head(data[Last(d)]) = Len(got[d]) + 1
      /\ Piece(Len(got[d]) + 1, data'[Last(d)], 0, h, Last(d) \notin cut')
  BY <1>0, <1>1, LinkTake, ZenonT(40) DEF Line, Piece, Sequences
<1>4. Continues(got'[d], 0, 0) /\ Len(got'[d]) = Len(got[d]) + 1
  BY <1>0, <1>1, <1>3, NextContinues, Zenon DEF Line, Sequences
<1>5. Line(d, h, m, b, f)'
  BY <1>0, <1>3, <1>4, Zenon DEF Line, Piece
<1> QED
  BY <1>5, Zenon DEF InOrder

\* The pump behind the stream writes a byte.
LEMMA WriteBehindKept ==
    ASSUME TypeOK, NEW d \in Dirs, InOrder(d),
           UNCHANGED <<cut, broken, got, sent, counted>>, Skip(d)' = Skip(d),
           \A p \in {Before(d), Behind(d)} : pump'[p] = "end" <=> pump[p] = "end",
           data'[Mid(d)] = data[Mid(d)], data'[First(d)] = data[First(d)],
           buf'[Before(d)] = buf[Before(d)], Last(d) \notin cut,
           buf[Behind(d)] # << >>, buf'[Behind(d)] = Tail(buf[Behind(d)]),
           data'[Last(d)] = data[Last(d)] \o <<Head(buf[Behind(d)])>>
    PROVE  InOrder(d)'
<1>0. PICK h, m, b, f \in Nat : Line(d, h, m, b, f)
  BY Zenon DEF InOrder
<1>1. Sequences(d)
  BY Sizes, ZenonT(40)
<1>2. 0 \in 0 .. Len(data[Last(d)]) /\ 0 \in Nat /\ h + 1 \in Nat
  BY <1>1, SMTT(30) DEF Sequences
<1>3. /\ Head(buf[Behind(d)]) = h + 1
      /\ Piece(h + 1, buf'[Behind(d)], 0, m, ~(pump'[Behind(d)] = "end" /\ broken'))
  <2>1. /\ buf[Behind(d)] \in Seq(Nat) /\ Link(h, buf[Behind(d)], 0, m)
        /\ ~(pump'[Behind(d)] = "end" /\ broken') => Full(h, buf[Behind(d)], 0, m)
    BY <1>0, <1>1, Zenon DEF Line, Piece, Sequences
  <2> QED
    BY <2>1, LinkTake DEF Piece
<1>4. Piece(Len(got[d]), data'[Last(d)], 0, h + 1, Last(d) \notin cut')
  BY <1>0, <1>1, <1>2, <1>3, LinkPut, ZenonT(40) DEF Line, Piece, Sequences
<1>5. Line(d, h + 1, m, b, f)'
  BY <1>0, <1>3, <1>4, Zenon DEF Line, Piece
<1> QED
  BY <1>2, <1>5, Zenon DEF InOrder

\* The pump before the stream writes a byte.
LEMMA WriteBeforeKept ==
    ASSUME TypeOK, NEW d \in Dirs, InOrder(d), Skip(d) \in 0 .. Len(data[Mid(d)]),
           UNCHANGED <<cut, broken, got, sent, counted>>, Skip(d)' = Skip(d),
           \A p \in {Before(d), Behind(d)} : pump'[p] = "end" <=> pump[p] = "end",
           data'[Last(d)] = data[Last(d)], data'[First(d)] = data[First(d)],
           buf'[Behind(d)] = buf[Behind(d)], Mid(d) \notin cut,
           buf[Before(d)] # << >>, buf'[Before(d)] = Tail(buf[Before(d)]),
           data'[Mid(d)] = data[Mid(d)] \o <<Head(buf[Before(d)])>>
    PROVE  InOrder(d)'
<1>0. PICK h, m, b, f \in Nat : Line(d, h, m, b, f)
  BY Zenon DEF InOrder
<1>1. Sequences(d)
  BY Sizes, ZenonT(40)
<1>2. b + 1 \in Nat
  BY SMTT(30)
<1>3. /\ Head(buf[Before(d)]) = b + 1
      /\ Piece(b + 1, buf'[Before(d)], 0, f, ~(pump'[Before(d)] = "end" /\ broken'))
  <2>1. /\ buf[Before(d)] \in Seq(Nat) /\ Link(b, buf[Before(d)], 0, f)
        /\ ~(pump'[Before(d)] = "end" /\ broken') => Full(b, buf[Before(d)], 0, f)
    BY <1>0, <1>1, Zenon DEF Line, Piece, Sequences
  <2> QED
    BY <2>1, LinkTake, SMTT(30) DEF Piece
<1>4. Piece(m, data'[Mid(d)], Skip(d)', b + 1, Mid(d) \notin cut')
  BY <1>0, <1>1, <1>3, LinkPut, ZenonT(40) DEF Line, Piece, Sequences
<1>5. Line(d, h, m, b + 1, f)'
  BY <1>0, <1>3, <1>4, Zenon DEF Line, Piece
<1> QED
  BY <1>2, <1>5, Zenon DEF InOrder

\* The pump behind the stream reads n bytes.
LEMMA ReadBehindKept ==
    ASSUME TypeOK, NEW d \in Dirs, InOrder(d),
           UNCHANGED <<cut, broken, got, sent>>, Skip(d) = 0, Skip(d)' = 0,
           \A p \in {Before(d), Behind(d)} : pump'[p] = "end" <=> pump[p] = "end",
           data'[Last(d)] = data[Last(d)], data'[First(d)] = data[First(d)],
           buf'[Before(d)] = buf[Before(d)],
           pump[Behind(d)] # "end", buf[Behind(d)] = << >>, NEW n \in 1 .. Len(data[Mid(d)]),
           buf'[Behind(d)] = SubSeq(data[Mid(d)], 1, n),
           data'[Mid(d)] = SubSeq(data[Mid(d)], n + 1, Len(data[Mid(d)])),
           counted'[d] = IF d = "back" THEN counted[d] + n ELSE counted[d]
    PROVE  InOrder(d)'
<1>0. PICK h, m, b, f \in Nat : Line(d, h, m, b, f)
  BY Zenon DEF InOrder
<1>1. Sequences(d)
  BY Sizes, Zenon
<1>2. m + n \in Nat /\ h = m
  <2>1. Full(h, << >>, 0, m)
    BY <1>0, Zenon DEF Line, Piece
  <2> QED
    BY <2>1, LinkEmpty
<1>3. /\ Piece(m, buf'[Behind(d)], 0, m + n, ~(pump'[Behind(d)] = "end" /\ broken'))
      /\ Piece(m + n, data'[Mid(d)], 0, b, Mid(d) \notin cut')
  BY <1>0, <1>1, LinkRead, ZenonT(40) DEF Line, Piece, Sequences
<1>4. counted'[d] = IF d = "out" THEN f ELSE m + n
  <2>1. counted[d] = IF d = "out" THEN f ELSE m
    BY <1>0, Zenon DEF Line
  <2> QED
    BY <2>1, Zenon DEF Dirs
<1>5. Line(d, m, m + n, b, f)'
  BY <1>0, <1>2, <1>3, <1>4, Zenon DEF Line, Piece
<1> QED
  BY <1>2, <1>5, SMTT(30) DEF InOrder

\* The pump before the stream reads n bytes.
LEMMA ReadBeforeKept ==
    ASSUME TypeOK, NEW d \in Dirs, InOrder(d),
           UNCHANGED <<cut, broken, got, sent>>, Skip(d)' = Skip(d),
           \A p \in {Before(d), Behind(d)} : pump'[p] = "end" <=> pump[p] = "end",
           data'[Last(d)] = data[Last(d)], data'[Mid(d)] = data[Mid(d)],
           buf'[Behind(d)] = buf[Behind(d)],
           pump[Before(d)] # "end", buf[Before(d)] = << >>, NEW n \in 1 .. Len(data[First(d)]),
           buf'[Before(d)] = SubSeq(data[First(d)], 1, n),
           data'[First(d)] = SubSeq(data[First(d)], n + 1, Len(data[First(d)])),
           counted'[d] = IF d = "out" THEN counted[d] + n ELSE counted[d]
    PROVE  InOrder(d)'
<1>0. PICK h, m, b, f \in Nat : Line(d, h, m, b, f)
  BY Zenon DEF InOrder
<1>1. Sequences(d)
  BY Sizes, Zenon
<1>2. f + n \in Nat /\ b = f
  <2>1. Full(b, << >>, 0, f)
    BY <1>0, Zenon DEF Line, Piece
  <2> QED
    BY <2>1, LinkEmpty
<1>3. /\ Piece(f, buf'[Before(d)], 0, f + n, ~(pump'[Before(d)] = "end" /\ broken'))
      /\ Piece(f + n, data'[First(d)], 0, Len(sent[d]), First(d) \notin cut')
  BY <1>0, <1>1, LinkRead, ZenonT(40) DEF Line, Piece, Sequences
<1>4. counted'[d] = IF d = "out" THEN f + n ELSE m
  <2>1. counted[d] = IF d = "out" THEN f ELSE m
    BY <1>0, Zenon DEF Line
  <2> QED
    BY <2>1, Zenon
<1>5. Line(d, h, m, f, f + n)'
  BY <1>0, <1>2, <1>3, <1>4, Zenon DEF Line, Piece
<1> QED
  BY <1>2, <1>5, Zenon DEF InOrder

\* The client reads a symbol of the reply.
LEMMA SkipKept ==
    ASSUME TypeOK, NEW d \in Dirs, InOrder(d),
           UNCHANGED <<cut, broken, got, sent, counted, pump, buf>>,
           data'[Last(d)] = data[Last(d)], data'[First(d)] = data[First(d)],
           Skip(d) \in 1 .. Len(data[Mid(d)]), Skip(d)' = Skip(d) - 1,
           data'[Mid(d)] = Tail(data[Mid(d)])
    PROVE  InOrder(d)'
<1>0. PICK h, m, b, f \in Nat : Line(d, h, m, b, f)
  BY Zenon DEF InOrder
<1>1. Sequences(d)
  BY Sizes
<1>2. Piece(m, data'[Mid(d)], Skip(d)', b, Mid(d) \notin cut')
  BY <1>0, <1>1, LinkSkip, Zenon DEF Line, Piece, Sequences
<1>3. Line(d, h, m, b, f)'
  BY <1>0, <1>2, Zenon DEF Line, Piece
<1> QED
  BY <1>3, Zenon DEF InOrder

\* The frame in front is as long as before when nobody has touched it, and
\* is all there is as long as no pump writes behind it.
LEMMA SkipSame ==
    ASSUME NEW d \in Dirs, pump'[Before(d)] = "idle" <=> pump[Before(d)] = "idle",
           data'[Mid(d)] = data[Mid(d)],
           d = "back" => /\ client' = "reply" <=> client = "reply"
                         /\ "qb" \in cut' <=> "qb" \in cut
                         /\ left'["client"] = left["client"]
    PROVE  Skip(d)' = Skip(d)
<1>1. CASE d = "back"
  <2>1. Unread' = Unread
    BY <1>1, UnreadKept
  <2> QED
    BY <1>1, <2>1, ZenonT(40) DEF Skip
<1>2. CASE d # "back"
  BY <1>2, Zenon DEF Skip
<1> QED
  BY <1>1, <1>2

\* Before its relay runs a side has only a frame on the stream.
LEMMA SkipAll ==
    ASSUME NEW d \in Dirs, pump'[Before(d)] = "idle", pump[Before(d)] = "idle"
    PROVE  Skip(d) = Len(data[Mid(d)]) /\ Skip(d)' = Len(data'[Mid(d)])
  BY Zenon DEF Skip

\* A direction no step has touched.
LEMMA Untouched ==
    ASSUME TypeOK, Handlers, ReplyFrame, TypeOK', Buffers', NEW d \in Dirs, InOrder(d),
           sent'[d] = sent[d], got'[d] = got[d], counted'[d] = counted[d],
           UNCHANGED <<cut, broken, client, left>>,
           data'[First(d)] = data[First(d)], data'[Mid(d)] = data[Mid(d)], data'[Last(d)] = data[Last(d)],
           \A p \in {Before(d), Behind(d)} : pump'[p] = pump[p] /\ buf'[p] = buf[p]
    PROVE  InOrder(d)'
<1>1. Skip(d)' = Skip(d)
  BY SkipSame, Zenon
<1> QED
  BY <1>1, OrderKept, Zenon

\* A pump reads from its own transport only.
LEMMA PumpReadOrder ==
    ASSUME IInv, TypeOK', Buffers', NEW p \in Pumps, PumpRead(p), NEW d \in Dirs
    PROVE  InOrder(d)'
<1>0. TypeOK /\ Handlers /\ ReplyFrame /\ RequestFrame /\ Buffers /\ InOrder(d)
  BY ZenonT(40) DEF IInv
<1>1. /\ UNCHANGED <<sent, got, broken, cut, client, left>> /\ Source[p] \notin cut
      /\ pump[p] = "read" /\ pump'[p] = "write" /\ \A q \in Pumps \ {p} : pump'[q] = pump[q]
  BY <1>0 DEF PumpRead, appVars, TypeOK
<1>2. PICK n \in 1 .. Len(data[Source[p]]) :
             /\ buf'[p] = SubSeq(data[Source[p]], 1, n)
             /\ \A q \in Pumps \ {p} : buf'[q] = buf[q]
             /\ data'[Source[p]] = SubSeq(data[Source[p]], n + 1, Len(data[Source[p]]))
             /\ \A e \in Transports \ {Source[p]} : data'[e] = data[e]
             /\ Count(p, n)
  BY <1>0, PumpReadIs, Zenon
<1>3. buf[p] = << >>
  BY <1>0, <1>1, Zenon DEF Buffers
<1>4. n \in Nat /\ data[Source[p]] # << >>
  OBVIOUS
<1>5. /\ counted'["out"] = IF p = "co" THEN counted["out"] + n ELSE counted["out"]
      /\ counted'["back"] = IF p = "cb" THEN counted["back"] + n ELSE counted["back"]
  BY <1>0, <1>2, <1>4, CountIs, Zenon DEF TypeOK
<1>6. /\ {First(d), Mid(d), Last(d)} \subseteq Transports
      /\ {Before(d), Behind(d)} \subseteq Pumps
      /\ First(d) # Mid(d) /\ First(d) # Last(d) /\ Mid(d) # Last(d) /\ Before(d) # Behind(d)
      /\ Source[Before(d)] = First(d) /\ Source[Behind(d)] = Mid(d)
  BY Places, ZenonT(40)
<1>7. \A q \in {Before(d), Behind(d)} : pump'[q] = "end" <=> pump[q] = "end"
  BY <1>1, <1>6
<1>8. CASE p = Before(d)
  <2>1. counted'[d] = IF d = "out" THEN counted[d] + n ELSE counted[d]
    BY <1>5, <1>8, Zenon DEF Dirs, Before
  <2>2. data'[Mid(d)] = data[Mid(d)] /\ data'[Last(d)] = data[Last(d)] /\ buf'[Behind(d)] = buf[Behind(d)]
    BY <1>2, <1>6, <1>8, Zenon
  <2>3. Skip(d)' = Skip(d)
    BY <1>1, <1>8, <2>2, SkipSame, Zenon
  <2> QED
    BY <1>0, <1>1, <1>2, <1>3, <1>6, <1>7, <1>8, <2>1, <2>2, <2>3, ReadBeforeKept, ZenonT(40)
<1>9. CASE p = Behind(d)
  <2>1. counted'[d] = IF d = "back" THEN counted[d] + n ELSE counted[d]
    BY <1>5, <1>9, Zenon DEF Dirs, Behind
  <2>2. /\ data'[First(d)] = data[First(d)] /\ data'[Last(d)] = data[Last(d)]
        /\ buf'[Before(d)] = buf[Before(d)]
    BY <1>2, <1>6, <1>9, Zenon
  <2>3. pump[Before(d)] # "idle" /\ pump'[Before(d)] # "idle"
    <3>1. pump'[Before(d)] = pump[Before(d)]
      BY <1>1, <1>6, <1>9, Zenon
    <3>2. CASE d = "out"
      <4>1. p = "do" /\ Before(d) = "co" /\ Source[p] = "qo"
        BY <1>6, <1>9, <3>2, Zenon DEF Before, Behind, Mid
      <4>2. daemon \in {"relay", "done"} /\ data["qo"] # << >>
        BY <1>0, <1>1, <1>4, <4>1, Zenon DEF Handlers, OfDaemon
      <4> QED
        BY <1>0, <3>1, <4>1, <4>2, Zenon DEF RequestFrame
    <3>3. CASE d = "back"
      <4>1. p = "cb" /\ Before(d) = "db"
        BY <1>9, <3>3, Zenon DEF Before, Behind
      <4> QED
        BY <1>0, <1>1, <3>1, <4>1, Zenon DEF Handlers, OfClient, OfDaemon
    <3> QED
      BY <3>2, <3>3, Zenon DEF Dirs
  <2>4. d = "back" => client # "reply" /\ client' # "reply"
    BY <1>0, <1>1, <1>9, Zenon DEF Handlers, OfClient, Behind
  <2>5. Skip(d) = 0 /\ Skip(d)' = 0
    BY <2>3, <2>4, Zenon DEF Skip
  <2> QED
    BY <1>0, <1>1, <1>2, <1>3, <1>6, <1>7, <1>9, <2>1, <2>2, <2>5, ReadBehindKept, ZenonT(40)
<1>10. CASE p # Before(d) /\ p # Behind(d)
  <2>1. Source[p] \notin {First(d), Mid(d), Last(d)}
    BY <1>10 DEF Source, First, Mid, Last, Before, Behind, Dirs, Pumps
  <2>2. counted'[d] = counted[d]
    BY <1>5, <1>10, Zenon DEF Dirs, Before, Behind
  <2> QED
    BY <1>0, <1>1, <1>2, <1>6, <1>10, <2>1, <2>2, Untouched, ZenonT(40)
<1> QED
  BY <1>8, <1>9, <1>10, Zenon

\* A pump writes to its own transport only.
LEMMA PumpWriteOrder ==
    ASSUME IInv, TypeOK', Buffers', NEW p \in Pumps, PumpWrite(p), NEW d \in Dirs
    PROVE  InOrder(d)'
<1>0. TypeOK /\ Handlers /\ ReplyFrame /\ Buffers /\ InOrder(d)
  BY Zenon DEF IInv
<1>1. /\ UNCHANGED <<sent, got, broken, cut, client, left, counted>> /\ Sink[p] \notin cut
      /\ pump[p] = "write" /\ pump'[p] \in {"read", "write"} /\ \A q \in Pumps \ {p} : pump'[q] = pump[q]
  BY <1>0, Zenon DEF PumpWrite, appVars, TypeOK
<1>2. /\ buf[p] # << >>
      /\ buf'[p] = Tail(buf[p])
      /\ \A q \in Pumps \ {p} : buf'[q] = buf[q]
      /\ data'[Sink[p]] = data[Sink[p]] \o <<Head(buf[p])>>
      /\ \A e \in Transports \ {Sink[p]} : data'[e] = data[e]
  BY <1>0, PumpWriteIs, Zenon
<1>6. /\ {First(d), Mid(d), Last(d)} \subseteq Transports
      /\ {Before(d), Behind(d)} \subseteq Pumps
      /\ First(d) # Mid(d) /\ First(d) # Last(d) /\ Mid(d) # Last(d) /\ Before(d) # Behind(d)
      /\ Sink[Before(d)] = Mid(d) /\ Sink[Behind(d)] = Last(d)
  BY Places, Zenon
<1>7. \A q \in {Before(d), Behind(d)} : pump'[q] = "end" <=> pump[q] = "end"
  BY <1>1, <1>6, Zenon
<1>8. CASE p = Before(d)
  <2>2. data'[First(d)] = data[First(d)] /\ data'[Last(d)] = data[Last(d)] /\ buf'[Behind(d)] = buf[Behind(d)]
    BY <1>2, <1>6, <1>8, Zenon
  <2>3. Skip(d)' = Skip(d)
    <3>1. pump[Before(d)] # "idle" /\ pump'[Before(d)] # "idle"
      BY <1>1, <1>8, Zenon
    <3>2. Unread' = Unread
      BY <1>1, UnreadKept, Zenon
    <3> QED
      BY <1>1, <3>1, <3>2, Zenon DEF Skip
  <2> QED
    BY <1>0, <1>1, <1>2, <1>6, <1>7, <1>8, <2>2, <2>3, SkipBound, WriteBeforeKept, ZenonT(40)
<1>9. CASE p = Behind(d)
  <2>2. /\ data'[First(d)] = data[First(d)] /\ data'[Mid(d)] = data[Mid(d)]
        /\ buf'[Before(d)] = buf[Before(d)] /\ pump'[Before(d)] = pump[Before(d)]
    BY <1>1, <1>2, <1>6, <1>9, Zenon
  <2>3. Skip(d)' = Skip(d)
    BY <1>1, <2>2, SkipSame, Zenon
  <2> QED
    BY <1>0, <1>1, <1>2, <1>6, <1>7, <1>9, <2>2, <2>3, WriteBehindKept, ZenonT(40)
<1>10. CASE p # Before(d) /\ p # Behind(d)
  <2>1. Sink[p] \notin {First(d), Mid(d), Last(d)}
    BY <1>10 DEF Sink, First, Mid, Last, Before, Behind, Dirs, Pumps
  <2> QED
    BY <1>0, <1>1, <1>2, <1>6, <1>10, <2>1, Untouched, ZenonT(40)
<1> QED
  BY <1>8, <1>9, <1>10, Zenon

\* A step of a handler leaves the applications, the buffers and the TCP
\* transports it does not drop as they are.
LEMMA HandlerOrder ==
    ASSUME TypeOK, Handlers, ReplyFrame, TypeOK', Buffers', NEW d \in Dirs, InOrder(d),
           UNCHANGED <<appVars, buf, counted>>, cut \subseteq cut', broken => broken',
           \A c \in Transports \ Quic : c \notin cut' => data'[c] = data[c],
           \A p \in Pumps : pump[p] = "end" => pump'[p] = "end",
           Mid(d) \notin cut' => \/ data'[Mid(d)] = data[Mid(d)] /\ Skip(d)' = Skip(d)
                                 \/ Skip(d) = Len(data[Mid(d)]) /\ Skip(d)' = Len(data'[Mid(d)])
    PROVE  InOrder(d)'
<1>1. {First(d), Last(d)} \subseteq Transports \ Quic
  BY ZenonT(40) DEF Dirs, First, Last, Transports, Local, Quic, Target
<1>2. {Before(d), Behind(d)} \subseteq Pumps
  BY Places
<1>3. sent'[d] = sent[d] /\ got'[d] = got[d] /\ counted'[d] = counted[d]
  BY Zenon DEF appVars
<1>4. \A c \in {First(d), Last(d)} \ cut' : data'[c] = data[c]
  BY <1>1, Zenon
<1>5. \A p \in {Before(d), Behind(d)} : (pump[p] = "end" => pump'[p] = "end") /\ buf'[p] = buf[p]
  BY <1>2, Zenon
<1> QED
  BY <1>3, <1>4, <1>5, OrderKept, Zenon

\* The same when no pump writes behind a frame yet.
LEMMA IdleOrder ==
    ASSUME TypeOK, Handlers, ReplyFrame, TypeOK', Buffers', NEW d \in Dirs, InOrder(d),
           UNCHANGED <<appVars, buf, counted, pump>>, cut \subseteq cut', broken => broken',
           \A c \in Transports \ Quic : c \notin cut' => data'[c] = data[c],
           pump[Before(d)] = "idle"
    PROVE  InOrder(d)'
<1>1. Skip(d) = Len(data[Mid(d)]) /\ Skip(d)' = Len(data'[Mid(d)])
  BY SkipAll
<1> QED
  BY <1>1, HandlerOrder, ZenonT(40)

\* The steps of the client's handler.
LEMMA ClientOrder ==
    ASSUME IInv, TypeOK', Buffers', Client, NEW d \in Dirs
    PROVE  InOrder(d)'
<1>0. TypeOK /\ Handlers /\ ReplyFrame /\ RequestFrame /\ Buffers /\ InOrder(d)
  BY DEF IInv
<1>a. (d = "out" /\ Before(d) = "co" /\ Mid(d) = "qo") \/ (d = "back" /\ Before(d) = "db" /\ Mid(d) = "qb")
  BY DEF Dirs, Before, Mid
<1>b. {"qo", "qb", "lo"} \subseteq Transports /\ "qo" \in Quic /\ "qb" \in Quic
  BY Zenon DEF Transports, Quic, Local
<1>1. CASE Request
  <2>0. frame_bytes(FORWARD) \in Seq(Nat)
    BY FrameIs
  <2>1. \A c \in Transports \ Quic : data'[c] = data[c]
    BY <1>0, <1>1, <1>b, <2>0, PutIs, ZenonT(40) DEF Request
  <2>2. pump[Before(d)] = "idle"
    BY <1>0, <1>1, <1>a, SMTT(30) DEF Request, Handlers, OfClient, OfDaemon
  <2>3. UNCHANGED <<appVars, buf, counted, pump, cut, broken>>
    BY <1>1 DEF Request
  <2> QED
    BY <1>0, <2>1, <2>2, <2>3, IdleOrder, Zenon
<1>2. CASE ReadReply
  <2>1. /\ client = "reply" /\ data["qb"] # << >> /\ data'["qb"] = Tail(data["qb"]) /\ "qb" \notin cut
        /\ \A c \in Transports \ {"qb"} : data'[c] = data[c]
    BY <1>0, <1>2, <1>b, SMTT(30) DEF ReadReply, read_frame, TypeOK
  <2>2. UNCHANGED <<appVars, buf, counted, pump, cut, broken, daemon>>
    BY <1>2 DEF ReadReply
  <2>3. \A c \in Transports \ Quic : data'[c] = data[c]
    BY <1>b, <2>1, Zenon
  <2>4. CASE pump[Before(d)] = "idle"
    BY <1>0, <2>2, <2>3, <2>4, IdleOrder, Zenon
  <2>5. CASE pump[Before(d)] # "idle"
    <3>1. d = "back" /\ Mid(d) = "qb" /\ daemon \in {"relay", "done"}
      BY <1>0, <1>a, <2>1, <2>5, Zenon DEF Handlers, OfClient, OfDaemon
    <3>2. client' = "reply"
      BY <1>0, <1>2, <3>1, ReplyTells, Zenon
    <3>3. Skip(d) = Unread /\ Skip(d)' = Unread'
      BY <2>1, <2>2, <2>5, <3>1, <3>2, ZenonT(40) DEF Skip
    <3>4. PayloadLen \in Nat /\ left \in [{"client", "daemon"} -> SUBSET (0 .. PayloadLen)]
      BY <1>0, RelayAssumption DEF TypeOK
    <3>5. Unread >= 1 /\ Unread' = Unread - 1
      <4>1. CASE left["client"] = {} /\ left' = [left EXCEPT !["client"] = {PayloadLen}]
        <5>1. left'["client"] = {PayloadLen}
          BY <3>4, <4>1, Zenon
        <5>2. Unread = PayloadLen + 1 /\ Unread' = PayloadLen
          BY <4>1, <5>1, Zenon DEF Unread
        <5> QED
          BY <3>4, <5>2
      <4>2. ASSUME NEW n \in 1 .. PayloadLen,
                   left["client"] = {n} /\ left' = [left EXCEPT !["client"] = {n - 1}]
            PROVE  Unread >= 1 /\ Unread' = Unread - 1
        <5>1. left'["client"] = {n - 1}
          BY <3>4, <4>2, Zenon
        <5>2. Unread = n /\ Unread' = n - 1
          BY <4>2, <5>1, Zenon DEF Unread
        <5> QED
          BY <3>4, <5>2
      <4> QED
        BY <1>0, <1>2, <4>1, <4>2, ReplyRead, Zenon
    <3>6. Skip(d) \in 0 .. Len(data[Mid(d)]) /\ Len(data[Mid(d)]) \in Nat
      <4>1. data[Mid(d)] \in Seq(Nat)
        BY <1>0, Sizes, Zenon DEF Sequences
      <4>2. Skip(d) \in 0 .. Len(data[Mid(d)])
        BY <1>0, SkipBound, Zenon
      <4> QED
        BY <4>1, <4>2
    <3>7. Skip(d) \in 1 .. Len(data[Mid(d)]) /\ Skip(d)' = Skip(d) - 1
      BY <3>3, <3>5, <3>6
    <3>8. UNCHANGED <<cut, broken, got, sent, counted, pump, buf>>
      BY <2>2, Zenon DEF appVars
    <3>9. data'[Last(d)] = data[Last(d)] /\ data'[First(d)] = data[First(d)]
      BY <2>1, <3>1, Places, Zenon
    <3> QED
      BY <1>0, <2>1, <3>1, <3>7, <3>8, <3>9, SkipKept, Zenon
  <2> QED
    BY <2>4, <2>5, ZenonT(40)
<1>3. CASE ReplyFails
  <2> DEFINE cs == {c \in {"lo", "qb"} : ~AtEnd(c)}
  <2>1. cs \in SUBSET Transports /\ Cut(cs)
    BY <1>3, <1>b, Zenon DEF ReplyFails, ClientGivesUp
  <2>2. /\ cut' = cut \cup cs
        /\ \A c \in Transports : data'[c] = IF c \in cs THEN << >> ELSE data[c]
    BY <1>0, <2>1, CutIs, Zenon
  <2>3. UNCHANGED <<appVars, buf, counted, pump>> /\ broken' /\ client' = "closed"
    BY <1>3, Zenon DEF ReplyFails, ClientGivesUp
  <2>4. cut \subseteq cut' /\ \A c \in Transports \ Quic : c \notin cut' => data'[c] = data[c]
    BY <2>2, Zenon
  <2>5. CASE pump[Before(d)] = "idle"
    BY <1>0, <2>3, <2>4, <2>5, IdleOrder, Zenon
  <2>6. CASE pump[Before(d)] # "idle"
    <3>1. d = "back" /\ Mid(d) = "qb"
      BY <1>0, <1>3, <1>a, <2>6, Zenon DEF ReplyFails, Handlers, OfClient
    <3>2. ASSUME "qb" \notin cut' PROVE data'["qb"] = data["qb"] /\ Skip(d)' = Skip(d)
      <4>1. data["qb"] = << >> /\ data'["qb"] = data["qb"]
        BY <1>b, <2>2, <3>2, Zenon DEF AtEnd
      <4>2. Skip(d) \in 0 .. Len(data["qb"])
        BY <1>0, <3>1, SkipBound, Zenon
      <4>3. Len(<< >>) = 0
        BY Zenon
      <4>4. Skip(d) = 0
        BY <4>1, <4>2, <4>3
      <4>5. Skip(d)' = 0
        BY <2>3, <2>6, Zenon DEF Skip
      <4> QED
        BY <4>1, <4>4, <4>5, ZenonT(40)
    <3> QED
      BY <1>0, <2>3, <2>4, <3>1, <3>2, HandlerOrder, Zenon
  <2> QED
    BY <2>5, <2>6, Zenon
<1>4. CASE StartClient
  <2>1. /\ client = "reply" /\ left["client"] = {0} /\ client' = "relay" /\ UNCHANGED <<appVars, buf, counted, cut, broken, data>>
        /\ \A p \in Pumps : pump'[p] = IF p \in OfClient THEN "read" ELSE pump[p]
    BY <1>4, Zenon DEF StartClient
  <2>2. daemon \in {"relay", "done"} /\ pump["co"] = "idle" /\ pump["db"] # "idle" /\ pump["cb"] = "idle"
    BY <1>0, <2>1, Zenon DEF Handlers, OfClient, OfDaemon
  <2>3. pump'["co"] = "read" /\ pump'["db"] = pump["db"] /\ \A p \in Pumps : pump[p] = "end" => pump'[p] = "end"
    BY <2>1, <2>2, Zenon DEF OfClient, Pumps
  <2>4. Skip(d)' = 0
    BY <1>a, <2>1, <2>2, <2>3, Zenon DEF Skip
  <2>5. Skip(d) = 0
    <3>1. CASE d = "out"
      <4>1. data["qo"] = << >> /\ Len(<< >>) = 0
        BY <1>0, <2>2, Zenon DEF RequestFrame
      <4> QED
        BY <1>a, <2>2, <3>1, <4>1, ZenonT(40) DEF Skip
    <3>2. CASE d = "back"
      <4>1. Unread = 0
        BY <2>1, UnreadIs, Zenon
      <4> QED
        BY <1>a, <2>2, <3>2, <4>1, Zenon DEF Skip
    <3> QED
      BY <1>a, <3>1, <3>2, Zenon
  <2> QED
    BY <1>0, <2>1, <2>3, <2>4, <2>5, HandlerOrder, ZenonT(40)
<1>5. CASE ClientReturns
  <2> DEFINE cs == {c \in {"lo", "qb"} : ~AtEnd(c)}
  <2>1. cs \in SUBSET Transports /\ Cut(cs)
    BY <1>5, <1>b, Zenon DEF ClientReturns
  <2>2. /\ cut' = cut \cup cs
        /\ \A c \in Transports : data'[c] = IF c \in cs THEN << >> ELSE data[c]
    BY <1>0, <2>1, CutIs
  <2>3. UNCHANGED <<appVars, buf, counted, pump, broken>> /\ client = "relay" /\ client' = "done"
    BY <1>5, Zenon DEF ClientReturns
  <2>4. cut \subseteq cut' /\ \A c \in Transports : c \notin cut' => data'[c] = data[c]
    BY <2>2, Zenon
  <2>5. pump[Before(d)] # "idle"
    BY <1>0, <1>a, <2>3, Zenon DEF Handlers, OfClient, OfDaemon
  <2>6. Skip(d) = 0 /\ Skip(d)' = 0
    BY <2>3, <2>5, Zenon DEF Skip
  <2>7. Mid(d) \notin cut' => data'[Mid(d)] = data[Mid(d)]
    BY <1>a, <1>b, <2>4, Zenon
  <2> QED
    BY <1>0, <2>3, <2>4, <2>6, <2>7, HandlerOrder, Zenon
<1> QED
  BY <1>1, <1>2, <1>3, <1>4, <1>5, Zenon DEF Client

\* The steps of the daemon's handler.
LEMMA DaemonOrder ==
    ASSUME IInv, TypeOK', Buffers', Daemon, NEW d \in Dirs
    PROVE  InOrder(d)'
<1>0. TypeOK /\ Handlers /\ ReplyFrame /\ RequestFrame /\ Buffers /\ InOrder(d)
  BY Zenon DEF IInv
<1>a. (d = "out" /\ Before(d) = "co" /\ Mid(d) = "qo") \/ (d = "back" /\ Before(d) = "db" /\ Mid(d) = "qb")
  BY DEF Dirs, Before, Mid
<1>b. {"qo", "qb", "tb"} \subseteq Transports /\ "qo" \in Quic /\ "qb" \in Quic
  BY Zenon DEF Transports, Quic, Target
<1>c. daemon = "frame" => pump[Before(d)] = "idle"
  BY <1>0, <1>a, Zenon DEF Handlers, OfClient, OfDaemon
<1>1. CASE ReadForward
  <2>1. \A c \in Transports \ Quic : data'[c] = data[c]
    BY <1>0, <1>1, <1>b, Zenon DEF ReadForward, read_frame, TypeOK
  <2>2. UNCHANGED <<appVars, buf, counted, pump, cut, broken>> /\ pump[Before(d)] = "idle"
    BY <1>1, <1>c, Zenon DEF ReadForward
  <2> QED
    BY <1>0, <2>1, <2>2, IdleOrder, Zenon
<1>2. CASE ForwardFails
  <2>1. cut \subseteq cut' /\ \A c \in Transports \ Quic : data'[c] = data[c]
    BY <1>0, <1>2, <1>b, ForwardFailsIs, Zenon
  <2>2. UNCHANGED <<appVars, buf, counted, pump>> /\ broken' /\ pump[Before(d)] = "idle"
    BY <1>2, <1>c, Zenon DEF ForwardFails
  <2> QED
    BY <1>0, <2>1, <2>2, IdleOrder, Zenon
<1>3. CASE Refuse
  <2>1. cut \subseteq cut' /\ \A c \in Transports \ Quic : data'[c] = data[c]
    BY <1>0, <1>3, RefuseIs, Zenon
  <2>2. UNCHANGED <<appVars, buf, counted, pump>> /\ broken' /\ pump[Before(d)] = "idle"
    BY <1>3, <1>c, Zenon DEF Refuse
  <2> QED
    BY <1>0, <2>1, <2>2, IdleOrder, Zenon
<1>4. CASE StartDaemon /\ "qb" \in cut
  <2> DEFINE cs == {c \in {"tb", "qo"} : ~AtEnd(c)}
  <2>1. cs \in SUBSET Transports /\ Cut(cs)
    BY <1>4, <1>b, Zenon DEF StartDaemon
  <2>2. cut \subseteq cut' /\ \A c \in Transports : c \notin cut' => data'[c] = data[c]
    BY <1>0, <2>1, CutIs, Zenon
  <2>3. UNCHANGED <<appVars, buf, counted, pump, broken>> /\ pump[Before(d)] = "idle"
    BY <1>4, <1>c, Zenon DEF StartDaemon
  <2> QED
    BY <1>0, <2>2, <2>3, IdleOrder, Zenon
<1>5. CASE StartDaemon /\ "qb" \notin cut
  <2>1. /\ daemon = "frame" /\ left["daemon"] = {0} /\ UNCHANGED <<appVars, buf, counted, broken, cut, client, left>>
        /\ \A p \in Pumps : pump'[p] = IF p \in OfDaemon THEN "read" ELSE pump[p]
        /\ Put("qb", frame_bytes(OK))
    BY <1>5, ZenonT(40) DEF StartDaemon
  <2>2. /\ frame_bytes(OK) \in Seq(Nat) /\ Len(frame_bytes(OK)) = PayloadLen + 1
    BY FrameIs
  <2>3. /\ data'["qb"] = data["qb"] \o frame_bytes(OK)
        /\ \A c \in Transports \ {"qb"} : data'[c] = data[c]
    BY <1>0, <1>b, <2>1, <2>2, PutIs, Zenon
  <2>4. \A p \in Pumps : pump[p] = "end" => pump'[p] = "end"
    <3>1. \A p \in OfDaemon : pump[p] = "idle"
      BY <1>0, <2>1, Zenon DEF Handlers
    <3> QED
      BY <2>1, <3>1, Zenon
  <2>5. \A c \in Transports \ Quic : data'[c] = data[c]
    BY <1>b, <2>3
  <2>6. Skip(d) = Len(data[Mid(d)])
    BY <1>c, <2>1, Zenon DEF Skip
  <2>7. Skip(d)' = Len(data'[Mid(d)])
    <3>1. CASE d = "out"
      <4>1. pump'[Before(d)] = "idle"
        BY <1>a, <1>c, <2>1, <3>1, ZenonT(40) DEF OfDaemon, Pumps
      <4> QED
        BY <4>1, Zenon DEF Skip
    <3>2. CASE d = "back"
      <4>1. client = "reply" /\ left["client"] = {}
        BY <1>0, <1>5, <2>1, ZenonT(40) DEF TypeOK, Handlers, RequestFrame
      <4>2. data["qb"] = << >>
        BY <1>0, <2>1 DEF ReplyFrame
      <4>3. Len(data'["qb"]) = PayloadLen + 1
        BY <2>2, <2>3, <4>2
      <4>4. pump'["db"] = "read"
        BY <2>1, Zenon DEF OfDaemon, Pumps
      <4>5. Unread' = PayloadLen + 1
        BY <2>1, <4>1, Zenon DEF Unread
      <4>6. client' = "reply" /\ "qb" \notin cut'
        BY <1>5, <2>1, <4>1, Zenon
      <4> QED
        BY <1>a, <3>2, <4>3, <4>4, <4>5, <4>6, ZenonT(40) DEF Skip
    <3> QED
      BY <1>a, <3>1, <3>2, Zenon
  <2> QED
    BY <1>0, <2>1, <2>4, <2>5, <2>6, <2>7, HandlerOrder, ZenonT(40)
<1>6. CASE DaemonReturns
  <2> DEFINE cs == {c \in {"qo", "tb"} : ~AtEnd(c)}
  <2>1. cs \in SUBSET Transports /\ Cut(cs)
    BY <1>6, <1>b, Zenon DEF DaemonReturns
  <2>2. /\ cut' = cut \cup cs
        /\ \A c \in Transports : data'[c] = IF c \in cs THEN << >> ELSE data[c]
    BY <1>0, <2>1, CutIs, Zenon
  <2>3. UNCHANGED <<appVars, buf, counted, pump, broken, client, left>>
    BY <1>6, Zenon DEF DaemonReturns
  <2>4. cut \subseteq cut' /\ \A c \in Transports : c \notin cut' => data'[c] = data[c]
    BY <2>2, Zenon
  <2>5. "qb" \in cut' <=> "qb" \in cut
    BY <2>2, Zenon
  <2>6. ASSUME Mid(d) \notin cut' PROVE data'[Mid(d)] = data[Mid(d)] /\ Skip(d)' = Skip(d)
    <3>1. data'[Mid(d)] = data[Mid(d)]
      BY <1>a, <1>b, <2>4, <2>6, Zenon
    <3> QED
      BY <2>3, <2>5, <3>1, SkipSame, Zenon
  <2> QED
    BY <1>0, <2>3, <2>4, <2>6, HandlerOrder, Zenon
<1> QED
  BY <1>1, <1>2, <1>3, <1>4, <1>5, <1>6, Zenon DEF Daemon

\* A pump that ends, or is ended, loses what it holds only when its sink is
\* gone, and the connection is broken then.
LEMMA PumpEndOrder ==
    ASSUME IInv, TypeOK', Buffers', NEW p \in Pumps, PumpEnds(p) \/ PumpIdle(p), NEW d \in Dirs
    PROVE  InOrder(d)'
<1>0. TypeOK /\ Handlers /\ ReplyFrame /\ Ends /\ Buffers /\ InOrder(d)
  BY Zenon DEF IInv
<1>1. /\ UNCHANGED <<appVars, data, cut, client, left, counted>>
      /\ broken => broken'
      /\ pump[p] \in {"read", "write"} /\ pump'[p] = "end" /\ \A q \in Pumps \ {p} : pump'[q] = pump[q]
  BY <1>0, Zenon DEF PumpEnds, PumpIdle, TypeOK
<1>2. /\ buf'[p] = buf[p] \/ buf'[p] = << >>
      /\ \A q \in Pumps \ {p} : buf'[q] = buf[q]
  BY <1>0, Zenon DEF PumpEnds, PumpIdle, TypeOK
<1>3. buf'[p] = buf[p] \/ (buf'[p] = << >> /\ broken')
  <2>1. CASE PumpIdle(p)
    BY <1>2, <2>1, Zenon DEF PumpIdle
  <2>2. CASE PumpEnds(p) /\ pump[p] = "read"
    <3>1. buf[p] = << >>
      BY <1>0, <2>2, Zenon DEF Buffers
    <3> QED
      BY <1>2, <3>1, Zenon
  <2>3. CASE PumpEnds(p) /\ pump[p] # "read"
    <3>1. cut # {} /\ broken' = broken
      BY <2>3, Zenon DEF PumpEnds
    <3>2. broken'
      BY <1>0, <3>1, Zenon DEF Ends
    <3> QED
      BY <1>2, <3>2
  <2> QED
    BY <2>1, <2>2, <2>3
<1>4. {Before(d), Behind(d)} \subseteq Pumps
  BY Places, ZenonT(40)
<1>5. \A q \in {Before(d), Behind(d)} :
        /\ pump'[q] = "idle" <=> pump[q] = "idle"
        /\ pump[q] = "end" => pump'[q] = "end"
        /\ buf'[q] = buf[q] \/ (buf'[q] = << >> /\ pump'[q] = "end" /\ broken')
  BY <1>1, <1>2, <1>3, <1>4
<1>6. Skip(d)' = Skip(d)
  BY <1>1, <1>5, SkipSame, Zenon
<1>7. sent'[d] = sent[d] /\ got'[d] = got[d] /\ counted'[d] = counted[d]
  BY <1>1, Zenon DEF appVars
<1> QED
  BY <1>0, <1>1, <1>5, <1>6, <1>7, OrderKept, Zenon

\* A connection that is reset or lost.
LEMMA FaultOrder ==
    ASSUME IInv, TypeOK', Buffers', Fault, NEW d \in Dirs
    PROVE  InOrder(d)'
<1>0. TypeOK /\ Handlers /\ ReplyFrame /\ InOrder(d)
  BY Zenon DEF IInv
<1>1. UNCHANGED <<appVars, client, left, pump, buf, counted>> /\ broken'
  BY Zenon DEF Fault
<1>2. PICK cs \in {Local, Quic, Target} : Cut(cs)
  BY Zenon DEF Fault
<1>3. cs \in SUBSET Transports
  BY Zenon DEF Transports
<1>4. cut \subseteq cut' /\ \A c \in Transports : c \notin cut' => c \notin cut /\ data'[c] = data[c]
  BY <1>0, <1>2, <1>3, CutIs, Zenon
<1>5. Mid(d) \in Transports /\ (d = "back" => Mid(d) = "qb")
  BY Places, ZenonT(40) DEF Mid
<1>6. ASSUME Mid(d) \notin cut' PROVE data'[Mid(d)] = data[Mid(d)] /\ Skip(d)' = Skip(d)
  BY <1>1, <1>4, <1>5, <1>6, SkipSame, SMTT(30)
<1> QED
  BY <1>0, <1>1, <1>4, <1>6, HandlerOrder, Zenon

\* An application writes a byte at a time.
LEMMA AppendIs == \A s \in Seq(Nat), x \in Nat : Append(s, x) = s \o <<x>> /\ <<x>> \in Seq(Nat)
  OBVIOUS

\* The applications write at the front and read at the back.
LEMMA AppOrder ==
    ASSUME IInv, TypeOK', Buffers', NEW e \in Dirs, App(e), NEW d \in Dirs
    PROVE  InOrder(d)'
<1>0. TypeOK /\ Handlers /\ ReplyFrame /\ InOrder(d)
  BY Zenon DEF IInv
<1>a. UNCHANGED <<cut, broken, client, left, pump, buf, counted>>
  BY Zenon DEF App, AppSend, AppClose, AppRead, AppEnd
<1>b. /\ {First(e), Last(e), First(d), Mid(d), Last(d)} \subseteq Transports
      /\ First(d) # Mid(d) /\ First(d) # Last(d) /\ Mid(d) # Last(d)
  BY Places, Zenon
<1>c. Skip(d)' = Skip(d) \/ data'[Mid(d)] # data[Mid(d)]
  BY <1>a, SkipSame, Zenon
<1>1. CASE AppSend(e)
  <2>1. /\ sent' = [sent EXCEPT ![e] = Append(@, Len(@) + 1)] /\ got' = got
        /\ Put(First(e), <<Len(sent[e]) + 1>>) /\ First(e) \notin cut
    BY <1>1 DEF AppSend
  <2>2. sent[e] \in Seq(Nat) /\ Append(sent[e], Len(sent[e]) + 1) = sent[e] \o <<Len(sent[e]) + 1>>
        /\ <<Len(sent[e]) + 1>> \in Seq(Nat)
    <3>1. sent[e] \in Seq(Nat)
      BY <1>0 DEF TypeOK
    <3>2. Len(sent[e]) + 1 \in Nat
      BY <3>1
    <3> QED
      BY <3>1, <3>2, AppendIs, ZenonT(40)
  <2>3. /\ data'[First(e)] = data[First(e)] \o <<Len(sent[e]) + 1>>
        /\ \A c \in Transports \ {First(e)} : data'[c] = data[c]
    BY <1>0, <1>b, <2>1, <2>2, PutIs, Zenon
  <2>4. CASE d = e
    <3>1. sent'[d] = sent[d] \o <<Len(sent[d]) + 1>>
      BY <1>0, <2>1, <2>2, <2>4, ZenonT(40) DEF TypeOK
    <3>2. data'[Mid(d)] = data[Mid(d)] /\ data'[Last(d)] = data[Last(d)]
      BY <1>b, <2>3, <2>4, Zenon
    <3>3. Skip(d)' = Skip(d)
      BY <1>c, <3>2, Zenon
    <3> QED
      BY <1>0, <1>a, <2>1, <2>3, <2>4, <3>1, <3>2, <3>3, SendKept, ZenonT(40)
  <2>5. CASE d # e
    <3>1. sent'[d] = sent[d] /\ got'[d] = got[d]
      BY <1>0, <2>1, <2>5, SMTT(30) DEF TypeOK
    <3>2. data'[First(d)] = data[First(d)] /\ data'[Mid(d)] = data[Mid(d)] /\ data'[Last(d)] = data[Last(d)]
      BY <1>b, <2>3, <2>5, Apart, Zenon
    <3> QED
      BY <1>0, <1>a, <3>1, <3>2, Untouched, ZenonT(40)
  <2> QED
    BY <2>4, <2>5, Zenon
<1>2. CASE AppClose(e) \/ AppEnd(e)
  <2>1. UNCHANGED <<sent, got, data>>
    BY <1>2, Zenon DEF AppClose, AppEnd
  <2> QED
    BY <1>0, <1>a, <2>1, Untouched, Zenon
<1>3. CASE AppRead(e)
  <2>1. /\ got' = [got EXCEPT ![e] = Append(@, Head(data[Last(e)]))] /\ sent' = sent
        /\ data[Last(e)] # << >> /\ data' = [data EXCEPT ![Last(e)] = Tail(@)]
    BY <1>3, Zenon DEF AppRead
  <2>2. got[e] \in Seq(Nat) /\ data[Last(e)] \in Seq(Nat)
    BY <1>0, <1>b DEF TypeOK
  <2>3. Append(got[e], Head(data[Last(e)])) = got[e] \o <<Head(data[Last(e)])>>
    <3>1. Head(data[Last(e)]) \in Nat
      BY <2>1, <2>2
    <3> QED
      BY <2>2, <3>1, AppendIs, Zenon
  <2>4. data'[Last(e)] = Tail(data[Last(e)]) /\ \A c \in Transports \ {Last(e)} : data'[c] = data[c]
    BY <1>0, <1>b, <2>1, Zenon DEF TypeOK
  <2>5. CASE d = e
    <3>1. got'[d] = got[d] \o <<Head(data[Last(d)])>>
      BY <1>0, <2>1, <2>3, <2>5, ZenonT(40) DEF TypeOK
    <3>2. data'[Mid(d)] = data[Mid(d)] /\ data'[First(d)] = data[First(d)]
      BY <1>b, <2>4, <2>5, ZenonT(40)
    <3>3. Skip(d)' = Skip(d)
      BY <1>c, <3>2, Zenon
    <3> QED
      BY <1>0, <1>a, <2>1, <2>4, <2>5, <3>1, <3>2, <3>3, DeliverKept, ZenonT(40)
  <2>6. CASE d # e
    <3>1. sent'[d] = sent[d] /\ got'[d] = got[d]
      BY <1>0, <2>1, <2>6, ZenonT(40) DEF TypeOK
    <3>2. data'[First(d)] = data[First(d)] /\ data'[Mid(d)] = data[Mid(d)] /\ data'[Last(d)] = data[Last(d)]
      BY <1>b, <2>4, <2>6, Apart, Zenon
    <3> QED
      BY <1>0, <1>a, <3>1, <3>2, Untouched, Zenon
  <2> QED
    BY <2>5, <2>6
<1> QED
  BY <1>1, <1>2, <1>3, Zenon DEF App

-----------------------------------------------------------------------------
(***************************************************************************)
(* The inductive invariant.                                                *)
(***************************************************************************)
\* No step disturbs the order.
LEMMA OrderStep ==
    ASSUME IInv, TypeOK', Buffers', [Next]_vars
    PROVE  \A d \in Dirs : InOrder(d)'
<1> SUFFICES ASSUME NEW d \in Dirs PROVE InOrder(d)'
  BY Zenon
<1>0. TypeOK /\ Handlers /\ ReplyFrame /\ InOrder(d)
  BY Zenon DEF IInv
<1>1. CASE Client
  BY <1>1, ClientOrder, Zenon
<1>2. CASE Daemon
  BY <1>2, DaemonOrder, Zenon
<1>3. CASE Fault
  BY <1>3, FaultOrder, Zenon
<1>4. ASSUME NEW p \in Pumps, Pump(p) \/ PumpIdle(p) PROVE InOrder(d)'
  BY <1>4, PumpReadOrder, PumpWriteOrder, PumpEndOrder, Zenon DEF Pump
<1>5. ASSUME NEW e \in Dirs, App(e) PROVE InOrder(d)'
  BY <1>5, AppOrder
<1>6. CASE UNCHANGED vars
  <2>1. UNCHANGED <<sent, got, counted, cut, broken, client, left, data, pump, buf>>
    BY <1>6, Zenon DEF vars, appVars
  <2> QED
    BY <1>0, <2>1, Untouched, Zenon
<1> QED
  BY <1>1, <1>2, <1>3, <1>4, <1>5, <1>6, Zenon DEF Next

\* Nothing is anywhere at first.
LEMMA InitIInv == Init => IInv
<1> SUFFICES ASSUME Init PROVE IInv
  BY Zenon
<1>0. PayloadLen \in Nat /\ << >> \in Seq(Nat) /\ Len(<< >>) = 0
  BY RelayAssumption
<1>1. TypeOK
  BY <1>0, Zenon DEF Init, TypeOK
<1>2. Buffers /\ Handlers /\ RequestFrame /\ ReplyFrame
  BY <1>0, ZenonT(40) DEF Init, Buffers, Handlers, RequestFrame, ReplyFrame, OfClient, OfDaemon, Pumps, Transports, Quic
<1>3. Ends
  BY Places DEF Init, Ends
<1>4. ASSUME NEW d \in Dirs PROVE InOrder(d)
  <2>1. /\ data[First(d)] = << >> /\ data[Mid(d)] = << >> /\ data[Last(d)] = << >>
        /\ buf[Before(d)] = << >> /\ buf[Behind(d)] = << >> /\ pump[Before(d)] = "idle"
        /\ sent[d] = << >> /\ got[d] = << >> /\ counted[d] = 0
    BY Places, Zenon DEF Init
  <2>2. Skip(d) = 0
    BY <1>0, <2>1, Zenon DEF Skip
  <2>3. Link(0, << >>, 0, 0) /\ Full(0, << >>, 0, 0) /\ Continues(<< >>, 0, 0) /\ 0 \in Nat
    BY LinkEmpty, EmptyContinues
  <2>4. Line(d, 0, 0, 0, 0)
    BY <1>0, <2>1, <2>2, <2>3, Zenon DEF Line, Piece
  <2> QED
    BY <2>3, <2>4, Zenon DEF InOrder
<1> QED
  BY <1>1, <1>2, <1>3, <1>4, Zenon DEF IInv

\* Every step keeps the invariant.
LEMMA NextIInv == IInv /\ [Next]_vars => IInv'
<1> SUFFICES ASSUME IInv, [Next]_vars PROVE IInv'
  OBVIOUS
<1>0. TypeOK /\ Buffers /\ Handlers /\ RequestFrame /\ ReplyFrame /\ Ends
  BY Zenon DEF IInv
<1>1. TypeOK'
  BY <1>0, TypeStep, Zenon
<1>2. Buffers'
  BY <1>0, BuffersStep, Zenon
<1>3. Handlers' /\ RequestFrame'
  BY <1>0, HandlersStep, RequestStep, Zenon
<1>4. ReplyFrame'
  BY <1>0, ReplyStep, Zenon
<1>5. Ends'
  BY <1>0, EndsStep, Zenon
<1>6. \A d \in Dirs : InOrder(d)'
  BY <1>1, <1>2, OrderStep, Zenon
<1> QED
  BY <1>1, <1>2, <1>3, <1>4, <1>5, <1>6, Zenon DEF IInv

\* What the places of a direction hold lies between its two ends.
LEMMA LinkBound ==
    ASSUME NEW lo \in Nat, NEW hi \in Nat, NEW s \in Seq(Nat), NEW k \in 0 .. Len(s), Link(lo, s, k, hi)
    PROVE  lo <= hi
  BY LinkDrop, LinkEmpty, Zenon

\* The places of a direction are in the order in which bytes pass them.
LEMMA Ordered ==
    ASSUME IInv, NEW d \in Dirs, NEW h \in Nat, NEW m \in Nat, NEW b \in Nat, NEW f \in Nat,
           Line(d, h, m, b, f)
    PROVE  /\ Len(got[d]) <= h /\ h <= m /\ m <= b /\ b <= f /\ f <= Len(sent[d])
           /\ h <= Len(sent[d])
<1>1. Sequences(d)
  BY Sizes, Zenon DEF IInv
<1>2. \A s \in Seq(Nat) : 0 \in 0 .. Len(s)
  OBVIOUS
<1>3. Len(got[d]) <= h /\ h <= m /\ b <= f /\ f <= Len(sent[d])
  BY <1>1, <1>2, LinkBound, Zenon DEF Line, Piece, Sequences
<1>4. m <= b
  <2>1. Skip(d) \in 0 .. Len(data[Mid(d)])
    BY SkipBound, Zenon DEF IInv
  <2> QED
    BY <1>1, <2>1, LinkBound, Zenon DEF Line, Piece, Sequences
<1>5. Len(got[d]) \in Nat /\ Len(sent[d]) \in Nat
  BY <1>1, Zenon DEF Sequences
<1> QED
  BY <1>3, <1>4, <1>5

\* Nothing arrives before it was counted, and nothing is counted before it
\* was written.
LEMMA Between ==
    ASSUME IInv, NEW d \in Dirs
    PROVE  Len(got[d]) <= counted[d] /\ counted[d] <= Len(sent[d])
<1>0. PICK h, m, b, f \in Nat : Line(d, h, m, b, f)
  BY Zenon DEF IInv, InOrder
<1>1. Len(got[d]) <= h /\ h <= m /\ m <= b /\ b <= f /\ f <= Len(sent[d])
  BY <1>0, Ordered, Zenon
<1>2. counted[d] = f \/ counted[d] = m
  BY <1>0, ZenonT(40) DEF Line
<1>3. Len(got[d]) \in Nat /\ Len(sent[d]) \in Nat
  BY Sizes DEF IInv, Sequences
<1> QED
  BY <1>1, <1>2, <1>3

-----------------------------------------------------------------------------
(***************************************************************************)
(* What follows.                                                           *)
(***************************************************************************)
\* The invariant holds at every moment of a forwarded connection.
THEOREM Invariant == Spec => []IInv
  BY InitIInv, NextIInv, PTL DEF Spec

\* The state of the two relays, their transports and their buffers stays
\* well formed for any windows and frames.
THEOREM Typed == Spec => []TypeOK
<1>1. IInv => TypeOK
  BY ZenonT(40) DEF IInv
<1> QED
  BY <1>1, Invariant, PTL

\* pump_counted: at every moment, and in both directions, what the TUI shows
\* is at least what has arrived and at most what was written.
THEOREM Counted == Spec => []CountersAreBetween
<1>1. IInv => CountersAreBetween
  BY Between, Zenon DEF CountersAreBetween
<1> QED
  BY <1>1, Invariant, PTL

\* What an application reads is what the other one wrote at that place.
LEMMA ReadDelivers ==
    ASSUME IInv, NEW d \in Dirs, AppRead(d)
    PROVE  Promise!Deliver(d)
<1>0. PICK h, m, b, f \in Nat : Line(d, h, m, b, f)
  BY Zenon DEF IInv, InOrder
<1>1. Sequences(d)
  BY Sizes, Zenon DEF IInv
<1>2. /\ d \notin eof /\ data[Last(d)] # << >>
      /\ got' = [got EXCEPT ![d] = Append(@, Head(data[Last(d)]))]
      /\ UNCHANGED <<sent, closed, eof, broken>>
  BY DEF AppRead
<1>3. Head(data[Last(d)]) = Len(got[d]) + 1 /\ Len(got[d]) + 1 <= h
  BY <1>0, <1>1, <1>2, LinkTake, Zenon DEF Line, Piece, Sequences
<1>4. h <= Len(sent[d])
  BY <1>0, Ordered, Zenon
<1>5. Len(got[d]) < Len(sent[d]) /\ Len(got[d]) + 1 \in 1 .. Len(sent[d])
  <2>1. Len(got[d]) \in Nat /\ Len(sent[d]) \in Nat
    BY <1>1, Zenon DEF Sequences
  <2> QED
    BY <1>3, <1>4, <2>1, SMTT(30)
<1>6. sent[d][Len(got[d]) + 1] = Len(got[d]) + 1
  <2>1. \A s \in Seq(Nat) : Continues(s, 0, 0) => \A i \in 1 .. Len(s) : s[i] = i
    BY DEF Continues
  <2>2. sent[d] \in Seq(Nat) /\ Continues(sent[d], 0, 0)
    BY <1>0, <1>1, Zenon DEF Line, Sequences
  <2> QED
    BY <1>5, <2>1, <2>2, ZenonT(40)
<1>7. got' = [got EXCEPT ![d] = Append(@, sent[d][Len(got[d]) + 1])]
  BY <1>2, <1>3, <1>6, ZenonT(40)
<1> QED
  BY <1>2, <1>5, <1>7, Zenon DEF Promise!Deliver

\* Two runs of the numbered bytes of the same length are the same.
LEMMA SameBytes ==
    ASSUME NEW s \in Seq(Nat), NEW t \in Seq(Nat), Len(s) = Len(t), Continues(s, 0, 0), Continues(t, 0, 0)
    PROVE  s = t
<1>1. \A i \in 1 .. Len(s) : s[i] = t[i]
  BY DEF Continues
<1> QED
  BY <1>1, SMTT(30)

\* An application sees the end of its connection after everything the other
\* one wrote before it closed, unless the connection was broken.
LEMMA EndIsLast ==
    ASSUME IInv, NEW d \in Dirs, AppEnd(d)
    PROVE  Promise!End(d)
<1>0. PICK h, m, b, f \in Nat : Line(d, h, m, b, f)
  BY Zenon DEF IInv, InOrder
<1>1. Sequences(d) /\ Ends /\ Buffers /\ Skip(d) \in 0 .. Len(data[Mid(d)])
  BY Sizes, SkipBound, Zenon DEF IInv
<1>2. AtEnd(Last(d)) \/ Last(d) \in cut
  BY Zenon DEF AppEnd
<1>3. ASSUME ~broken PROVE d \in closed /\ got[d] = sent[d]
  <2>1. cut = {} /\ Last(d) \in fin /\ data[Last(d)] = << >>
    BY <1>1, <1>2, <1>3, Zenon DEF Ends, AtEnd
  <2>2. pump[Behind(d)] = "end" /\ data[Mid(d)] = << >> /\ pump[Before(d)] = "end"
        /\ data[First(d)] = << >> /\ d \in closed
    BY <1>1, <1>3, <2>1, Zenon DEF Ends
  <2>3. buf[Behind(d)] = << >> /\ buf[Before(d)] = << >>
    BY <1>1, <2>2, Places, Zenon DEF Buffers
  <2>4. Skip(d) = 0
    <3>1. Len(data[Mid(d)]) = 0
      BY <2>2
    <3> QED
      BY <1>1, <3>1, SMTT(30)
  <2>5. /\ Full(Len(got[d]), << >>, 0, h) /\ Full(h, << >>, 0, m) /\ Full(m, << >>, 0, b)
        /\ Full(b, << >>, 0, f) /\ Full(f, << >>, 0, Len(sent[d]))
    BY <1>0, <1>3, <2>1, <2>2, <2>3, <2>4, ZenonT(40) DEF Line, Piece
  <2>6. Len(got[d]) = Len(sent[d])
    <3>1. \A x, y \in Nat : Full(x, << >>, 0, y) => x = y
      BY LinkEmpty
    <3> QED
      BY <1>1, <2>5, <3>1, ZenonT(40) DEF Sequences
  <2>7. got[d] \in Seq(Nat) /\ sent[d] \in Seq(Nat) /\ Continues(sent[d], 0, 0) /\ Continues(got[d], 0, 0)
    BY <1>0, <1>1, Zenon DEF Line, Sequences
  <2> QED
    BY <2>2, <2>6, <2>7, SameBytes, Zenon
<1>4. broken \/ (d \in closed /\ got[d] = sent[d])
  BY <1>3
<1> QED
  BY <1>4, Zenon DEF Promise!End, AppEnd

\* What an application writes is one byte more.
LEMMA SendSends ==
    ASSUME TypeOK, NEW d \in Dirs, AppSend(d)
    PROVE  Promise!Send(d)
<1>1. /\ d \notin closed /\ sent' = [sent EXCEPT ![d] = Append(@, Len(@) + 1)]
      /\ UNCHANGED <<closed, got, eof, broken>>
  BY Zenon DEF AppSend
<1>2. sent \in [Dirs -> Seq(Nat)]
  BY Zenon DEF TypeOK
<1>3. sent'[d] = Append(sent[d], Len(sent[d]) + 1)
  BY <1>1, <1>2, Zenon
<1>4. \A s \in Seq(Nat), x \in Nat : Append(s, x) # << >> /\ Append(s, x)[Len(Append(s, x))] = x
  OBVIOUS
<1>5. sent[d] \in Seq(Nat) /\ Len(sent[d]) + 1 \in Nat
  BY <1>2, SMTT(30)
<1>6. sent'[d] # << >> /\ sent'[d][Len(sent'[d])] = Len(sent[d]) + 1
  BY <1>3, <1>4, <1>5, Zenon
<1> QED
  BY <1>1, <1>6, Zenon DEF Promise!Send

\* A step of the relays is a step of the promise, or none.
LEMMA StepKeepsPipe ==
    ASSUME IInv, [Next]_vars
    PROVE  [Promise!Next]_(Promise!vars)
<1>0. TypeOK
  BY Zenon DEF IInv
<1>a. ASSUME UNCHANGED appVars, broken' = broken \/ broken' = TRUE
      PROVE  Promise!Break \/ UNCHANGED Promise!vars
  BY <1>a DEF appVars, Promise!Break, Promise!vars
<1>1. ASSUME Client PROVE Promise!Break \/ UNCHANGED Promise!vars
  BY <1>a, <1>1, Zenon DEF Client, Request, ReadReply, ReplyFails, ClientGivesUp, StartClient, ClientReturns
<1>2. ASSUME Daemon PROVE Promise!Break \/ UNCHANGED Promise!vars
  BY <1>a, <1>2, ZenonT(40) DEF Daemon, ReadForward, ForwardFails, Refuse, StartDaemon, DaemonReturns
<1>3. ASSUME Fault PROVE Promise!Break \/ UNCHANGED Promise!vars
  BY <1>a, <1>3, Zenon DEF Fault
<1>4. ASSUME NEW p \in Pumps, Pump(p) \/ PumpIdle(p)
      PROVE  Promise!Break \/ UNCHANGED Promise!vars
  BY <1>a, <1>4, ZenonT(40) DEF Pump, PumpRead, PumpWrite, PumpEnds, PumpIdle
<1>5. ASSUME NEW d \in Dirs, App(d)
      PROVE  Promise!Send(d) \/ Promise!Close(d) \/ Promise!Deliver(d) \/ Promise!End(d)
  <2>1. CASE AppSend(d)
    BY <1>0, <2>1, SendSends, Zenon
  <2>2. CASE AppClose(d)
    BY <2>2, Zenon DEF AppClose, Promise!Close
  <2>3. CASE AppRead(d)
    BY <2>3, ReadDelivers, Zenon
  <2>4. CASE AppEnd(d)
    BY <2>4, EndIsLast, ZenonT(40)
  <2> QED
    BY <1>5, <2>1, <2>2, <2>3, <2>4, Zenon DEF App
<1>6. CASE UNCHANGED vars
  BY <1>6, Zenon DEF vars, appVars, Promise!vars
<1>7. (\E p \in Pumps : Pump(p) \/ PumpIdle(p)) => Promise!Break \/ UNCHANGED Promise!vars
  BY <1>4, Zenon
<1>8. (\E d \in Dirs : App(d)) => Promise!Next
  BY <1>5, Zenon DEF Promise!Next
<1> QED
  BY <1>1, <1>2, <1>3, <1>6, <1>7, <1>8, ZenonT(40) DEF Next, Promise!Next

\* The two relays, with the frames before them, are a pipe: no byte of a
\* frame reaches an application, none of theirs is lost, doubled, changed or
\* reordered, and the end of a stream comes after all of it unless the
\* connection was broken (docs/design.md, section 7.5).
THEOREM ImplementsPipe == Spec => KeepsPipe
<1>1. Init => Promise!Init
  BY Zenon DEF Init, Promise!Init
<1>2. IInv /\ [Next]_vars => [Promise!Next]_(Promise!vars)
  BY StepKeepsPipe, Zenon
<1> QED
  BY <1>1, <1>2, Invariant, PTL DEF Spec, KeepsPipe, Promise!Spec

=============================================================================

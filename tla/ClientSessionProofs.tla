------------------------ MODULE ClientSessionProofs ------------------------
(***************************************************************************)
(* What holds of ClientSession for any number of local connections and any *)
(* stream limit: a retry never meets the connection that failed, re-dials  *)
(* are counted, and the status does not claim a connection that is not     *)
(* there.                                                                  *)
(*                                                                         *)
(* The first two rest on the session's lock being held from the test of    *)
(* the cache to the end of the hello: at most one task dials, what it      *)
(* makes is new to everybody, and nothing is cached meanwhile.             *)
(***************************************************************************)
EXTENDS ClientSession, TLAPS

USE DEF sessionVars

\* The task that dials has the lock.
DialerHolds == \A t \in Tasks : pc[t] \in {"dialing", "hello"} => Holds(t)

\* The connection whose hello is under way is nobody's yet.
HelloIsNew ==
    \A t, u \in Tasks : pc[t] = "hello" => dialled > 0 /\ dialled \notin conn[u]

\* Every dial after the first success was counted before it could succeed.
DialsAreCounted ==
    /\ ~established => made = 0
    /\ made <= redials + 1
    /\ \A t \in Tasks : pc[t] \in {"dialing", "hello"} /\ established => made <= redials

\* A local connection that opens a stream, or has failed to, has a connection.
WorksWithOne ==
    \A t \in Locals : pc[t] \in {"open", "reply", "invalidate", "clearing"} => conn[t] # {}

\* A local connection has dropped the connection it found broken.
Dropped(t) ==
    \/ pc[t] \in {"load", "publish"}
    \/ attempt[t] = 1 /\ pc[t] \in {"get", "queued", "dialing", "hello"}

DroppedIsNotCached == \A t \in Locals : Dropped(t) => conn[t] # {} /\ cached # conn[t]

IdleIsFirst == \A t \in Locals : pc[t] = "idle" => attempt[t] = 0

IInv ==
    /\ TypeOK
    /\ DialerHolds
    /\ HelloIsNew
    /\ DialsAreCounted
    /\ WorksWithOne
    /\ DroppedIsNotCached
    /\ IdleIsFirst
    /\ EstablishedIsHeld

-----------------------------------------------------------------------------
\* Where get and invalidate send a task are program points.
LEMMA PointsOfReturn ==
    ASSUME NEW t PROVE Served(t) \in Points /\ Unserved(t) \in Points
BY DEF Served, Unserved, Points

\* Dropping a task from the lock's queue leaves a queue of tasks, at whose
\* head another task stays.
LEMMA WithoutIsQueue ==
    ASSUME NEW t, queue \in Seq(Tasks)
    PROVE  /\ Without(t) \in Seq(Tasks)
           /\ \A u : Holds(u) /\ u # t => Without(t) # << >> /\ Head(Without(t)) = u
<1>1. CASE \A k \in 1 .. Len(queue) : queue[k] # t
  BY <1>1, Zenon DEF Without, Holds
<1>2. CASE \E k \in 1 .. Len(queue) : queue[k] = t
  <2> DEFINE at == CHOOSE k \in 1 .. Len(queue) : queue[k] = t
             rest == [k \in 1 .. Len(queue) - 1 |-> queue[IF k < at THEN k ELSE k + 1]]
  <2>1. at \in 1 .. Len(queue) /\ queue[at] = t
    BY <1>2, Zenon
  <2>2. Without(t) = rest
    BY <1>2, Zenon DEF Without
  <2> HIDE DEF at
  <2>3. Len(queue) - 1 \in Nat /\ \A k \in 1 .. Len(queue) - 1 : rest[k] \in Tasks
    BY <2>1
  <2>4. rest \in Seq(Tasks) /\ Len(rest) = Len(queue) - 1
    BY <2>3
  <2>5. ASSUME NEW u, Holds(u), u # t PROVE rest # << >> /\ Head(rest) = u
    <3>1. queue # << >> /\ queue[1] = u
      BY <2>5 DEF Holds
    <3>2. at > 1
      BY <2>1, <2>5, <3>1
    <3>3. rest[1] = u /\ Len(rest) >= 1
      BY <2>1, <2>4, <3>1, <3>2
    <3> HIDE DEF rest
    <3> QED
      BY <2>4, <3>3
  <2> QED
    BY <2>2, <2>4, <2>5
<1> QED
  BY <1>1, <1>2, Zenon

\* Every step of the session and of its tasks keeps every variable in its type.
LEMMA TypeStep == IInv /\ [Next]_vars => TypeOK'
<1> SUFFICES ASSUME IInv, [Next]_vars PROVE TypeOK'
  BY Zenon
<1>0. TypeOK /\ DialerHolds /\ HelloIsNew
  BY Zenon DEF IInv
<1> USE DEF TypeOK, Goto
<1>1. ASSUME NEW t \in Tasks, Get(t) PROVE TypeOK'
  <2>1. CASE Lock(t)
    BY <1>0, <2>1 DEF Lock, Points
  <2>2. CASE GetCached(t)
    <3>1. queue' \in Seq(Tasks) /\ pc' \in [Tasks -> Points]
      BY <1>0, <2>2, PointsOfReturn DEF GetCached, Holds
    <3>2. conn' \in [Tasks -> SUBSET (1 .. dialled)]
      BY <1>0, <2>2, Zenon DEF GetCached
    <3> QED
      BY <1>0, <2>2, <3>1, <3>2, SMTT(30) DEF GetCached
  <2>3. CASE StartDial(t)
    <3>1. redials' \in Nat
      BY <1>0, <2>3 DEF StartDial
    <3>2. status' \in States
      BY <1>0, <2>3, <3>1, Zenon DEF StartDial, States
    <3> QED
      BY <1>0, <2>3, <3>1, <3>2 DEF StartDial, Points
  <2>4. CASE DialOk(t)
    BY <1>0, <2>4, SessionAssumption DEF DialOk, Points
  <2>5. CASE HelloOk(t)
    <3>1. queue' \in Seq(Tasks) /\ pc' \in [Tasks -> Points]
      BY <1>0, <2>5, PointsOfReturn DEF HelloOk, Holds, DialerHolds
    <3>2. dialled \in 1 .. dialled
      BY <1>0, <2>5, SessionAssumption DEF HelloOk, HelloIsNew
    <3>3. status' \in States
      BY <1>0, <2>5 DEF HelloOk, States
    <3> QED
      BY <1>0, <2>5, <3>1, <3>2, <3>3, SMTT(30) DEF HelloOk
  <2>6. CASE GetFails(t)
    <3>1. queue' \in Seq(Tasks) /\ pc' \in [Tasks -> Points]
      BY <1>0, <2>6, PointsOfReturn DEF GetFails, Holds, DialerHolds
    <3> QED
      BY <1>0, <2>6, <3>1 DEF GetFails
  <2> QED
    BY <1>1, <2>1, <2>2, <2>3, <2>4, <2>5, <2>6, SMTT(30) DEF Get
<1>2. ASSUME NEW t \in Tasks, Invalidate(t) PROVE TypeOK'
  <2>1. CASE Clear(t)
    BY <1>0, <2>1, SMTT(30) DEF Clear, Holds, Points
  <2>2. CASE Load(t)
    BY <1>0, <2>2 DEF Load, Points
  <2>3. CASE Publish(t)
    BY <1>0, <2>3, ZenonT(40) DEF Publish, RetryOnce, Points, States
  <2> QED
    BY <1>2, <2>1, <2>2, <2>3 DEF Invalidate
<1>3. ASSUME NEW t \in Locals, Local(t) \/ Accept(t) \/ RelayEnds(t) PROVE TypeOK'
  BY <1>0, <1>3, ZenonT(40) DEF Local, Request, RequestFails, ReplyOk, ReplyRefused, Accept, RelayEnds, Points,
              Tasks
<1>4. CASE Tick \/ PathsEnd \/ Validate
  BY <1>0, <1>4, ZenonT(40) DEF Tick, PathsEnd, Validate, Points
<1>5. CASE Stop
  BY <1>0, <1>5, WithoutIsQueue, Zenon DEF Stop, Points
<1>6. ASSUME NEW k \in 1 .. dialled, Lose(k) PROVE TypeOK'
  BY <1>0, <1>6 DEF Lose
<1>7. CASE UNCHANGED vars
  BY <1>0, <1>7 DEF vars
<1> QED
  BY <1>1, <1>2, <1>3, <1>4, <1>5, <1>6, <1>7, Zenon DEF Next, Steps, Finished

\* Nobody else can take the lock from a task that dials: only the holder's own
\* steps, and the drop of an aborted watcher, shorten the queue.
LEMMA DialerStep == IInv /\ [Next]_vars => DialerHolds'
<1> SUFFICES ASSUME IInv, [Next]_vars,
                    NEW u \in Tasks, pc'[u] \in {"dialing", "hello"}
             PROVE  queue' # << >> /\ Head(queue') = u
  BY DEF DialerHolds, Holds
<1>t. /\ pc \in [Tasks -> Points] /\ queue \in Seq(Tasks)
      /\ \A t \in Tasks : pc[t] \in {"dialing", "hello"} => queue # << >> /\ Head(queue) = t
  BY DEF IInv, TypeOK, DialerHolds, Holds
<1> USE DEF Goto
<1>1. ASSUME NEW t \in Tasks, Get(t) PROVE queue' # << >> /\ Head(queue') = u
  <2>1. CASE Lock(t)
    <3>1. pc[u] \in {"dialing", "hello"}
      BY <1>t, <2>1 DEF Lock
    <3> QED
      BY <1>t, <2>1, <3>1 DEF Lock
  <2>2. CASE GetCached(t)
    BY <1>t, <2>2 DEF GetCached, Served, Holds
  <2>3. CASE StartDial(t)
    BY <1>t, <2>3 DEF StartDial, Holds
  <2>4. CASE DialOk(t)
    BY <1>t, <2>4 DEF DialOk
  <2>5. CASE HelloOk(t)
    BY <1>t, <2>5 DEF HelloOk, Served
  <2>6. CASE GetFails(t)
    BY <1>t, <2>6 DEF GetFails, Unserved
  <2> QED
    BY <1>1, <2>1, <2>2, <2>3, <2>4, <2>5, <2>6 DEF Get
<1>2. ASSUME NEW t \in Tasks, Invalidate(t) PROVE queue' # << >> /\ Head(queue') = u
  BY <1>t, <1>2 DEF Invalidate, Clear, Load, Publish, RetryOnce, Holds
<1>3. ASSUME NEW t \in Locals, Local(t) \/ Accept(t) \/ RelayEnds(t)
      PROVE  queue' # << >> /\ Head(queue') = u
  BY <1>t, <1>3 DEF Local, Request, RequestFails, ReplyOk, ReplyRefused, Accept, RelayEnds, Tasks
<1>4. CASE Tick \/ PathsEnd \/ Validate
  BY <1>t, <1>4 DEF Tick, PathsEnd, Validate, Tasks
<1>5. CASE Stop
  <2>1. u # "watcher" /\ pc[u] \in {"dialing", "hello"}
    BY <1>t, <1>5 DEF Stop, Tasks
  <2> QED
    BY <1>t, <1>5, <2>1, WithoutIsQueue DEF Stop, Holds
<1>6. ASSUME NEW k \in 1 .. dialled, Lose(k) PROVE queue' # << >> /\ Head(queue') = u
  BY <1>t, <1>6 DEF Lose
<1>7. CASE UNCHANGED vars
  BY <1>t, <1>7 DEF vars
<1> QED
  BY <1>1, <1>2, <1>3, <1>4, <1>5, <1>6, <1>7 DEF Next, Steps, Finished

\* At most one task dials.
LEMMA OneDialer ==
    ASSUME DialerHolds, NEW t \in Tasks, NEW u \in Tasks,
           pc[t] \in {"dialing", "hello"}, pc[u] \in {"dialing", "hello"}
    PROVE  t = u
BY Zenon DEF DialerHolds, Holds

\* A connection is new when it is made, and handed out only after its hello.
LEMMA HelloStep == IInv /\ [Next]_vars => HelloIsNew'
<1> SUFFICES ASSUME IInv, [Next]_vars, NEW v \in Tasks, NEW u \in Tasks, pc'[v] = "hello"
             PROVE  dialled' > 0 /\ dialled' \notin conn'[u]
  BY DEF HelloIsNew
<1>t. /\ pc \in [Tasks -> Points] /\ conn \in [Tasks -> SUBSET (1 .. dialled)]
      /\ dialled \in Nat /\ cached \subseteq 1 .. dialled
      /\ HelloIsNew /\ DialerHolds
  BY SessionAssumption DEF IInv, TypeOK
<1>u. ASSUME pc[v] = "hello", UNCHANGED <<conn, dialled>>
      PROVE  dialled' > 0 /\ dialled' \notin conn'[u]
  BY <1>t, <1>u, Zenon DEF HelloIsNew
<1> USE DEF Goto
<1>1. ASSUME NEW t \in Tasks, Get(t) PROVE dialled' > 0 /\ dialled' \notin conn'[u]
  <2>1. CASE Lock(t) \/ StartDial(t) \/ GetFails(t)
    BY <1>t, <1>u, <2>1 DEF Lock, StartDial, GetFails, Unserved
  <2>2. CASE GetCached(t)
    <3>1. pc[v] = "hello" /\ v # t /\ Holds(t)
      BY <1>t, <2>2 DEF GetCached, Served
    <3> QED
      BY <1>t, <3>1 DEF DialerHolds, Holds
  <2>3. CASE DialOk(t)
    BY <1>t, <2>3 DEF DialOk
  <2>4. CASE HelloOk(t)
    <3>1. pc[v] = "hello" /\ pc[t] = "hello" /\ v # t
      BY <1>t, <2>4, Zenon DEF HelloOk, Served
    <3> QED
      BY <1>t, <3>1, OneDialer
  <2> QED
    BY <1>1, <2>1, <2>2, <2>3, <2>4 DEF Get
<1>2. ASSUME NEW t \in Tasks, Invalidate(t) PROVE dialled' > 0 /\ dialled' \notin conn'[u]
  BY <1>t, <1>u, <1>2, Zenon DEF Invalidate, Clear, Load, Publish, RetryOnce
<1>3. ASSUME NEW t \in Locals, Local(t) \/ Accept(t) \/ RelayEnds(t)
      PROVE  dialled' > 0 /\ dialled' \notin conn'[u]
  BY <1>t, <1>u, <1>3
  DEF Local, Request, RequestFails, ReplyOk, ReplyRefused, Accept, RelayEnds, Tasks
<1>4. CASE Tick \/ PathsEnd \/ Validate \/ Stop
  BY <1>t, <1>u, <1>4 DEF Tick, PathsEnd, Validate, Stop, Tasks
<1>6. ASSUME NEW k \in 1 .. dialled, Lose(k) PROVE dialled' > 0 /\ dialled' \notin conn'[u]
  BY <1>t, <1>u, <1>6 DEF Lose
<1>7. CASE UNCHANGED vars
  BY <1>t, <1>u, <1>7 DEF vars
<1> QED
  BY <1>1, <1>2, <1>3, <1>4, <1>6, <1>7, Zenon DEF Next, Steps, Finished

\* get counts a re-dial before it dials, and only a dial makes a connection.
LEMMA CountStep == IInv /\ [Next]_vars => DialsAreCounted'
<1> SUFFICES ASSUME IInv, [Next]_vars PROVE DialsAreCounted'
  OBVIOUS
<1>t. /\ pc \in [Tasks -> Points] /\ made \in Nat /\ redials \in Nat
      /\ DialsAreCounted /\ DialerHolds
  BY DEF IInv, TypeOK
<1>u. ASSUME UNCHANGED <<established, made, redials>>,
             \A t \in Tasks : pc'[t] \in {"dialing", "hello"} => pc[t] \in {"dialing", "hello"}
      PROVE  DialsAreCounted'
  BY <1>t, <1>u DEF DialsAreCounted
<1> USE DEF Goto
<1>1. ASSUME NEW t \in Tasks, Get(t) PROVE DialsAreCounted'
  <2>1. CASE Lock(t) \/ DialOk(t) \/ GetFails(t) \/ GetCached(t)
    BY <1>t, <1>u, <2>1 DEF Lock, DialOk, GetFails, Unserved, GetCached, Served
  <2>2. CASE StartDial(t)
    BY <1>t, <2>2 DEF StartDial, DialsAreCounted
  <2>3. CASE HelloOk(t)
    <3>1. ASSUME NEW u \in Tasks PROVE pc'[u] \notin {"dialing", "hello"}
      <4>1. CASE u = t
        BY <1>t, <2>3, <4>1 DEF HelloOk, Served
      <4>2. CASE u # t
        BY <1>t, <2>3, <4>2, OneDialer, Zenon DEF HelloOk
      <4> QED
        BY <4>1, <4>2
    <3>2. made <= redials
      BY <1>t, <2>3 DEF HelloOk, DialsAreCounted
    <3> QED
      BY <1>t, <2>3, <3>1, <3>2 DEF HelloOk, DialsAreCounted
  <2> QED
    BY <1>1, <2>1, <2>2, <2>3, Zenon DEF Get
<1>2. ASSUME NEW t \in Tasks, Invalidate(t) PROVE DialsAreCounted'
  BY <1>t, <1>u, <1>2, SMTT(30) DEF Invalidate, Clear, Load, Publish, RetryOnce
<1>3. ASSUME NEW t \in Locals, Local(t) \/ Accept(t) \/ RelayEnds(t) PROVE DialsAreCounted'
  BY <1>t, <1>u, <1>3
  DEF Local, Request, RequestFails, ReplyOk, ReplyRefused, Accept, RelayEnds, Tasks
<1>4. CASE Tick \/ PathsEnd \/ Validate \/ Stop
  BY <1>t, <1>u, <1>4 DEF Tick, PathsEnd, Validate, Stop, Tasks
<1>6. ASSUME NEW k \in 1 .. dialled, Lose(k) PROVE DialsAreCounted'
  BY <1>t, <1>u, <1>6 DEF Lose
<1>7. CASE UNCHANGED vars
  BY <1>t, <1>u, <1>7 DEF vars
<1> QED
  BY <1>1, <1>2, <1>3, <1>4, <1>6, <1>7 DEF Next, Steps, Finished

\* What one local connection knows of its attempts: it opens a stream only of
\* a connection that get returned, it clears what it found broken before it
\* tries again, and what is cached later is another connection.
LEMMA AttemptStep == IInv /\ [Next]_vars => (WorksWithOne /\ DroppedIsNotCached /\ IdleIsFirst)'
<1> SUFFICES ASSUME IInv, [Next]_vars, NEW u \in Locals
             PROVE  /\ (pc[u] \in {"open", "reply", "invalidate", "clearing"} => conn[u] # {})'
                    /\ (Dropped(u) => conn[u] # {} /\ cached # conn[u])'
                    /\ (pc[u] = "idle" => attempt[u] = 0)'
  BY Zenon DEF WorksWithOne, DroppedIsNotCached, IdleIsFirst
<1> DEFINE Goal == /\ (pc[u] \in {"open", "reply", "invalidate", "clearing"} => conn[u] # {})'
                   /\ (Dropped(u) => conn[u] # {} /\ cached # conn[u])'
                   /\ (pc[u] = "idle" => attempt[u] = 0)'
<1>t. /\ pc \in [Tasks -> Points] /\ conn \in [Tasks -> SUBSET (1 .. dialled)]
      /\ attempt \in [Locals -> {0, 1}] /\ u \in Tasks
      /\ (pc[u] \in {"open", "reply", "invalidate", "clearing"} => conn[u] # {})
      /\ (Dropped(u) => conn[u] # {} /\ cached # conn[u])
      /\ (pc[u] = "idle" => attempt[u] = 0)
  BY DEF IInv, TypeOK, WorksWithOne, DroppedIsNotCached, IdleIsFirst, Tasks
<1>w. u # "main" /\ u # "watcher"
  BY SessionAssumption, Zenon
<1> USE DEF Goto, Dropped
<1>1. ASSUME NEW t \in Tasks, Get(t) PROVE Goal
  <2>1. CASE Lock(t) \/ StartDial(t) \/ DialOk(t) \/ GetFails(t)
    BY <1>t, <2>1, ZenonT(40) DEF Lock, StartDial, DialOk, GetFails, Unserved
  <2>2. CASE GetCached(t)
    BY <1>t, <2>2 DEF GetCached, Served
  <2>3. CASE HelloOk(t)
    <3>1. dialled \notin conn[u]
      BY <1>t, <2>3, Zenon DEF HelloOk, IInv, HelloIsNew
    <3> QED
      BY <1>t, <2>3, <3>1 DEF HelloOk, Served
  <2> QED
    BY <1>1, <2>1, <2>2, <2>3, Zenon DEF Get
<1>2. ASSUME NEW t \in Tasks, Invalidate(t) PROVE Goal
  <2>1. CASE Clear(t)
    BY <1>t, <2>1, Zenon DEF Clear
  <2>2. CASE Load(t)
    BY <1>t, <2>2, Zenon DEF Load
  <2>3. CASE Publish(t)
    BY <1>t, <2>3, SMTT(30) DEF Publish, RetryOnce
  <2> QED
    BY <1>2, <2>1, <2>2, <2>3, Zenon DEF Invalidate
<1>3. ASSUME NEW t \in Locals, Local(t) \/ Accept(t) \/ RelayEnds(t) PROVE Goal
  BY <1>t, <1>3, SMTT(30)
  DEF Local, Request, RequestFails, ReplyOk, ReplyRefused, Accept, RelayEnds, Tasks
<1>4. ASSUME Tick \/ PathsEnd \/ Validate \/ Stop PROVE Goal
  BY <1>t, <1>w, <1>4 DEF Tick, PathsEnd, Validate, Stop
<1>6. ASSUME NEW k \in 1 .. dialled, Lose(k) PROVE Goal
  BY <1>t, <1>6, Zenon DEF Lose
<1>7. ASSUME UNCHANGED vars PROVE Goal
  BY <1>t, <1>7 DEF vars
<1> HIDE DEF Goal
<1>8. Goal
  BY <1>1, <1>2, <1>3, <1>4, <1>6, <1>7, Zenon DEF Next, Steps, Finished
<1> QED
  BY <1>8 DEF Goal

\* Whoever empties the cache goes on to publish it.
LEMMA HeldStep == IInv /\ [Next]_vars => EstablishedIsHeld'
<1> SUFFICES ASSUME IInv, [Next]_vars PROVE EstablishedIsHeld'
  OBVIOUS
<1>t. pc \in [Tasks -> Points] /\ EstablishedIsHeld
  BY Zenon DEF IInv, TypeOK
<1> USE DEF Goto, EstablishedIsHeld
<1>1. ASSUME NEW t \in Tasks, Get(t) PROVE EstablishedIsHeld'
  <2>1. CASE Lock(t)
    BY <1>t, <2>1 DEF Lock
  <2>2. CASE GetCached(t)
    BY <1>t, <2>2, Zenon DEF GetCached
  <2>3. CASE StartDial(t)
    BY <1>t, <2>3, Zenon DEF StartDial
  <2>4. CASE DialOk(t) \/ GetFails(t)
    BY <1>t, <2>4, Zenon DEF DialOk, GetFails
  <2>5. CASE HelloOk(t)
    BY <1>t, <2>5, Zenon DEF HelloOk
  <2> QED
    BY <1>1, <2>1, <2>2, <2>3, <2>4, <2>5, Zenon DEF Get
<1>2. ASSUME NEW t \in Tasks, Invalidate(t) PROVE EstablishedIsHeld'
  BY <1>t, <1>2 DEF Invalidate, Clear, Load, Publish
<1>3. ASSUME NEW t \in Locals, Local(t) \/ Accept(t) \/ RelayEnds(t) PROVE EstablishedIsHeld'
  BY <1>t, <1>3, Zenon
  DEF Local, Request, RequestFails, ReplyOk, ReplyRefused, Accept, RelayEnds, Tasks
<1>4. CASE Tick \/ PathsEnd \/ Validate \/ Stop
  BY <1>t, <1>4 DEF Tick, PathsEnd, Validate, Stop, Tasks
<1>6. ASSUME NEW k \in 1 .. dialled, Lose(k) PROVE EstablishedIsHeld'
  BY <1>t, <1>6 DEF Lose
<1>7. CASE UNCHANGED vars
  BY <1>t, <1>7 DEF vars
<1> QED
  BY <1>1, <1>2, <1>3, <1>4, <1>6, <1>7 DEF Next, Steps, Finished

-----------------------------------------------------------------------------
\* The program starts with an idle session and run about to dial.
LEMMA InitSound == Init => IInv
<1> SUFFICES ASSUME Init PROVE IInv
  BY Zenon
<1>1. TypeOK
  <2>1. pc \in [Tasks -> Points]
    BY DEF Init, Points
  <2>2. status \in States
    BY Zenon DEF Init, States
  <2>3. queue \in Seq(Tasks)
    BY DEF Init
  <2>4. tui \in BOOLEAN /\ established \in BOOLEAN
    BY Zenon DEF Init
  <2>5. /\ conn \in [Tasks -> SUBSET (1 .. dialled)] /\ attempt \in [Locals -> {0, 1}]
        /\ seen \in [Tasks -> Nat] /\ dialled \in 0 .. MaxConns
    BY SessionAssumption DEF Init
  <2> QED
    BY <2>1, <2>2, <2>3, <2>4, <2>5, Zenon DEF Init, TypeOK
<1>2. DialerHolds /\ HelloIsNew /\ DialsAreCounted
  BY DEF Init, DialerHolds, HelloIsNew, DialsAreCounted, Tasks
<1>3. WorksWithOne /\ DroppedIsNotCached /\ IdleIsFirst /\ EstablishedIsHeld
  BY SessionAssumption
  DEF Init, WorksWithOne, DroppedIsNotCached, Dropped, IdleIsFirst, EstablishedIsHeld, Tasks
<1> QED
  BY <1>1, <1>2, <1>3 DEF IInv

\* The inductive invariant holds throughout.
LEMMA Invariance == Spec => []IInv
<1>1. IInv /\ [Next]_vars => IInv'
  BY TypeStep, DialerStep, HelloStep, CountStep, AttemptStep, HeldStep DEF IInv
<1> QED
  BY <1>1, InitSound, PTL DEF Spec

\* session.rs keeps its state, and connect.rs its tasks, in their types.
THEOREM TypeCorrect == Spec => []TypeOK
<1>1. IInv => TypeOK
  BY DEF IInv
<1> QED
  BY <1>1, Invariance, PTL

\* However many tasks call get at once, every connection after the first one
\* is accounted for by the redial counter (session.rs:79-105).
THEOREM RedialsAreCounted == Spec => []RedialsCountReconnects
<1>1. IInv => RedialsCountReconnects
  BY DEF IInv, DialsAreCounted, RedialsCountReconnects
<1> QED
  BY <1>1, Invariance, PTL

\* Established is shown only of a connection that is cached, or whose drop is
\* about to be published (session.rs:127-132).
THEOREM StatusIsHeld == Spec => []EstablishedIsHeld
<1>1. IInv => EstablishedIsHeld
  BY DEF IInv
<1> QED
  BY <1>1, Invariance, PTL

\* The one retry of handle_local never meets the connection that its first
\* attempt found broken (connect.rs:513-514), for any number of tasks that
\* get and invalidate in between.
THEOREM RetriesAreFresh == Spec => RetryIsFresh
<1> DEFINE Fresh(u) == attempt[u] = 1 /\ pc'[u] = "open" /\ pc[u] # "open" => conn'[u] # conn[u]
<1>1. ASSUME IInv, [Next]_vars, NEW u \in Locals PROVE Fresh(u)
  <2>t. /\ pc \in [Tasks -> Points] /\ conn \in [Tasks -> SUBSET (1 .. dialled)] /\ u \in Tasks
        /\ HelloIsNew
        /\ (Dropped(u) => cached # conn[u])
    BY <1>1 DEF IInv, TypeOK, DroppedIsNotCached, Tasks
  <2> USE DEF Goto
  <2>1. ASSUME NEW t \in Tasks, GetCached(t) PROVE Fresh(u)
    BY <2>t, <2>1, Zenon DEF GetCached, Dropped
  <2>2. ASSUME NEW t \in Tasks, HelloOk(t) PROVE Fresh(u)
    BY <2>t, <2>2, Zenon DEF HelloOk, HelloIsNew
  <2>3. ASSUME NEW t \in Tasks,
               Lock(t) \/ StartDial(t) \/ DialOk(t) \/ GetFails(t) \/ Invalidate(t)
        PROVE  Fresh(u)
    BY <2>t, <2>3, Zenon
    DEF Lock, StartDial, DialOk, GetFails, Unserved, Invalidate, Clear, Load, Publish, RetryOnce
  <2>4. ASSUME NEW t \in Locals, Local(t) \/ Accept(t) \/ RelayEnds(t) PROVE Fresh(u)
    BY <2>t, <2>4
    DEF Local, Request, RequestFails, ReplyOk, ReplyRefused, Accept, RelayEnds, Tasks
  <2>5. ASSUME Tick \/ PathsEnd \/ Validate \/ Stop PROVE Fresh(u)
    BY <2>t, <2>5, Zenon DEF Tick, PathsEnd, Validate, Stop, Tasks
  <2>6. ASSUME NEW k \in 1 .. dialled, Lose(k) PROVE Fresh(u)
    BY <2>t, <2>6, Zenon DEF Lose
  <2>7. ASSUME UNCHANGED vars PROVE Fresh(u)
    BY <2>t, <2>7, Zenon DEF vars
  <2> HIDE DEF Fresh
  <2> QED
    BY <1>1, <2>1, <2>2, <2>3, <2>4, <2>5, <2>6, <2>7, Zenon DEF Next, Steps, Finished, Get
<1>2. IInv /\ [Next]_vars =>
        [\A t \in Locals : attempt[t] = 1 /\ pc'[t] = "open" /\ pc[t] # "open" =>
            conn'[t] # conn[t]]_vars
  BY <1>1
<1> QED
  BY <1>2, Invariance, PTL DEF Spec, RetryIsFresh

=============================================================================

--------------------------- MODULE InputThreadProofs ---------------------------
(***************************************************************************)
(* The invariants of InputThread, for any objects, callbacks, peers and    *)
(* reads.  The inductive invariant has, beside the types, a part on what   *)
(* the thread holds in the middle of an event, and one on the stream.      *)
(***************************************************************************)
EXTENDS InputThread, Integers, SequenceTheorems, TLAPS

(* What a thread t works with is there, or went while it worked, where the *)
(* focus is f and proxies are p.                                           *)
Holds == Works \ {"test", "follow", "cursor"}
Sound(t, f, p) ==
  /\ t.at \in Polls => t.obj = Nil /\ t.hit = Nil
  /\ t.at \in Holds => t.obj # Nil
  /\ t.obj # Nil => t.obj \in created /\ (t.obj \in objects \/ "destroy" \in overlap)
  /\ t.hit # Nil => t.hit \in objects \/ "destroy" \in overlap
  /\ t.at = "follow" => t.hit # Nil /\ (f = t.hit \/ "destroy" \in overlap)
  /\ t.at \in {"sync", "create", "send", "unit", "finish"} => session # 0 \/ "disconnect" \in overlap
  /\ t.at = "render" => (t.session = session /\ session # 0) \/ "disconnect" \in overlap
  /\ t.at = "create" => t.session # 0
  /\ t.at \in {"send", "unit", "finish"} =>
        p[t.obj] # 0 \/ "disconnect" \in overlap \/ t.obj \notin objects
  /\ t.at = "unit" => unit[t.obj] = "listed" \/ "unit" \in overlap \/ t.obj \notin objects

(* Besides, the focus and proxies are of objects that are there, and no    *)
(* object outlives the clients.                                            *)
HeldInv ==
  /\ Sound(thread, focused, proxy)
  /\ focused # Nil => focused \in objects
  /\ \A o \in Objects : proxy[o] # 0 => o \in objects
  /\ server \notin {"starting", "running"} => objects = {}

(* As long as every read returned whole events, what is in the connection  *)
(* ends with the last event sent, and is of events that come after the     *)
(* last one handled.                                                       *)
Waiting == IF mouse = Nil THEN 0 ELSE Len(mouse)
WholeEvents(m, last) ==
  /\ Len(m) % 8 = 0
  /\ \A i \in 1..Len(m) : 8 * m[i].event + m[i].cell = 8 * (last + 1) + i - Len(m)
StreamInv ==
  ~split => /\ ~again
            /\ mouse # Nil => WholeEvents(mouse, sent)
            /\ 8 * handled + Waiting <= 8 * sent

IInv == TypeOK /\ HeldInv /\ RacesHaveCause /\ StreamInv

----------------------------------------------------------------------------
(* Types                                                                   *)

LEMMA WithoutObjectsTyped ==
  ASSUME RemoteTypeOK, NEW O, WithoutObjects(O), created \subseteq created', created' \subseteq Objects
  PROVE  /\ objects' \subseteq created' /\ committed' \subseteq objects'
         /\ proxy' \in [Objects -> 0..MaxSessions]
         /\ callback' \in [Callbacks -> Callback]
         /\ \A c \in Callbacks :
              callback'[c].at \in {"pending", "current"} => callback'[c].of \in objects'
<1> USE DEF RemoteTypeOK, WithoutObjects
<1>1. 0 \in 0..MaxSessions
  BY RemoteSessionAssumption
<1>2. ASSUME NEW c \in Callbacks
      PROVE  /\ callback'[c] \in Callback
             /\ callback'[c].at \in {"pending", "current"} => callback'[c].of \in objects'
  <2>1. callback[c] \in Callback
    OBVIOUS
  <2>2. CASE callback[c].of \in O /\ callback[c].at \in Dropped
    <3>1. callback'[c] = [callback[c] EXCEPT !.at = "dropped"]
      BY <2>2
    <3> QED BY <2>1, <3>1 DEF Callback
  <2>3. CASE ~(callback[c].of \in O /\ callback[c].at \in Dropped)
    <3>1. callback'[c] = callback[c]
      BY <2>3
    <3> QED BY <2>1, <2>3, <3>1 DEF Dropped
  <2> QED BY <2>2, <2>3
<1>3. callback' = [c \in Callbacks |-> callback'[c]]
  OBVIOUS
<1> QED BY <1>1, <1>2, <1>3

LEMMA CommitCallbacksTyped ==
  ASSUME RemoteTypeOK, NEW o \in objects, CommitCallbacks(o)
  PROVE  /\ callback' \in [Callbacks -> Callback]
         /\ \A c \in Callbacks :
              callback'[c].at \in {"pending", "current"} => callback'[c].of \in objects
<1> USE DEF RemoteTypeOK, CommitCallbacks
<1>1. ASSUME NEW c \in Callbacks
      PROVE  /\ callback'[c] \in Callback
             /\ callback'[c].at \in {"pending", "current"} => callback'[c].of \in objects
  BY <1>1 DEF Callback
<1>2. callback' = [c \in Callbacks |-> callback'[c]]
  OBVIOUS
<1> QED BY <1>1, <1>2

LEMMA LoopTyped ==
  ASSUME RemoteTypeOK, Requests \/ FromPeers \/ Frame
  PROVE  RemoteTypeOK'
<1>1. ASSUME NEW o \in Objects, CreateObject(o)
      PROVE  RemoteTypeOK'
  BY <1>1 DEF RemoteTypeOK, CreateObject
<1>2. ASSUME NEW o \in Objects, DestroyObject(o)
      PROVE  RemoteTypeOK'
  BY <1>2, WithoutObjectsTyped DEF RemoteTypeOK, DestroyObject
<1>3. ASSUME NEW o \in Objects, Commit(o)
      PROVE  RemoteTypeOK'
  <2>1. o \in objects /\ CommitCallbacks(o)
    BY <1>3 DEF Commit
  <2>2. session \in 0..MaxSessions
    BY RemoteSessionAssumption DEF RemoteTypeOK
  <2>3. proxy' \in [Objects -> 0..MaxSessions]
    BY <1>3, <2>2 DEF RemoteTypeOK, Commit
  <2> QED BY <1>3, <2>1, <2>3, CommitCallbacksTyped DEF RemoteTypeOK, Commit
<1>4. ASSUME NEW o \in Objects, NEW c \in Callbacks, RequestFrame(o, c)
      PROVE  RemoteTypeOK'
  <2> DEFINE new == [at |-> "pending", of |-> o]
  <2>1. callback' = [callback EXCEPT ![c] = new] /\ o \in objects
    BY <1>4 DEF RequestFrame
  <2>2. new \in Callback /\ new.of = o
    BY DEF Callback
  <2> HIDE DEF new
  <2> QED BY <1>4, <2>1, <2>2 DEF RemoteTypeOK, RequestFrame
<1>5. ASSUME NEW p \in Peers, NEW connects \in BOOLEAN, PeerDiscovered(p, connects)
      PROVE  RemoteTypeOK'
  <2>1. CASE UNCHANGED <<session, sessions, proxy>>
    BY <1>5, <2>1 DEF RemoteTypeOK, PeerDiscovered
  <2>2. CASE ~(UNCHANGED <<session, sessions, proxy>>)
    <3>1. /\ sessions' = sessions + 1 /\ session' = sessions + 1 /\ sessions < MaxSessions
          /\ proxy' = [o \in Objects |->
                IF o \in committed /\ proxy[o] = 0 THEN session' ELSE proxy[o]]
      BY <1>5, <2>2 DEF PeerDiscovered
    <3>2. session' \in 0..MaxSessions
      BY <3>1, RemoteSessionAssumption DEF RemoteTypeOK
    <3>3. proxy' \in [Objects -> 0..MaxSessions]
      BY <3>1, <3>2 DEF RemoteTypeOK
    <3> QED BY <1>5, <3>1, <3>2, <3>3 DEF RemoteTypeOK, PeerDiscovered
  <2> QED BY <2>1, <2>2
<1>6. ASSUME NEW p \in Peers, PeerLost(p)
      PROVE  RemoteTypeOK'
  BY <1>6 DEF RemoteTypeOK, PeerLost
<1>7. CASE Disconnect
  <2>1. 0 \in 0..MaxSessions
    BY RemoteSessionAssumption
  <2>2. proxy' \in [Objects -> 0..MaxSessions]
    BY <1>7, <2>1 DEF Disconnect
  <2> QED BY <1>7, <2>2 DEF RemoteTypeOK, Disconnect
<1>8. CASE ChannelLoad
  BY <1>8 DEF RemoteTypeOK, ChannelLoad
<1>9. CASE Frame
  <2>1. ASSUME NEW c \in Callbacks
        PROVE  /\ callback'[c] \in Callback
               /\ callback'[c].at \in {"pending", "current"} => callback'[c].of \in objects
    BY <1>9 DEF Frame, RemoteTypeOK, Callback
  <2>2. callback' = [c \in Callbacks |-> callback'[c]]
    BY <1>9 DEF Frame
  <2> QED BY <1>9, <2>1, <2>2 DEF RemoteTypeOK, Frame, Rearmed
<1> QED BY <1>1, <1>2, <1>3, <1>4, <1>5, <1>6, <1>7, <1>8, <1>9 DEF Requests, FromPeers

(* What the threads keep beside the remote part                            *)
Threads == [at : Polls \cup Works, obj : Objects \cup {Nil}, hit : Objects \cup {Nil},
            left : SUBSET Objects, session : 0..MaxSessions, last : BOOLEAN]
Kinds == {"none", "early", "ray", "gone", "assert", "proxy", "loop"}
ThreadTypes ==
  /\ server \in {"starting", "running", "no clients", "no remote", "no ray", "joining", "joined",
                 "stopped"}
  /\ focused \in Objects \cup {Nil} /\ moving \in BOOLEAN
  /\ unit \in [Objects -> {"none", "listed", "gone"}]
  /\ thread \in Threads
  /\ raced \subseteq Objects /\ overlap \subseteq {"disconnect", "destroy", "unit"}
  /\ misuse \in Kinds
StreamTypes ==
  /\ mouse # Nil => mouse \in Seq(Cell)
  /\ sent \in 0..MaxEvents /\ handled \in 0..MaxEvents
  /\ buf \in [1..Cells -> Cell \cup {Blank}]
  /\ again \in BOOLEAN /\ split \in BOOLEAN

LEMMA TypesSplit == TypeOK <=> RemoteTypeOK /\ ThreadTypes /\ StreamTypes
BY DEF TypeOK, ThreadTypes, StreamTypes, Threads, Kinds

LEMMA ThreadTyped ==
  ASSUME NEW at \in Polls \cup Works, NEW o \in Objects \cup {Nil}, NEW hit \in Objects \cup {Nil},
         NEW left \in SUBSET Objects, NEW in \in 0..MaxSessions, NEW last \in BOOLEAN
  PROVE  Thread(at, o, hit, left, in, last) \in Threads
BY DEF Thread, Threads

LEMMA IdleTyped ==
  ASSUME NEW at \in Polls \cup {"cursor"}
  PROVE  Idle(at) \in Threads
BY RemoteSessionAssumption DEF Idle, Thread, Threads, Works

LEMMA RemoteStep ==
  ASSUME TypeOK, Next
  PROVE  RemoteTypeOK'
<1>0. RemoteTypeOK /\ ThreadTypes
  BY TypesSplit
<1>1. CASE LoopStep(Requests) \/ LoopStep(FromPeers) \/ LoopStep(Frame)
  BY <1>0, <1>1, LoopTyped DEF LoopStep
<1>2. CASE DestroyClients
  <2>1. WithoutObjects(objects) /\ UNCHANGED <<near, session, sessions, busy, armed, created>>
    BY <1>2 DEF DestroyClients
  <2>2. created \subseteq created' /\ created' \subseteq Objects
    BY <1>0, <2>1 DEF RemoteTypeOK
  <2> QED BY <1>0, <2>1, <2>2, WithoutObjectsTyped DEF RemoteTypeOK
<1>3. CASE DeleteRemote
  BY <1>0, <1>3 DEF DeleteRemote, RemoteTypeOK
<1>4. CASE DragCommit
  <2>1. CASE Gone
    BY <1>0, <1>4, <2>1 DEF DragCommit, remoteVars, RemoteTypeOK
  <2>2. CASE ~Gone
    <3>1. thread.obj \in objects /\ CommitCallbacks(thread.obj)
      BY <1>4, <2>2 DEF DragCommit, Gone
    <3>2. /\ UNCHANGED <<near, session, sessions, busy, armed, objects, created, proxy>>
          /\ committed' = committed \cup {thread.obj}
      BY <1>4, <2>2 DEF DragCommit
    <3>3. /\ callback' \in [Callbacks -> Callback]
          /\ \A c \in Callbacks :
               callback'[c].at \in {"pending", "current"} => callback'[c].of \in objects
      BY <1>0, <3>1, CommitCallbacksTyped
    <3> QED BY <1>0, <3>1, <3>2, <3>3 DEF RemoteTypeOK
  <2> QED BY <2>1, <2>2
<1>5. CASE DragCreate
  <2>1. thread.session \in 0..MaxSessions
    BY <1>0 DEF ThreadTypes, Threads
  <2>2. proxy' \in [Objects -> 0..MaxSessions]
    BY <1>0, <1>5, <2>1 DEF DragCreate, RemoteTypeOK
  <2> QED BY <1>0, <1>5, <2>2 DEF DragCreate, RemoteTypeOK
<1>6. CASE UNCHANGED remoteVars
  BY <1>0, <1>6 DEF remoteVars, RemoteTypeOK
<1>7. ASSUME NEW n \in Reads, NEW e, Read(n, e)
      PROVE  UNCHANGED remoteVars
  BY <1>7 DEF Read
<1>8. CASE EventStep \/ DragSync \/ DragSend \/ DragUnit \/ DragFinish
  <2>1. UNCHANGED remoteVars
    BY <1>8 DEF EventStep, TestNext, Test, SetFocus, Leave, Follow, Use, Cursor, MoveSurface,
       RenderSurface, DragSync, DragSend, DragUnit, DragFinish, Elsewhere
  <2> QED BY <1>6, <2>1
<1>9. CASE \/ SeatCreated \/ StartMove \/ DeleteRay \/ RequestEnd \/ Join \/ DestroyDisplay
           \/ SignalHandled \/ Connect \/ Send \/ Hangup \/ AcceptFails
           \/ Poll \/ ReadNothing \/ EndThread
           \/ \E o \in Objects : CommitUnit(o) \/ DestroyUnit(o)
  <2>1. UNCHANGED remoteVars
    BY <1>9 DEF SeatCreated, StartMove, DeleteRay, RequestEnd, Join, DestroyDisplay, SignalHandled,
       Connect, Send, Hangup, AcceptFails, Poll, ReadNothing, EndThread, CommitUnit, DestroyUnit
  <2> QED BY <1>6, <2>1
<1> QED BY <1>1, <1>2, <1>3, <1>4, <1>5, <1>6, <1>7, <1>8, <1>9 DEF Next, Stop, ThreadStep, DragStep

(* What is received is an event's cells, or what was in the buffer         *)
LEMMA ReceivedTyped ==
  ASSUME StreamTypes, NEW n \in Reads, mouse # Nil, n <= Len(mouse)
  PROVE  /\ Received(n) \in [1..Cells -> Cell \cup {Blank}]
         /\ Received(n)[Cells].event \in 0..MaxEvents
<1>1. mouse \in Seq(Cell) /\ n \in Nat /\ Len(mouse) \in Nat
  BY InputThreadAssumption DEF StreamTypes
<1>2. ASSUME NEW i \in 1..Cells
      PROVE  Received(n)[i] \in Cell \cup {Blank}
  <2>1. CASE i <= n
    <3>1. i \in 1..Len(mouse)
      BY <1>1, <2>1 DEF Cells
    <3> QED BY <1>1, <2>1, <3>1 DEF Received
  <2>2. CASE ~(i <= n)
    BY <2>2 DEF Received, StreamTypes
  <2> QED BY <2>1, <2>2
<1>3. Received(n) \in [1..Cells -> Cell \cup {Blank}]
  BY <1>2 DEF Received
<1>4. Received(n)[Cells] \in Cell \cup {Blank}
  BY <1>2 DEF Cells
<1> QED BY <1>3, <1>4, InputThreadAssumption DEF Cell, Blank

LEMMA EventTyped ==
  ASSUME NEW e \in 1..MaxEvents
  PROVE  Event(e) \in Seq(Cell) /\ Len(Event(e)) = Cells
BY DEF Event, Cell, Cells

LEMMA StreamKept ==
  ASSUME \/ SeatCreated \/ StartMove \/ Stop \/ AcceptFails \/ Poll \/ EventStep \/ DragStep
         \/ \E o \in Objects : CommitUnit(o) \/ DestroyUnit(o)
  PROVE  UNCHANGED stream
<1>1. CASE EventStep
  BY <1>1 DEF EventStep, TestNext, Test, SetFocus, Leave, Follow, Use, Cursor, MoveSurface,
     RenderSurface, Step
<1>2. CASE DragStep
  BY <1>2 DEF DragStep, DragCommit, DragSync, DragCreate, DragSend, DragUnit, DragFinish, Step
<1>3. CASE Stop
  BY <1>3 DEF Stop, DestroyClients, DeleteRemote, DeleteRay, RequestEnd, Join, DestroyDisplay,
     SignalHandled, threadVars
<1>4. CASE SeatCreated \/ StartMove \/ AcceptFails \/ Poll
           \/ \E o \in Objects : CommitUnit(o) \/ DestroyUnit(o)
  BY <1>4 DEF SeatCreated, StartMove, AcceptFails, Poll, CommitUnit, DestroyUnit, threadVars
<1> QED BY <1>1, <1>2, <1>3, <1>4

LEMMA StreamTypesStep ==
  ASSUME TypeOK, Next
  PROVE  StreamTypes'
<1>0. StreamTypes
  BY TypesSplit
<1>1. CASE UNCHANGED stream
  BY <1>0, <1>1 DEF stream, StreamTypes
<1>2. ASSUME NEW A, LoopStep(A)
      PROVE  UNCHANGED stream
  BY <1>2 DEF LoopStep
<1>3. CASE \/ SeatCreated \/ StartMove \/ Stop \/ AcceptFails \/ Poll \/ EventStep \/ DragStep
           \/ \E o \in Objects : CommitUnit(o) \/ DestroyUnit(o)
  BY <1>1, <1>3, StreamKept
<1>4. CASE Connect
  <2>1. mouse' = <<>> /\ buf' = NoEvents /\ UNCHANGED <<sent, handled, again, split>>
    BY <1>4 DEF Connect
  <2>2. NoEvents \in [1..Cells -> Cell \cup {Blank}]
    BY DEF NoEvents
  <2> QED BY <1>0, <2>1, <2>2 DEF StreamTypes
<1>5. CASE Send
  <2>1. mouse # Nil /\ sent' = sent + 1 /\ sent < MaxEvents /\ mouse' = mouse \o Event(sent + 1)
        /\ UNCHANGED <<buf, handled, again, split>>
    BY <1>5 DEF Send
  <2>2. sent' \in 0..MaxEvents /\ sent + 1 \in 1..MaxEvents
    BY <1>0, <2>1, InputThreadAssumption DEF StreamTypes
  <2>3. mouse' \in Seq(Cell)
    BY <1>0, <2>1, <2>2, EventTyped DEF StreamTypes
  <2> QED BY <1>0, <2>1, <2>2, <2>3 DEF StreamTypes
<1>6. CASE Hangup \/ EndThread
  BY <1>0, <1>6 DEF Hangup, EndThread, StreamTypes
<1>7. CASE ReadNothing
  BY <1>0, <1>7 DEF ReadNothing, HandleNothing, StreamTypes
<1>8. ASSUME NEW n \in Reads, NEW e \in {"move", "up", "button", "other"}, Read(n, e)
      PROVE  StreamTypes'
  <2>1. /\ mouse # Nil /\ n <= Len(mouse) /\ sent' = sent
        /\ mouse' = SubSeq(mouse, n + 1, Len(mouse)) /\ buf' = Received(n)
        /\ split' = (split \/ n % Cells # 0)
    BY <1>8 DEF Read
  <2>2. mouse \in Seq(Cell) /\ n \in Nat
    BY <1>0, <2>1, InputThreadAssumption DEF StreamTypes
  <2>3. mouse' \in Seq(Cell)
    BY <2>1, <2>2
  <2>4. /\ Received(n) \in [1..Cells -> Cell \cup {Blank}]
        /\ Received(n)[Cells].event \in 0..MaxEvents
    BY <1>0, <2>1, ReceivedTyped
  <2>5. UNCHANGED <<handled, again>> \/ Handle(Received(n), e)
    BY <1>8 DEF Read
  <2>6. handled' \in 0..MaxEvents /\ again' \in BOOLEAN
    BY <1>0, <2>4, <2>5 DEF Handle, StreamTypes
  <2> QED BY <1>0, <2>1, <2>3, <2>4, <2>6 DEF StreamTypes
<1> QED BY <1>1, <1>2, <1>3, <1>4, <1>5, <1>6, <1>7, <1>8 DEF Next, ThreadStep

----------------------------------------------------------------------------
(* What an event can have met                                              *)

(* What is true where undefined behaviour of a kind is met.                *)
Caused(kind) ==
  /\ kind = "gone" => \/ "destroy" \in overlap
                      \/ thread.at = "unit" /\ "unit" \in overlap
                      \/ thread.at = "render" /\ "disconnect" \in overlap
  /\ kind \in {"assert", "proxy"} => "disconnect" \in overlap
  /\ kind = "early" => server = "starting"
  /\ kind = "ray" => RayGone
  /\ kind # "loop"

(* The thread goes on soundly, is done, or breaks with a cause.            *)
Moves ==
  \/ \E kind \in Kinds : Misused(kind) /\ Caused(kind) /\ UNCHANGED <<seatVars, proxy>>
  \/ Done
  \/ \E t \in Threads : Goes(t) /\ Sound(t, focused', proxy')

LEMMA MovesKeep ==
  ASSUME TypeOK, HeldInv, RacesHaveCause, Fine, Moves,
         UNCHANGED <<objects, created, session, sessions, unit, server>>,
         focused' \in objects \cup {Nil}, moving' \in BOOLEAN, raced' \subseteq Objects,
         \A o \in Objects : /\ proxy'[o] # 0 => o \in objects
                            /\ proxy'[o] \notin {0, session} => o \in raced'
  PROVE  ThreadTypes' /\ HeldInv' /\ RacesHaveCause'
<1>0. ThreadTypes /\ objects \subseteq Objects
  BY TypesSplit DEF RemoteTypeOK
<1>1. ASSUME NEW kind \in Kinds, Misused(kind), Caused(kind), UNCHANGED <<seatVars, proxy>>
      PROVE  ThreadTypes' /\ HeldInv' /\ RacesHaveCause'
  <2>1. thread' = thread /\ overlap' = overlap /\ misuse' = kind /\ focused' = focused
    BY <1>1 DEF Misused, seatVars
  <2>2. ThreadTypes'
    BY <1>0, <2>1 DEF ThreadTypes
  <2>3. HeldInv'
    BY <1>1, <2>1 DEF HeldInv, Sound
  <2>4. RacesHaveCause'
    BY <1>1, <2>1 DEF RacesHaveCause, Caused, RayGone
  <2> QED BY <2>2, <2>3, <2>4
<1>2. CASE Done
  <2>1. thread' = Idle("serve") /\ overlap' = {} /\ misuse' = "none"
    BY <1>2 DEF Done, Fine
  <2>2. Idle("serve") \in Threads
    BY IdleTyped DEF Polls
  <2>3. ThreadTypes'
    BY <1>0, <2>1, <2>2 DEF ThreadTypes, Kinds
  <2>4. HeldInv'
    BY <2>1 DEF HeldInv, Sound, Idle, Thread, Polls, Works, Holds
  <2>5. RacesHaveCause'
    BY <2>1 DEF RacesHaveCause
  <2> QED BY <2>3, <2>4, <2>5
<1>3. ASSUME NEW t \in Threads, Goes(t), Sound(t, focused', proxy')
      PROVE  ThreadTypes' /\ HeldInv' /\ RacesHaveCause'
  <2>1. thread' = t /\ overlap' = overlap /\ misuse' = "none"
    BY <1>3 DEF Goes, Fine
  <2>2. ThreadTypes'
    BY <1>0, <2>1 DEF ThreadTypes, Kinds
  <2>3. HeldInv'
    BY <1>3, <2>1 DEF HeldInv, Sound
  <2>4. RacesHaveCause'
    BY <2>1 DEF RacesHaveCause
  <2> QED BY <2>2, <2>3, <2>4
<1> QED BY <1>1, <1>2, <1>3 DEF Moves

(* Each of the three ways to move, to be cited.                            *)
LEMMA MovesOn ==
  ASSUME NEW t, t \in Threads, Goes(t), Sound(t, focused', proxy')
  PROVE  Moves
BY DEF Moves

LEMMA Breaks ==
  ASSUME NEW kind \in Kinds, Misused(kind), Caused(kind), UNCHANGED <<seatVars, proxy>>
  PROVE  Moves
BY DEF Moves

(* Idle is sound, whatever else there is.                                  *)
LEMMA IdleSound ==
  ASSUME NEW at \in Polls \cup {"cursor"}, NEW f, NEW p
  PROVE  Sound(Idle(at), f, p)
BY DEF Sound, Idle, Thread, Polls, Works, Holds

(* The call of the seat at the start of an event.                          *)
LEMMA CallMoves ==
  ASSUME TypeOK, HeldInv, UNCHANGED <<remoteVars, unit>>, NEW e, Call(e)
  PROVE  Moves /\ focused' \in objects \cup {Nil} /\ moving' \in BOOLEAN
<1> USE DEF remoteVars
<1>0. /\ ThreadTypes /\ objects \subseteq Objects /\ objects \subseteq created
      /\ 0 \in 0..MaxSessions /\ Nil \notin Objects
      /\ focused \in objects \cup {Nil}
  BY TypesSplit, RemoteSessionAssumption DEF RemoteTypeOK, HeldInv
<1>s. focused' \in {focused, Nil} /\ moving' \in BOOLEAN
  BY <1>0 DEF Call, seatVars, ThreadTypes
<1>1. CASE CheckIntersection
  <2> DEFINE t == Thread("test", Nil, Nil, objects, 0, FALSE)
  <2>1. t \in Threads
    BY <1>0, ThreadTyped DEF Works
  <2>2. Sound(t, focused', proxy')
    BY DEF Sound, Thread, Polls, Works, Holds
  <2>3. Goes(t)
    BY <1>1 DEF CheckIntersection
  <2> HIDE DEF t
  <2> QED BY <1>0, <1>s, <2>1, <2>2, <2>3, MovesOn
<1>2. ASSUME NEW at \in {"move", "commit", "use"}, NEW o \in objects, NEW last \in BOOLEAN,
             Hold(at, o, last)
      PROVE  Moves
  <2> DEFINE t == Thread(at, o, Nil, {}, 0, last)
  <2>1. t \in Threads
    BY <1>0, ThreadTyped DEF Works
  <2>2. Sound(t, focused', proxy')
    BY <1>0 DEF Sound, Thread, Polls, Works, Holds
  <2>3. Goes(t)
    BY <1>2 DEF Hold
  <2> HIDE DEF t
  <2> QED BY <2>1, <2>2, <2>3, MovesOn
<1>3. CASE MoveFocused
  <2>1. CASE focused = Nil
    <3>1. Goes(Idle("cursor")) /\ Idle("cursor") \in Threads
      BY <1>3, <2>1, IdleTyped DEF MoveFocused
    <3> QED BY <1>0, <1>s, <3>1, IdleSound, MovesOn
  <2>2. CASE focused # Nil
    <3>1. Hold("move", focused, FALSE) \/ Hold("commit", focused, FALSE)
      BY <1>3, <2>2 DEF MoveFocused
    <3> QED BY <1>0, <1>s, <1>2, <2>2, <3>1
  <2> QED BY <2>1, <2>2
<1>4. ASSUME NEW o \in IF focused # Nil THEN {focused} ELSE (objects \cap Surfaces) \cup {Nil},
             IF o = Nil THEN Done ELSE Hold("use", o, TRUE)
      PROVE  Moves
  <2>1. CASE o = Nil
    BY <1>4, <2>1 DEF Moves
  <2>2. CASE o # Nil
    BY <1>0, <1>2, <1>4, <2>2
  <2> QED BY <2>1, <2>2
<1>5. CASE Done
  BY <1>0, <1>s, <1>5 DEF Moves
<1>6. Moves
  BY <1>1, <1>3, <1>4, <1>5 DEF Call
<1> QED BY <1>0, <1>s, <1>6

LEMMA HandleMoves ==
  ASSUME TypeOK, HeldInv, UNCHANGED <<remoteVars, unit>>, NEW b, NEW e, Handle(b, e)
  PROVE  Moves /\ focused' \in objects \cup {Nil} /\ moving' \in BOOLEAN
<1>0. focused \in objects \cup {Nil} /\ moving \in BOOLEAN
  BY DEF HeldInv, TypeOK
<1>1. ASSUME NEW kind \in {"early", "ray"}, Misused(kind), UNCHANGED seatVars,
             kind = "early" => server = "starting", kind = "ray" => RayGone
      PROVE  Moves /\ focused' \in objects \cup {Nil} /\ moving' \in BOOLEAN
  <2>1. Caused(kind) /\ kind \in Kinds
    BY <1>1 DEF Caused, Kinds
  <2>2. Moves
    BY <1>1, <2>1, Breaks DEF remoteVars
  <2> QED BY <1>0, <1>1, <2>2 DEF seatVars
<1>2. CASE Early(e) /\ Misused("early") /\ UNCHANGED seatVars
  BY <1>1, <1>2 DEF Early
<1>3. CASE NoRay(e) /\ Misused("ray") /\ UNCHANGED seatVars
  BY <1>1, <1>3 DEF NoRay
<1>4. CASE Call(e)
  BY <1>4, CallMoves
<1> QED BY <1>2, <1>3, <1>4 DEF Handle

(* What follows the pointer it holds breaks only if that went meanwhile.   *)
LEMMA GoneBreaks ==
  ASSUME HeldInv, thread.obj # Nil, Gone, Misused("gone"), UNCHANGED <<seatVars, proxy>>
  PROVE  Moves
<1>1. Caused("gone") /\ "gone" \in Kinds
  BY DEF Caused, HeldInv, Sound, Gone, Kinds
<1> QED BY <1>1, Breaks

(* The steps of an event that is not the commit of an app.                 *)
LEMMA EventMoves ==
  ASSUME TypeOK, HeldInv, RacesHaveCause, EventStep
  PROVE  /\ Moves /\ focused' \in objects \cup {Nil}
         /\ UNCHANGED <<remoteVars, server, unit, raced, moving>> /\ Fine
<1>0. /\ ThreadTypes /\ objects \subseteq Objects /\ objects \subseteq created
      /\ created \subseteq Objects
      /\ 0 \in 0..MaxSessions /\ session \in 0..MaxSessions /\ Nil \notin Objects
      /\ focused \in objects \cup {Nil}
      /\ thread.obj \in Objects \cup {Nil} /\ thread.hit \in Objects \cup {Nil}
      /\ thread.left \subseteq Objects /\ thread.session \in 0..MaxSessions
      /\ thread.last \in BOOLEAN
  <2>1. thread \in Threads
    BY TypesSplit DEF ThreadTypes
  <2>2. /\ thread.obj \in Objects \cup {Nil} /\ thread.hit \in Objects \cup {Nil}
        /\ thread.left \subseteq Objects /\ thread.session \in 0..MaxSessions
        /\ thread.last \in BOOLEAN
    BY <2>1 DEF Threads
  <2> QED BY <2>2, TypesSplit, RemoteSessionAssumption DEF RemoteTypeOK, HeldInv
<1>1. UNCHANGED <<remoteVars, server, unit, raced, moving>> /\ Fine
  BY DEF EventStep, TestNext, Test, SetFocus, Leave, Follow, Use, Cursor, MoveSurface,
     RenderSurface, Step, Elsewhere
<1> DEFINE Good == Moves /\ focused' \in objects \cup {Nil}
<1>h. Sound(thread, focused, proxy) /\ UNCHANGED <<objects, created, session, proxy>>
  BY <1>1 DEF HeldInv, remoteVars
(* Going on with nothing held, and with an object held that is there.      *)
<1>c. ASSUME NEW hit \in {thread.hit, Nil}, Goes(Thread("cursor", Nil, hit, {}, 0, FALSE)),
             focused' \in objects \cup {Nil}
      PROVE  Good
  <2> DEFINE t == Thread("cursor", Nil, hit, {}, 0, FALSE)
  <2>1. t \in Threads
    BY <1>0, ThreadTyped DEF Works
  <2>2. Sound(t, focused', proxy')
    BY <1>h DEF Sound, Thread, Polls, Works, Holds
  <2> HIDE DEF t
  <2>3. Goes(t)
    BY <1>c DEF t
  <2> QED BY <1>c, <2>1, <2>2, <2>3, MovesOn
<1>i. ASSUME Goes(Idle("cursor")), focused' = focused
      PROVE  Good
  BY <1>0, <1>i, IdleTyped, IdleSound, MovesOn
<1>g. ASSUME thread.obj # Nil, Gone, Misused("gone"), focused' = focused
      PROVE  Good
  BY <1>0, <1>1, <1>g, GoneBreaks DEF seatVars, remoteVars
<1>d. ASSUME Done, focused' = focused
      PROVE  Good
  BY <1>0, <1>d DEF Moves
<1>f. ASSUME Refocus
      PROVE  Good
  <2>1. focused' \in objects \cup {Nil}
    BY <1>f DEF Refocus
  <2>2. CASE thread.hit = Nil
    BY <1>c, <1>f, <2>1, <2>2 DEF Refocus
  <2>3. CASE thread.hit # Nil
    <3> DEFINE t == Thread("follow", Nil, thread.hit, {}, 0, FALSE)
    <3>1. t \in Threads
      BY <1>0, ThreadTyped DEF Works
    <3>2. Sound(t, focused', proxy')
      BY <1>f, <1>h, <2>3 DEF Sound, Thread, Polls, Works, Holds, Refocus
    <3>3. Goes(t)
      BY <1>f, <2>3 DEF Refocus
    <3> HIDE DEF t
    <3> QED BY <2>1, <3>1, <3>2, <3>3, MovesOn
  <2> QED BY <2>2, <2>3
<1>2. ASSUME NEW o \in Objects, TestNext(o)
      PROVE  Good
  <2> DEFINE t == Thread("test", Weak(o), thread.hit, thread.left \ {o}, 0, FALSE)
  <2>1. Weak(o) \in objects \cup {Nil} /\ focused' = focused
    BY <1>2, <1>h DEF Weak, TestNext
  <2>2. t \in Threads
    BY <1>0, <2>1, ThreadTyped DEF Works
  <2>3. Sound(t, focused', proxy')
    BY <1>0, <1>h, <2>1 DEF Sound, Thread, Polls, Works, Holds
  <2>4. Goes(t)
    BY <1>2 DEF TestNext
  <2> HIDE DEF t
  <2> QED BY <1>0, <2>1, <2>2, <2>3, <2>4, MovesOn
<1>3. ASSUME NEW hits \in BOOLEAN, Test(hits)
      PROVE  Good
  <2>1. focused' = focused /\ thread.obj # Nil
    BY <1>3 DEF Test
  <2>2. CASE Gone
    BY <1>3, <1>g, <2>1, <2>2 DEF Test, Using
  <2>3. CASE ~Gone
    <3> DEFINE hit == IF hits THEN thread.obj ELSE thread.hit
               t == Thread("test", Nil, hit, thread.left, 0, FALSE)
    <3>1. hit \in {thread.obj, thread.hit} /\ Goes(t) /\ thread.obj \in objects
      BY <1>3, <2>3 DEF Test, Using, Gone
    <3> HIDE DEF hit
    <3>2. t \in Threads
      BY <1>0, <3>1, ThreadTyped DEF Works
    <3>3. Sound(t, focused', proxy')
      BY <1>h, <3>1 DEF Sound, Thread, Polls, Works, Holds
    <3> HIDE DEF t
    <3> QED BY <1>0, <2>1, <3>1, <3>2, <3>3, MovesOn
  <2> QED BY <2>2, <2>3
<1>4. ASSUME SetFocus
      PROVE  Good
  <2>1. CASE Refocus
    BY <1>f, <2>1
  <2>2. CASE ~Refocus
    <3> DEFINE t == Thread("leave", focused, thread.hit, {}, 0, FALSE)
    <3>1. Goes(t) /\ focused' = focused /\ focused # Nil
      BY <1>4, <2>2 DEF SetFocus
    <3>2. t \in Threads
      BY <1>0, ThreadTyped DEF Works
    <3>3. Sound(t, focused', proxy')
      BY <1>0, <1>h, <3>1 DEF Sound, Thread, Polls, Works, Holds
    <3> HIDE DEF t
    <3> QED BY <1>0, <3>1, <3>2, <3>3, MovesOn
  <2> QED BY <2>1, <2>2
<1>5. ASSUME Leave
      PROVE  Good
  <2>1. thread.obj # Nil
    BY <1>5, <1>h DEF Leave, Step, Sound, Holds, Works
  <2> QED BY <1>5, <1>f, <1>g, <2>1 DEF Leave
<1>6. ASSUME Follow
      PROVE  Good
  <2>1. thread.at = "follow" /\ focused' = focused
    BY <1>6 DEF Follow, Step
  <2>2. thread.hit # Nil /\ (focused = thread.hit \/ "destroy" \in overlap)
    BY <1>h, <2>1 DEF Sound
  <2>3. CASE focused = Nil
    <3>1. Misused("gone") /\ Caused("gone") /\ "gone" \in Kinds
      BY <1>6, <2>2, <2>3 DEF Follow, Caused, Kinds
    <3> QED BY <1>0, <1>1, <1>h, <2>1, <3>1, Breaks DEF seatVars
  <2>4. CASE focused # Nil
    <3> DEFINE t == Thread("use", focused, thread.hit, {}, 0, FALSE)
    <3>1. Goes(t)
      BY <1>6, <2>4 DEF Follow
    <3>2. t \in Threads
      BY <1>0, ThreadTyped DEF Works
    <3>3. Sound(t, focused', proxy')
      BY <1>0, <1>h, <2>4 DEF Sound, Thread, Polls, Works, Holds
    <3> HIDE DEF t
    <3> QED BY <1>0, <2>1, <3>1, <3>2, <3>3, MovesOn
  <2> QED BY <2>3, <2>4
<1>7. ASSUME Use
      PROVE  Good
  <2>1. thread.obj # Nil /\ focused' = focused
    BY <1>7, <1>h DEF Use, Step, Sound, Holds, Works
  <2>2. CASE Gone
    BY <1>7, <1>g, <2>1, <2>2 DEF Use, Using
  <2>3. CASE ~Gone
    <3>1. Done \/ Goes(Thread("cursor", Nil, thread.hit, {}, 0, FALSE))
      BY <1>7, <2>3 DEF Use, Using
    <3> QED BY <1>0, <1>c, <1>d, <2>1, <3>1
  <2> QED BY <2>2, <2>3
<1>8. ASSUME NEW o \in Objects \cup {Nil}, Cursor(o)
      PROVE  Good
  <2>1. focused' = focused /\ o \in (objects \cap Surfaces) \cup {Nil}
    BY <1>8 DEF Cursor
  <2>2. CASE Misused("ray") /\ RayGone
    <3>1. Caused("ray") /\ "ray" \in Kinds
      BY <2>2 DEF Caused, Kinds
    <3> QED BY <1>0, <1>1, <1>h, <2>1, <2>2, <3>1, Breaks DEF seatVars
  <2>3. CASE Done
    BY <1>d, <2>1, <2>3
  <2>4. CASE o # Nil /\ Hold("move", o, TRUE)
    <3> DEFINE t == Thread("move", o, Nil, {}, 0, TRUE)
    <3>1. Goes(t)
      BY <2>4 DEF Hold
    <3>2. t \in Threads
      BY <1>0, ThreadTyped DEF Works
    <3>3. Sound(t, focused', proxy')
      BY <1>0, <2>1, <2>4, <1>h DEF Sound, Thread, Polls, Works, Holds
    <3> HIDE DEF t
    <3> QED BY <1>0, <2>1, <3>1, <3>2, <3>3, MovesOn
  <2> QED BY <1>8, <2>2, <2>3, <2>4 DEF Cursor
<1>m. ASSUME Moved, focused' = focused
      PROVE  Good
  BY <1>d, <1>i, <1>m DEF Moved
<1>9. ASSUME MoveSurface
      PROVE  Good
  <2>1. thread.obj # Nil /\ focused' = focused
    BY <1>9, <1>h DEF MoveSurface, Step, Sound, Holds, Works
  <2>2. CASE Gone
    BY <1>9, <1>g, <2>1, <2>2 DEF MoveSurface, Using
  <2>3. CASE ~Gone /\ session = 0
    BY <1>9, <1>m, <2>1, <2>3 DEF MoveSurface, Using
  <2>4. CASE ~Gone /\ session # 0
    <3> DEFINE t == Thread("render", thread.obj, Nil, {}, session, thread.last)
    <3>1. Goes(t) /\ thread.obj \in objects
      BY <1>9, <2>4 DEF MoveSurface, Using, Gone
    <3>2. t \in Threads
      BY <1>0, ThreadTyped DEF Works
    <3>3. Sound(t, focused', proxy')
      BY <1>0, <2>1, <2>4, <3>1, <1>h DEF Sound, Thread, Polls, Works, Holds
    <3> HIDE DEF t
    <3> QED BY <1>0, <2>1, <3>1, <3>2, <3>3, MovesOn
  <2> QED BY <2>2, <2>3, <2>4
<1>10. ASSUME RenderSurface
      PROVE  Good
  <2>1. thread.obj # Nil /\ focused' = focused /\ thread.at = "render"
    BY <1>10, <1>h DEF RenderSurface, Step, Sound, Holds, Works
  <2>2. CASE Gone \/ session # thread.session
    <3>1. Misused("gone") /\ Caused("gone") /\ "gone" \in Kinds
      BY <1>10, <1>h, <2>1, <2>2 DEF RenderSurface, Caused, Sound, Gone, Kinds
    <3> QED BY <1>0, <1>1, <1>h, <2>1, <3>1, Breaks DEF seatVars
  <2>3. CASE ~(Gone \/ session # thread.session)
    BY <1>10, <1>m, <2>1, <2>3 DEF RenderSurface
  <2> QED BY <2>2, <2>3
<1> QED BY <1>1, <1>2, <1>3, <1>4, <1>5, <1>6, <1>7, <1>8, <1>9, <1>10 DEF EventStep

(* The steps of the commit of an app.                                      *)
LEMMA DragMoves ==
  ASSUME TypeOK, HeldInv, RacesHaveCause, DragStep
  PROVE  /\ Moves /\ Fine
         /\ UNCHANGED <<objects, created, session, sessions, unit, server, focused, moving>>
         /\ raced' \subseteq Objects
         /\ \A o \in Objects : /\ proxy'[o] # 0 => o \in objects
                               /\ proxy'[o] \notin {0, session} => o \in raced'
<1> DEFINE obj == thread.obj
<1>0. /\ ThreadTypes /\ objects \subseteq Objects /\ objects \subseteq created
      /\ 0 \in 0..MaxSessions /\ session \in 0..MaxSessions
      /\ Nil \notin Objects /\ obj \in Objects \cup {Nil} /\ raced \subseteq Objects
  <2>1. thread \in Threads /\ raced \subseteq Objects
    BY TypesSplit DEF ThreadTypes
  <2>2. obj \in Objects \cup {Nil}
    BY <2>1 DEF Threads
  <2> QED BY <2>1, <2>2, TypesSplit, RemoteSessionAssumption DEF RemoteTypeOK
<1>h. /\ Sound(thread, focused, proxy)
      /\ \A o \in Objects : /\ proxy[o] # 0 => o \in objects
                            /\ proxy[o] \notin {0, session} => o \in raced
  BY DEF HeldInv, RacesHaveCause
<1>1. /\ UNCHANGED <<objects, created, session, sessions, unit, server, focused, moving>> /\ Fine
      /\ DragCreate \/ UNCHANGED <<proxy, raced>>
  BY DEF DragStep, DragCommit, DragSync, DragCreate, DragSend, DragUnit, DragFinish, Step,
     Elsewhere, remoteVars
<1>2. /\ obj # Nil /\ obj \in Objects /\ obj \in created
      /\ thread.at \in {"commit", "sync", "create", "send", "unit", "finish"}
  BY <1>0, <1>h DEF DragStep, DragCommit, DragSync, DragCreate, DragSend, DragUnit, DragFinish, Step,
     Sound, Holds, Works
<1>g. ASSUME Gone, Misused("gone"), proxy' = proxy
      PROVE  Moves
  BY <1>1, <1>2, <1>g, GoneBreaks DEF seatVars
<1>a. ASSUME NEW kind \in {"assert", "proxy"}, Misused(kind), "disconnect" \in overlap,
             proxy' = proxy
      PROVE  Moves
  <2>1. Caused(kind) /\ kind \in Kinds
    BY <1>a DEF Caused, Kinds
  <2> QED BY <1>1, <1>a, <2>1, Breaks DEF seatVars
<1>i. ASSUME Goes(Idle("cursor"))
      PROVE  Moves
  BY <1>i, IdleTyped, IdleSound, MovesOn
<1>t. ASSUME NEW at \in {"sync", "create", "send", "unit", "finish"},
             NEW in \in 0..MaxSessions, obj \in objects,
             Goes(Thread(at, obj, Nil, {}, in, FALSE)),
             session # 0 \/ "disconnect" \in overlap,
             at = "create" => in # 0,
             at \in {"send", "unit", "finish"} => proxy'[obj] # 0 \/ "disconnect" \in overlap,
             at = "unit" => unit[obj] = "listed"
      PROVE  Moves
  <2> DEFINE t == Thread(at, obj, Nil, {}, in, FALSE)
  <2>1. t \in Threads
    BY <1>2, ThreadTyped DEF Works
  <2>2. t.at = at /\ t.obj = obj /\ t.hit = Nil /\ t.session = in
    BY DEF Thread
  <2> HIDE DEF t, obj
  <2>3. Sound(t, focused', proxy')
    BY <1>2, <1>t, <2>2 DEF Sound, Polls, Works, Holds
  <2>4. Goes(t)
    BY <1>t DEF t
  <2> QED BY <2>1, <2>3, <2>4, MovesOn
<1>3. ASSUME DragCommit
      PROVE  Moves
  <2>1. CASE Gone
    BY <1>3, <1>g, <2>1 DEF DragCommit, remoteVars
  <2>2. CASE ~Gone /\ session # 0
    <3>1. Goes(Thread("sync", obj, Nil, {}, 0, FALSE)) /\ obj \in objects
      BY <1>3, <2>2 DEF DragCommit, Hold, Gone
    <3> HIDE DEF obj
    <3> QED BY <1>0, <1>t, <2>2, <3>1
  <2>3. CASE ~Gone /\ session = 0
    BY <1>3, <1>i, <2>3 DEF DragCommit
  <2> QED BY <2>1, <2>2, <2>3
<1>4. ASSUME DragSync
      PROVE  Moves
  <2>0. proxy' = proxy /\ (session # 0 \/ "disconnect" \in overlap)
    BY <1>4, <1>h DEF DragSync, Step, Elsewhere, remoteVars, Sound
  <2>1. CASE Gone
    BY <1>4, <1>g, <2>0, <2>1 DEF DragSync, Using
  <2>2. CASE ~Gone /\ proxy[obj] # 0
    <3>1. Goes(Thread("send", obj, Nil, {}, 0, FALSE)) /\ obj \in objects
      BY <1>4, <2>2 DEF DragSync, Using, Hold, Gone
    <3> HIDE DEF obj
    <3> QED BY <1>0, <1>t, <2>0, <2>2, <3>1
  <2>3. CASE ~Gone /\ proxy[obj] = 0 /\ session = 0
    BY <1>4, <1>a, <2>0, <2>3 DEF DragSync, Using
  <2>4. CASE ~Gone /\ proxy[obj] = 0 /\ session # 0
    <3>1. Goes(Thread("create", obj, Nil, {}, session, FALSE)) /\ obj \in objects
      BY <1>4, <2>4 DEF DragSync, Using, Gone
    <3> HIDE DEF obj
    <3> QED BY <1>0, <1>t, <2>0, <2>4, <3>1
  <2> QED BY <2>1, <2>2, <2>3, <2>4
<1>5. ASSUME DragCreate
      PROVE  Moves
  <2>0. thread.session # 0 /\ (session # 0 \/ "disconnect" \in overlap)
    BY <1>5, <1>h DEF DragCreate, Step, Sound
  <2>1. CASE Gone
    BY <1>5, <1>g, <2>1 DEF DragCreate
  <2>2. CASE ~Gone
    <3>1. /\ Goes(Thread("send", obj, Nil, {}, 0, FALSE)) /\ obj \in objects
          /\ proxy' = [proxy EXCEPT ![obj] = thread.session]
      BY <1>5, <2>2 DEF DragCreate, Hold, Gone
    <3>2. proxy'[obj] # 0
      BY <1>2, <2>0, <3>1, TypesSplit DEF RemoteTypeOK
    <3> HIDE DEF obj
    <3> QED BY <1>0, <1>t, <2>0, <3>1, <3>2
  <2> QED BY <2>1, <2>2
<1>6. ASSUME DragSend
      PROVE  Moves
  <2>0. proxy' = proxy /\ (session # 0 \/ "disconnect" \in overlap)
        /\ (proxy[obj] # 0 \/ "disconnect" \in overlap \/ obj \notin objects)
    BY <1>6, <1>h DEF DragSend, Step, Elsewhere, remoteVars, Sound
  <2>1. CASE Gone
    BY <1>6, <1>g, <2>0, <2>1 DEF DragSend, Using
  <2>2. CASE ~Gone /\ proxy[obj] = 0
    BY <1>6, <1>a, <2>0, <2>2 DEF DragSend, Using, Gone
  <2>3. CASE ~Gone /\ proxy[obj] # 0
    <3> DEFINE at == IF unit[obj] = "listed" THEN "unit" ELSE "finish"
    <3>1. /\ Goes(Thread(at, obj, Nil, {}, 0, FALSE)) /\ obj \in objects
          /\ at \in {"unit", "finish"} /\ (at = "unit" => unit[obj] = "listed")
      BY <1>6, <2>3 DEF DragSend, Using, Hold, Gone
    <3> HIDE DEF obj, at
    <3> QED BY <1>0, <1>t, <2>0, <2>3, <3>1
  <2> QED BY <2>1, <2>2, <2>3
<1>7. ASSUME DragUnit
      PROVE  Moves
  <2>0. /\ proxy' = proxy /\ thread.at = "unit" /\ (session # 0 \/ "disconnect" \in overlap)
        /\ proxy[obj] # 0 \/ "disconnect" \in overlap \/ obj \notin objects
    BY <1>7, <1>h DEF DragUnit, Step, Elsewhere, remoteVars, Sound
  <2>1. CASE Gone \/ unit[obj] # "listed"
    <3>1. Misused("gone") /\ Caused("gone") /\ "gone" \in Kinds
      BY <1>7, <1>h, <1>2, <2>0, <2>1 DEF DragUnit, Caused, Sound, Gone, Kinds
    <3> QED BY <1>1, <2>0, <3>1, Breaks DEF seatVars
  <2>2. CASE ~(Gone \/ unit[obj] # "listed") /\ session = 0
    BY <1>7, <1>a, <2>0, <2>2 DEF DragUnit
  <2>3. CASE ~(Gone \/ unit[obj] # "listed") /\ session # 0
    <3>1. Goes(Thread("finish", obj, Nil, {}, 0, FALSE)) /\ obj \in objects
      BY <1>7, <2>3 DEF DragUnit, Hold, Gone
    <3> HIDE DEF obj
    <3> QED BY <1>0, <1>t, <2>0, <2>3, <3>1
  <2> QED BY <2>1, <2>2, <2>3
<1>8. ASSUME DragFinish
      PROVE  Moves
  <2>0. /\ proxy' = proxy
        /\ proxy[obj] # 0 \/ "disconnect" \in overlap \/ obj \notin objects
    BY <1>8, <1>h DEF DragFinish, Step, Elsewhere, remoteVars, Sound
  <2>1. CASE Gone
    BY <1>8, <1>g, <2>0, <2>1 DEF DragFinish, Using
  <2>2. CASE ~Gone /\ proxy[obj] = 0
    BY <1>8, <1>a, <2>0, <2>2 DEF DragFinish, Using, Gone
  <2>3. CASE ~Gone /\ proxy[obj] # 0
    BY <1>8, <1>i, <2>3 DEF DragFinish, Using
  <2> QED BY <2>1, <2>2, <2>3
<1>9. Moves
  BY <1>3, <1>4, <1>5, <1>6, <1>7, <1>8 DEF DragStep
<1>10. /\ raced' \subseteq Objects
       /\ \A o \in Objects : /\ proxy'[o] # 0 => o \in objects
                             /\ proxy'[o] \notin {0, session} => o \in raced'
  <2>1. CASE UNCHANGED <<proxy, raced>>
    BY <1>0, <1>h, <2>1
  <2>2. CASE DragCreate /\ ~Gone
    <3>1. /\ obj \in objects /\ proxy' = [proxy EXCEPT ![obj] = thread.session]
          /\ raced' = IF thread.session = session THEN raced ELSE raced \cup {obj}
      BY <2>2 DEF DragCreate, Gone
    <3> QED BY <1>0, <1>2, <1>h, <3>1, TypesSplit DEF RemoteTypeOK
  <2>3. CASE DragCreate /\ Gone
    BY <1>0, <1>h, <2>3 DEF DragCreate
  <2> QED BY <1>1, <2>1, <2>2, <2>3
<1> QED BY <1>1, <1>9, <1>10

(* What the event loop does to what the thread holds: objects go and do    *)
(* not return, and so do sessions, and proxies go with one or the other.   *)
GoesOnly ==
  /\ created \subseteq created' /\ objects' \cap created \subseteq objects
  /\ session # 0 => session' \in {0, session}
  /\ \A o \in Objects : /\ proxy[o] # 0 /\ proxy'[o] = 0 =>
                             o \notin objects' \/ (session # 0 /\ session' = 0)
                        /\ proxy'[o] # 0 => o \in objects'

(* Overlapping notes what goes while the thread works with it.             *)
LEMMA OverlapNoted ==
  ASSUME TypeOK, HeldInv, Overlapping, GoesOnly, thread' = thread,
         focused' \in {focused, Nil}, focused' # Nil => focused' \in objects',
         focused' # focused => focused \notin objects',
         \A o \in Objects : unit[o] = "listed" => unit'[o] = "listed" \/ o \notin objects',
         server' \notin {"starting", "running"} => objects' = {}
  PROVE  HeldInv'
<1>0. /\ Sound(thread, focused, proxy) /\ overlap \subseteq overlap'
      /\ thread.obj \in Objects \cup {Nil} /\ thread.at \in Polls \cup Works
      /\ objects \subseteq created
  BY TypesSplit DEF HeldInv, Overlapping, ThreadTypes, Threads, RemoteTypeOK
<1>1. /\ thread.obj # Nil => \/ thread.obj \in objects'
                            \/ "destroy" \in overlap'
      /\ thread.hit # Nil => \/ thread.hit \in objects'
                            \/ "destroy" \in overlap'
  BY DEF Overlapping
<1>2. Busy /\ session # 0 /\ session' # session => "disconnect" \in overlap'
  BY DEF Overlapping, GoesOnly
<1>3. thread.obj # Nil => Busy
  BY <1>0 DEF Sound, Busy
<1>4. thread.at = "follow" => /\ thread.hit # Nil
                              /\ focused' = thread.hit \/ "destroy" \in overlap'
  BY <1>0, <1>1 DEF Sound
<1>5. thread.at \in {"sync", "create", "send", "unit", "finish"} =>
        session' # 0 \/ "disconnect" \in overlap'
  BY <1>0, <1>2 DEF Sound, Busy, Works
<1>6. thread.at = "render" =>
        (thread.session = session' /\ session' # 0) \/ "disconnect" \in overlap'
  BY <1>0, <1>2 DEF Sound, Busy, Works
<1>7. thread.at \in {"send", "unit", "finish"} =>
        proxy'[thread.obj] # 0 \/ "disconnect" \in overlap' \/ thread.obj \notin objects'
  <2> SUFFICES ASSUME thread.at \in {"send", "unit", "finish"}
               PROVE  proxy'[thread.obj] # 0 \/ "disconnect" \in overlap' \/ thread.obj \notin objects'
    OBVIOUS
  <2>1. thread.obj # Nil /\ thread.obj \in created
    BY <1>0 DEF Sound, Holds, Works
  <2>2. CASE proxy[thread.obj] # 0
    <3>1. proxy'[thread.obj] # 0 \/ thread.obj \notin objects' \/ (session # 0 /\ session' = 0)
      BY <1>0, <2>1, <2>2 DEF GoesOnly
    <3> QED BY <1>2, <1>3, <2>1, <3>1
  <2>3. CASE "disconnect" \in overlap
    BY <1>0, <2>3
  <2>4. CASE thread.obj \notin objects
    BY <2>1, <2>4 DEF GoesOnly
  <2> QED BY <1>0, <2>2, <2>3, <2>4 DEF Sound
<1>8. thread.at = "unit" =>
        unit'[thread.obj] = "listed" \/ "unit" \in overlap' \/ thread.obj \notin objects'
  <2> SUFFICES ASSUME thread.at = "unit"
               PROVE  unit'[thread.obj] = "listed" \/ "unit" \in overlap' \/ thread.obj \notin objects'
    OBVIOUS
  <2>1. thread.obj # Nil /\ thread.obj \in created
    BY <1>0 DEF Sound, Holds, Works
  <2> QED BY <1>0, <2>1 DEF Sound, GoesOnly
<1>9. thread.obj # Nil => thread.obj \in created'
  BY <1>0 DEF Sound, GoesOnly
<1> QED BY <1>0, <1>1, <1>4, <1>5, <1>6, <1>7, <1>8, <1>9 DEF HeldInv, Sound, GoesOnly

(* Proxies are of objects that are there, and of the session, unless raced. *)
LEMMA LoopGoes ==
  ASSUME RemoteTypeOK, Requests \/ FromPeers \/ Frame,
         \A o \in Objects : proxy[o] # 0 => o \in objects,
         \A o \in Objects : proxy[o] \notin {0, session} => o \in raced,
         raced' = IF session # 0 /\ session' = 0 THEN {} ELSE raced \cap objects'
  PROVE  GoesOnly /\ \A o \in Objects : proxy'[o] \notin {0, session'} => o \in raced'
<1> DEFINE Good(o) == /\ proxy[o] # 0 /\ proxy'[o] = 0 =>
                           o \notin objects' \/ (session # 0 /\ session' = 0)
                      /\ proxy'[o] # 0 => o \in objects'
                      /\ proxy'[o] \notin {0, session'} => o \in raced'
           Grows == /\ created \subseteq created' /\ objects' \cap created \subseteq objects
                    /\ session # 0 => session' \in {0, session}
<1> USE DEF RemoteTypeOK
<1>1. ASSUME UNCHANGED <<proxy, session>>, objects \subseteq objects'
      PROVE  \A o \in Objects : Good(o)
  BY <1>1
<1>2. ASSUME NEW x \in Objects, DestroyObject(x)
      PROVE  Grows /\ \A o \in Objects : Good(o)
  BY <1>2 DEF DestroyObject, WithoutObjects
<1>3. ASSUME NEW x \in Objects, Commit(x)
      PROVE  Grows /\ \A o \in Objects : Good(o)
  <2>1. /\ UNCHANGED <<session, objects, created>> /\ x \in objects
        /\ proxy' = IF session # 0 /\ proxy[x] = 0 THEN [proxy EXCEPT ![x] = session] ELSE proxy
    BY <1>3 DEF Commit
  <2> QED BY <2>1
<1>4. ASSUME NEW p \in Peers, NEW connects \in BOOLEAN, PeerDiscovered(p, connects)
      PROVE  Grows /\ \A o \in Objects : Good(o)
  BY <1>4, RemoteSessionAssumption DEF PeerDiscovered
<1>5. ASSUME Disconnect
      PROVE  Grows /\ \A o \in Objects : Good(o)
  BY <1>5 DEF Disconnect
<1>6. ASSUME \/ \E o \in Objects : CreateObject(o)
             \/ \E o \in Objects, c \in Callbacks : RequestFrame(o, c)
             \/ \E p \in Peers : PeerLost(p)
             \/ ChannelLoad \/ Frame
      PROVE  Grows /\ \A o \in Objects : Good(o)
  <2>1. Grows /\ UNCHANGED <<proxy, session>> /\ objects \subseteq objects'
    BY <1>6 DEF CreateObject, RequestFrame, PeerLost, ChannelLoad, Frame
  <2> HIDE DEF Good
  <2> QED BY <1>1, <2>1
<1>7. Grows /\ \A o \in Objects : Good(o)
  <2> HIDE DEF Good, Grows
  <2> QED BY <1>2, <1>3, <1>4, <1>5, <1>6 DEF Requests, FromPeers
<1> QED BY <1>7 DEF GoesOnly

(* Units go with their objects.                                            *)
LEMMA UnitsGo ==
  ASSUME TypeOK, UnitsOfObjects
  PROVE  /\ unit' \in [Objects -> {"none", "listed", "gone"}]
         /\ \A o \in Objects : unit[o] = "listed" => unit'[o] = "listed" \/ o \notin objects'
BY DEF TypeOK, UnitsOfObjects

LEMMA LoopRaces ==
  ASSUME TypeOK, HeldInv, RacesHaveCause,
         LoopStep(Requests) \/ LoopStep(FromPeers) \/ LoopStep(Frame)
  PROVE  ThreadTypes' /\ HeldInv' /\ RacesHaveCause'
<1>1. /\ Requests \/ FromPeers \/ Frame
      /\ Overlapping /\ UnitsOfObjects /\ focused' = Weak(focused)
      /\ UNCHANGED <<server, moving, thread, misuse>>
      /\ misuse = "none" /\ server = "running"
      /\ raced' = IF session # 0 /\ session' = 0 THEN {} ELSE raced \cap objects'
  BY DEF LoopStep, Fine
<1>2. GoesOnly /\ \A o \in Objects : proxy'[o] \notin {0, session'} => o \in raced'
  BY <1>1, LoopGoes DEF TypeOK, HeldInv, RacesHaveCause
<1>3. /\ focused' \in {focused, Nil} /\ (focused' # Nil => focused' \in objects')
      /\ focused' # focused => focused \notin objects'
  BY <1>1 DEF Weak
<1>4. HeldInv'
  BY <1>1, <1>2, <1>3, UnitsGo, OverlapNoted
<1>5. ThreadTypes'
  <2>1. ThreadTypes
    BY TypesSplit
  <2>2. overlap' \subseteq {"disconnect", "destroy", "unit"} /\ raced' \subseteq Objects
    BY <1>1, <2>1 DEF Overlapping, ThreadTypes
  <2> QED BY <1>1, <1>3, <2>1, <2>2, UnitsGo DEF ThreadTypes
<1> QED BY <1>1, <1>2, <1>4, <1>5 DEF RacesHaveCause

LEMMA StopRaces ==
  ASSUME TypeOK, HeldInv, RacesHaveCause, DestroyClients \/ DeleteRemote
  PROVE  ThreadTypes' /\ HeldInv' /\ RacesHaveCause'
<1>0. ThreadTypes /\ RemoteTypeOK
  BY TypesSplit
<1>1. /\ server' \in {"no clients", "no remote"} /\ objects' = {} /\ created' = created
      /\ session' \in {0, session} /\ \A o \in Objects : proxy'[o] = 0
  BY <1>0 DEF DestroyClients, DeleteRemote, WithoutObjects, HeldInv, RemoteTypeOK
<1>2. /\ Overlapping /\ thread' = thread /\ misuse' = "none" /\ moving' = moving
      /\ focused' \in {focused, Nil} /\ focused' = Nil /\ raced' \subseteq raced
      /\ UnitsOfObjects \/ unit' = unit
  BY DEF DestroyClients, DeleteRemote, Fine, HeldInv, seatVars
<1>3. GoesOnly
  BY <1>0, <1>1 DEF GoesOnly, RemoteTypeOK
<1>4. /\ unit' \in [Objects -> {"none", "listed", "gone"}]
      /\ \A o \in Objects : unit[o] = "listed" => unit'[o] = "listed" \/ o \notin objects'
  BY <1>0, <1>2, UnitsGo DEF ThreadTypes
<1>5. HeldInv'
  BY <1>1, <1>2, <1>3, <1>4, OverlapNoted
<1>6. ThreadTypes'
  <2>1. overlap' \subseteq {"disconnect", "destroy", "unit"} /\ raced' \subseteq Objects
    BY <1>0, <1>2 DEF Overlapping, ThreadTypes
  <2>2. focused' \in Objects \cup {Nil}
    BY <1>2
  <2> QED BY <1>0, <1>1, <1>2, <1>4, <2>1, <2>2 DEF ThreadTypes, Kinds
<1> QED BY <1>1, <1>2, <1>5, <1>6 DEF RacesHaveCause

LEMMA UnitRaces ==
  ASSUME TypeOK, HeldInv, RacesHaveCause, NEW o \in Objects, CommitUnit(o) \/ DestroyUnit(o)
  PROVE  ThreadTypes' /\ HeldInv' /\ RacesHaveCause'
<1> USE DEF remoteVars, seatVars
<1>0. ThreadTypes
  BY TypesSplit
<1>1. /\ UNCHANGED <<remoteVars, server, seatVars, thread, raced, misuse>> /\ misuse = "none"
      /\ overlap \subseteq overlap' /\ overlap' \subseteq overlap \cup {"unit"}
      /\ unit' \in [Objects -> {"none", "listed", "gone"}]
  BY <1>0 DEF CommitUnit, DestroyUnit, Fine, ThreadTypes
<1>2. thread.at = "unit" => \/ unit'[thread.obj] = "listed" \/ "unit" \in overlap'
                            \/ thread.obj \notin objects
  <2> SUFFICES ASSUME thread.at = "unit", thread.obj \in objects
               PROVE  unit'[thread.obj] = "listed" \/ "unit" \in overlap'
    OBVIOUS
  <2>1. unit[thread.obj] = "listed" \/ "unit" \in overlap
    BY DEF HeldInv, Sound
  <2>2. thread.obj \in Objects /\ unit \in [Objects -> {"none", "listed", "gone"}]
    BY <1>0, TypesSplit DEF RemoteTypeOK, ThreadTypes
  <2>3. CASE CommitUnit(o)
    BY <1>1, <2>1, <2>2, <2>3 DEF CommitUnit
  <2>4. CASE DestroyUnit(o)
    BY <1>1, <2>1, <2>2, <2>4 DEF DestroyUnit
  <2> QED BY <2>3, <2>4
<1>3. HeldInv'
  BY <1>1, <1>2 DEF HeldInv, Sound
<1>4. ThreadTypes'
  BY <1>0, <1>1 DEF ThreadTypes
<1> QED BY <1>1, <1>3, <1>4 DEF RacesHaveCause

(* Steps at which the thread has nothing in hand, or does nothing.         *)
LEMMA QuietRaces ==
  ASSUME TypeOK, HeldInv, RacesHaveCause, UNCHANGED <<remoteVars, unit, raced, overlap, focused>>,
         moving' \in BOOLEAN,
         thread' = thread \/ \E at \in Polls : thread' = Idle(at),
         misuse' = "none" \/ (misuse' = "loop" /\ server' = "stopped"),
         server' = server
           \/ (server' = "running" /\ server = "starting")
           \/ (server' \in {"no ray", "joining", "joined", "stopped"} /\ server \notin {"starting", "running"})
  PROVE  ThreadTypes' /\ HeldInv' /\ RacesHaveCause'
<1> USE DEF remoteVars
<1>0. ThreadTypes
  BY TypesSplit
<1>1. ThreadTypes'
  <2>1. thread' \in Threads
    BY <1>0, IdleTyped DEF ThreadTypes
  <2> QED BY <1>0, <2>1 DEF ThreadTypes, Kinds
<1>2. HeldInv'
  <2>1. CASE thread' = thread
    <3>1. Sound(thread, focused, proxy) /\ UNCHANGED <<thread, focused, proxy>>
      BY <2>1 DEF HeldInv
    <3>2. UNCHANGED <<overlap, unit, objects, created, session>>
      OBVIOUS
    <3>3. Sound(thread, focused, proxy)'
      BY <3>1, <3>2 DEF Sound
    <3> QED BY <2>1, <3>3 DEF HeldInv
  <2>2. ASSUME NEW at \in Polls, thread' = Idle(at)
        PROVE  HeldInv'
    BY <2>2 DEF HeldInv, Sound, Idle, Thread, Polls, Works, Holds
  <2> QED BY <2>1, <2>2
<1> QED BY <1>1, <1>2 DEF RacesHaveCause

LEMMA RacesStep ==
  ASSUME TypeOK, HeldInv, RacesHaveCause, Next
  PROVE  ThreadTypes' /\ HeldInv' /\ RacesHaveCause'
<1>0. /\ focused \in objects \cup {Nil} /\ moving \in BOOLEAN /\ raced \subseteq Objects
      /\ \A o \in Objects : /\ proxy[o] # 0 => o \in objects
                            /\ proxy[o] \notin {0, session} => o \in raced
  BY DEF TypeOK, HeldInv, RacesHaveCause
<1>1. CASE \/ LoopStep(Requests) \/ LoopStep(FromPeers) \/ LoopStep(Frame)
           \/ DestroyClients \/ DeleteRemote
  BY <1>1, LoopRaces, StopRaces
<1>2. CASE \E o \in Objects : CommitUnit(o) \/ DestroyUnit(o)
  BY <1>2, UnitRaces
<1>3. CASE SeatCreated \/ DeleteRay \/ RequestEnd \/ Join \/ DestroyDisplay \/ SignalHandled
  <2>1. /\ UNCHANGED <<remoteVars, unit, raced, overlap, focused, moving, thread>>
        /\ misuse' = "none" \/ (misuse' = "loop" /\ server' = "stopped")
        /\ \/ server' = server
           \/ server' = "running" /\ server = "starting"
           \/ /\ server' \in {"no ray", "joining", "joined", "stopped"}
              /\ server \notin {"starting", "running"}
    BY <1>3 DEF SeatCreated, DeleteRay, RequestEnd, Join, DestroyDisplay, SignalHandled, Fine,
       threadVars, seatVars
  <2> QED BY <1>0, <2>1, QuietRaces
<1>4. CASE StartMove \/ Connect \/ Send \/ Hangup \/ AcceptFails \/ Poll \/ EndThread
  <2>1. /\ UNCHANGED <<remoteVars, unit, raced, overlap, focused, server>>
        /\ misuse' = "none" /\ moving' \in {moving, TRUE}
        /\ thread' = thread \/ \E at \in Polls : thread' = Idle(at)
    BY <1>4 DEF StartMove, Connect, Send, Hangup, AcceptFails, Poll, EndThread, Fine, seatVars, Polls
  <2> QED BY <1>0, <2>1, QuietRaces
<1>5. ASSUME NEW n \in Reads, NEW e \in {"move", "up", "button", "other"}, Read(n, e)
      PROVE  ThreadTypes' /\ HeldInv' /\ RacesHaveCause'
  <2>1. /\ UNCHANGED <<remoteVars, server, unit, raced>> /\ Fine
        /\ Handle(Received(n), e) \/ (Done /\ UNCHANGED seatVars)
    BY <1>5 DEF Read
  <2>2. Moves /\ focused' \in objects \cup {Nil} /\ moving' \in BOOLEAN
    <3>1. CASE Handle(Received(n), e)
      BY <2>1, <3>1, HandleMoves
    <3>2. CASE Done /\ UNCHANGED seatVars
      BY <1>0, <3>2 DEF Moves, seatVars
    <3> QED BY <2>1, <3>1, <3>2
  <2> QED BY <1>0, <2>1, <2>2, MovesKeep DEF remoteVars
<1>6. CASE ReadNothing
  <2>1. UNCHANGED <<remoteVars, server, unit, raced, focused, moving>> /\ Fine /\ Moves
    BY <1>6 DEF ReadNothing, HandleNothing, Moves, seatVars
  <2> QED BY <1>0, <2>1, MovesKeep DEF remoteVars
<1>7. CASE EventStep
  <2>1. /\ Moves /\ focused' \in objects \cup {Nil}
        /\ UNCHANGED <<remoteVars, server, unit, raced, moving>> /\ Fine
    BY <1>7, EventMoves
  <2> QED BY <1>0, <2>1, MovesKeep DEF remoteVars
<1>8. CASE DragStep
  <2>1. /\ Moves /\ Fine
        /\ UNCHANGED <<objects, created, session, sessions, unit, server, focused, moving>>
        /\ raced' \subseteq Objects
        /\ \A o \in Objects : /\ proxy'[o] # 0 => o \in objects
                              /\ proxy'[o] \notin {0, session} => o \in raced'
    BY <1>8, DragMoves
  <2> QED BY <1>0, <2>1, MovesKeep
<1> QED BY <1>1, <1>2, <1>3, <1>4, <1>5, <1>6, <1>7, <1>8 DEF Next, Stop, ThreadStep

----------------------------------------------------------------------------
(* The stream of events                                                    *)

LEMMA CellNumbers ==
  ASSUME NEW x \in Cell
  PROVE  x.event \in Nat /\ x.cell \in 1..8
BY InputThreadAssumption DEF Cell, Cells

LEMMA Whole ==
  ASSUME NEW n \in Nat, n % 8 = 0
  PROVE  \E k \in Nat : n = 8 * k
<1>1. n \div 8 \in Nat /\ n = 8 * (n \div 8)
  OBVIOUS
<1> QED BY <1>1

(* The first event of a multiple of 8 cells that end with the last event.  *)
LEMMA FirstOfWhole ==
  ASSUME NEW last \in Nat, NEW k \in Nat, NEW h \in Nat, NEW j \in Nat \ {0},
         8 * h + 8 * k <= 8 * last, NEW e \in Nat, NEW c \in 1..8,
         8 * e + c = 8 * (last + 1) + 8 - 8 * k
  PROVE  h < e /\ 8 * e + 8 * (k - j) <= 8 * last
<1>1. c = 8
  OBVIOUS
<1> QED BY <1>1

(* Sending leaves whole events, the last of them the one that was sent.    *)
LEMMA AppendWhole ==
  ASSUME NEW m \in Seq(Cell), NEW last \in Nat, last + 1 \in 1..MaxEvents, WholeEvents(m, last)
  PROVE  /\ WholeEvents(m \o Event(last + 1), last + 1)
         /\ Len(m \o Event(last + 1)) = Len(m) + 8
<1> DEFINE e == Event(last + 1)
           c == m \o e
           l == Len(m)
<1>1. e \in Seq(Cell) /\ Len(e) = 8 /\ l \in Nat
  BY EventTyped, LenProperties DEF Cells
<1>2. \A i \in 1..8 : e[i].event = last + 1 /\ e[i].cell = i
  BY DEF Event, Cells
<1> HIDE DEF e
<1>3. Len(c) = l + 8 /\ \A i \in 1..(l + 8) : c[i] = IF i <= l THEN m[i] ELSE e[i - l]
  <2>1. /\ Len(c) = l + Len(e)
        /\ \A i \in 1..(l + Len(e)) : c[i] = IF i <= l THEN m[i] ELSE e[i - l]
    BY <1>1, ConcatProperties, Zenon
  <2> QED BY <1>1, <2>1
<1>4. l % 8 = 0 /\ \A i \in 1..l : 8 * m[i].event + m[i].cell = 8 * (last + 1) + i - l
  BY DEF WholeEvents
<1> HIDE DEF c, l
<1>5. (l + 8) % 8 = 0
  BY <1>1, <1>4
<1>6. ASSUME NEW i \in 1..(l + 8)
      PROVE  8 * c[i].event + c[i].cell = 8 * (last + 1 + 1) + i - (l + 8)
  <2>1. 8 * (last + 1) + i - l = 8 * (last + 1 + 1) + i - (l + 8)
    BY <1>1
  <2>2. CASE i <= l
    <3>1. c[i] = m[i] /\ i \in 1..l
      BY <1>1, <1>3, <2>2
    <3> QED BY <1>4, <2>1, <3>1
  <2>3. CASE ~(i <= l)
    <3>1. c[i] = e[i - l] /\ i - l \in 1..8
      BY <1>1, <1>3, <2>3
    <3>2. c[i].event = last + 1 /\ c[i].cell = i - l
      BY <1>2, <3>1
    <3>3. 8 * (last + 1) + (i - l) = 8 * (last + 1 + 1) + i - (l + 8)
      BY <1>1
    <3> QED BY <3>2, <3>3
  <2> QED BY <2>2, <2>3
<1>7. WholeEvents(c, last + 1)
  BY <1>3, <1>5, <1>6 DEF WholeEvents
<1> QED BY <1>3, <1>7 DEF c, e, l

(* Taking whole events leaves whole events, and the first of those taken   *)
(* comes after the last one that was handled.                              *)
LEMMA TakeWhole ==
  ASSUME NEW m \in Seq(Cell), NEW last \in Nat, NEW h \in Nat, WholeEvents(m, last),
         8 * h + Len(m) <= 8 * last, NEW j \in Nat \ {0}, NEW n, n = 8 * j, n <= Len(m)
  PROVE  /\ WholeEvents(SubSeq(m, n + 1, Len(m)), last)
         /\ Len(SubSeq(m, n + 1, Len(m))) = Len(m) - n
         /\ n >= 8 /\ h < m[8].event /\ 8 * m[8].event + (Len(m) - n) <= 8 * last
<1> DEFINE l == Len(m)
           r == SubSeq(m, n + 1, l)
<1>1. l \in Nat /\ n <= l /\ 8 * h + l <= 8 * last
  BY LenProperties
<1>2. Len(r) = l - n /\ \A i \in 1..(l - n) : r[i] = m[n + i]
  <2>1. n \in Nat /\ n >= 1
    OBVIOUS
  <2>2. \A i \in (n + 1)..l : m[i] \in Cell
    BY <1>1, <2>1
  <2>3. /\ Len(r) = IF n + 1 <= l THEN l - (n + 1) + 1 ELSE 0
        /\ \A i \in 1..(l - (n + 1) + 1) : r[i] = m[n + 1 + i - 1]
    BY <1>1, <2>1, <2>2, SubSeqProperties
  <2>4. l - (n + 1) + 1 = l - n /\ \A i \in 1..(l - n) : n + 1 + i - 1 = n + i
    BY <1>1, <2>1
  <2>5. \A i \in 1..(l - n) : r[i] = m[n + i]
    BY <2>3, <2>4
  <2>6. Len(r) = l - n
    <3>1. CASE n + 1 <= l
      BY <2>3, <2>4, <3>1
    <3>2. CASE ~(n + 1 <= l)
      <4>1. l - n = 0
        BY <1>1, <2>1, <3>2
      <4> QED BY <2>3, <3>2, <4>1
    <3> QED BY <3>1, <3>2
  <2> QED BY <2>5, <2>6
<1>3. \A i \in 1..l : 8 * m[i].event + m[i].cell = 8 * (last + 1) + i - l
  BY DEF WholeEvents
<1>m. PICK k \in Nat : l = 8 * k
  BY <1>1, Whole DEF WholeEvents
<1>4. \A i \in 1..l : m[i].event \in Nat /\ m[i].cell \in 1..8
  BY CellNumbers
<1> HIDE DEF l, r
<1>5. n >= 8 /\ (l - n) % 8 = 0 /\ l - n \in Nat /\ l - n = 8 * (k - j)
  <2>1. l - n = 8 * (k - j) /\ k - j \in Nat /\ n >= 8
    BY <1>1, <1>m
  <2>2. \A x \in Nat : (8 * x) % 8 = 0 /\ 8 * x \in Nat
    OBVIOUS
  <2> QED BY <2>1, <2>2
<1>6. ASSUME NEW i \in 1..(l - n)
      PROVE  8 * r[i].event + r[i].cell = 8 * (last + 1) + i - (l - n)
  <2>1. r[i] = m[n + i] /\ n + i \in 1..l
    BY <1>1, <1>2
  <2>2. 8 * (last + 1) + (n + i) - l = 8 * (last + 1) + i - (l - n)
    BY <1>1
  <2> QED BY <1>3, <2>1, <2>2
<1>7. WholeEvents(r, last)
  BY <1>2, <1>5, <1>6 DEF WholeEvents
<1>8. 8 \in 1..l
  BY <1>1, <1>5
<1>9. /\ m[8].event \in Nat /\ m[8].cell \in 1..8
      /\ 8 * m[8].event + m[8].cell = 8 * (last + 1) + 8 - 8 * k
  BY <1>3, <1>4, <1>8, <1>m
<1>10. 8 * h + 8 * k <= 8 * last
  BY <1>1, <1>m
<1>11. h < m[8].event /\ 8 * m[8].event + 8 * (k - j) <= 8 * last
  BY <1>9, <1>10, FirstOfWhole
<1> QED BY <1>2, <1>5, <1>7, <1>11 DEF l, r

LEMMA StreamStep ==
  ASSUME TypeOK, StreamInv, Next
  PROVE  StreamInv'
<1> SUFFICES ASSUME ~split'
             PROVE  /\ ~again' /\ (mouse' # Nil => WholeEvents(mouse', sent'))
                    /\ 8 * handled' + Waiting' <= 8 * sent'
  BY DEF StreamInv
<1>0. StreamTypes /\ sent \in Nat /\ handled \in Nat
  BY TypesSplit, InputThreadAssumption DEF StreamTypes
<1>1. CASE UNCHANGED stream
  BY <1>1 DEF stream, StreamInv, Waiting
<1>2. ASSUME NEW A, LoopStep(A)
      PROVE  UNCHANGED stream
  BY <1>2 DEF LoopStep
<1>3. CASE \/ SeatCreated \/ StartMove \/ Stop \/ AcceptFails \/ Poll \/ EventStep \/ DragStep
           \/ \E o \in Objects : CommitUnit(o) \/ DestroyUnit(o)
  BY <1>1, <1>3, StreamKept
<1>4. CASE Connect
  <2>1. mouse' = <<>> /\ mouse = Nil /\ UNCHANGED <<sent, handled, again, split>>
    BY <1>4 DEF Connect
  <2>2. Waiting = 0 /\ Waiting' = 0
    BY <2>1 DEF Waiting
  <2>3. WholeEvents(mouse', sent')
    BY <1>0, <2>1 DEF WholeEvents
  <2> QED BY <2>1, <2>2, <2>3 DEF StreamInv
<1>5. CASE Send
  <2>1. mouse # Nil /\ sent' = sent + 1 /\ UNCHANGED <<handled, again, split>>
    BY <1>5 DEF Send
  <2>2. ~again /\ WholeEvents(mouse, sent) /\ 8 * handled + Waiting <= 8 * sent
    BY <2>1, <1>0 DEF StreamInv
  <2>3. WholeEvents(mouse', sent') /\ Len(mouse') = Len(mouse) + 8
    <3>1. mouse \in Seq(Cell) /\ sent + 1 \in 1..MaxEvents /\ mouse' = mouse \o Event(sent + 1)
      BY <1>0, <1>5, <2>1, InputThreadAssumption DEF Send, StreamTypes
    <3> QED BY <1>0, <2>1, <2>2, <3>1, AppendWhole
  <2>4. Waiting \in Nat /\ Waiting' \in {0, Waiting + 8}
    BY <1>0, <2>1, <2>3, LenProperties DEF Waiting, StreamTypes
  <2>5. 8 * handled + Waiting' <= 8 * (sent + 1)
    <3>1. PICK w \in Nat : w = Waiting
      BY <2>4
    <3>2. 8 * handled <= 8 * (sent + 1) /\ 8 * handled + (w + 8) <= 8 * (sent + 1)
      BY <1>0, <2>2, <3>1
    <3>3. 8 * handled + 0 <= 8 * (sent + 1)
      BY <1>0, <3>2
    <3>4. Waiting' = 0 \/ Waiting' = w + 8
      BY <2>4, <3>1
    <3> QED BY <3>2, <3>3, <3>4
  <2> QED BY <1>0, <2>1, <2>2, <2>3, <2>5
<1>6. CASE Hangup \/ EndThread
  <2>1. mouse' = Nil /\ UNCHANGED <<sent, handled, again, split>>
    BY <1>6 DEF Hangup, EndThread
  <2>2. Waiting' = 0 /\ Waiting \in Nat
    BY <1>0, <2>1 DEF Waiting, StreamTypes
  <2> QED BY <1>0, <2>1, <2>2 DEF StreamInv
<1>7. CASE ReadNothing
  BY <1>1, <1>7 DEF ReadNothing, HandleNothing, stream
<1>8. ASSUME NEW n \in Reads, NEW k \in {"move", "up", "button", "other"}, Read(n, k)
      PROVE  /\ ~again' /\ (mouse' # Nil => WholeEvents(mouse', sent'))
             /\ 8 * handled' + Waiting' <= 8 * sent'
  <2>1. /\ mouse # Nil /\ n <= Len(mouse) /\ sent' = sent
        /\ mouse' = SubSeq(mouse, n + 1, Len(mouse))
        /\ split' = (split \/ n % Cells # 0)
        /\ UNCHANGED <<handled, again>> \/ Handle(Received(n), k)
    BY <1>8 DEF Read
  <2>2. ~split /\ n % 8 = 0
    BY <2>1 DEF Cells
  <2>3. n \in Nat \ {0} /\ Len(mouse) \in Nat /\ mouse \in Seq(Cell)
    BY <1>0, <2>1, LenProperties, InputThreadAssumption DEF StreamTypes
  <2>4. ~again /\ WholeEvents(mouse, sent) /\ 8 * handled + Len(mouse) <= 8 * sent
    BY <1>0, <2>1, <2>2 DEF StreamInv, Waiting
  <2> DEFINE e == Received(n)[8].event
  <2>5. /\ WholeEvents(mouse', sent') /\ Len(mouse') = Len(mouse) - n
        /\ handled < e /\ 8 * e + Len(mouse') <= 8 * sent
    <3>1. /\ WholeEvents(mouse', sent') /\ Len(mouse') = Len(mouse) - n
          /\ n >= 8 /\ handled < mouse[8].event
          /\ 8 * mouse[8].event + (Len(mouse) - n) <= 8 * sent
      <4>1. PICK j \in Nat \ {0} : n = 8 * j
        BY <2>2, <2>3, Whole
      <4> QED BY <1>0, <2>1, <2>3, <2>4, <4>1, TakeWhole
    <3>2. Received(n)[8] = mouse[8]
      BY <2>3, <3>1 DEF Received, Cells
    <3> QED BY <3>1, <3>2
  <2>6. e \in Nat
    <3>1. e \in 0..MaxEvents
      BY <1>0, <2>1, ReceivedTyped DEF Cells
    <3> QED BY <3>1, InputThreadAssumption
  <2>7. \/ handled' = handled /\ again' = again
        \/ handled' = e /\ again' = (again \/ handled' <= handled)
    BY <2>1 DEF Handle, Cells
  <2> HIDE DEF e
  <2>8. ~(e <= handled)
    BY <1>0, <2>5, <2>6
  <2>9. ~again'
    BY <2>4, <2>7, <2>8
  <2>10. handled' \in {handled, e}
    BY <2>7
  <2> DEFINE l == Len(mouse)
             m == Len(mouse')
  <2>11. /\ l \in Nat /\ m = l - n /\ m \in Nat /\ Waiting' \in {0, m}
         /\ 8 * handled + l <= 8 * sent /\ 8 * e + m <= 8 * sent
    BY <2>1, <2>3, <2>4, <2>5, LenProperties DEF Waiting
  <2> HIDE DEF l, m
  <2>12. 8 * handled' + Waiting' <= 8 * sent
    <3>1. m <= l
      BY <2>3, <2>11
    <3>2. \A x \in {handled, e} : x \in Nat /\ 8 * x + m <= 8 * sent
      BY <1>0, <2>6, <2>11, <3>1
    <3>3. handled' \in Nat /\ 8 * handled' + m <= 8 * sent
      BY <2>10, <3>2
    <3>4. 8 * handled' + 0 <= 8 * sent
      <4>1. PICK x \in Nat, y \in Nat : x = handled' /\ y = m
        BY <2>11, <3>3
      <4>2. 8 * x + y <= 8 * sent
        BY <3>3, <4>1
      <4>3. 8 * x + 0 <= 8 * sent
        BY <1>0, <4>2
      <4> QED BY <4>1, <4>3
    <3> QED BY <2>11, <3>3, <3>4
  <2> QED BY <1>0, <2>1, <2>5, <2>9, <2>12
<1> QED BY <1>1, <1>2, <1>3, <1>4, <1>5, <1>6, <1>7, <1>8 DEF Next, ThreadStep

----------------------------------------------------------------------------
(* The theorems                                                            *)

LEMMA InitOK ==
  ASSUME Init
  PROVE  IInv
<1>0. /\ 0 \in 0..MaxSessions /\ 0 \in 0..MaxEvents
      /\ MaxSessions \in Nat /\ MaxEvents \in Nat
  BY RemoteSessionAssumption, InputThreadAssumption
<1>1. RemoteTypeOK
  BY <1>0 DEF Init, RemoteInit, RemoteTypeOK, Callback
<1>2. ThreadTypes
  <2>1. Idle("accept") \in Threads
    BY IdleTyped DEF Polls
  <2> QED BY <2>1 DEF Init, ThreadTypes, Kinds
<1>3. StreamTypes
  BY <1>0 DEF Init, StreamTypes, NoEvents
<1>4. HeldInv /\ RacesHaveCause
  BY DEF Init, RemoteInit, HeldInv, Sound, RacesHaveCause, Idle, Thread, Polls, Works, Holds
<1>5. StreamInv
  BY DEF Init, StreamInv, Waiting, Cells
<1> QED BY <1>1, <1>2, <1>3, <1>4, <1>5, TypesSplit DEF IInv

LEMMA StepOK ==
  ASSUME IInv, [Next]_vars
  PROVE  IInv'
<1> USE DEF IInv
<1>1. CASE Next
  <2>1. RemoteTypeOK' /\ ThreadTypes' /\ StreamTypes' /\ HeldInv' /\ RacesHaveCause'
    BY <1>1, RemoteStep, RacesStep, StreamTypesStep
  <2>2. TypeOK'
    BY <2>1 DEF TypeOK, RemoteTypeOK, ThreadTypes, StreamTypes, Threads, Kinds
  <2> QED BY <1>1, <2>1, <2>2, StreamStep
<1>2. CASE UNCHANGED vars
  <2> USE DEF vars, remoteVars, threadVars, seatVars, stream
  <2>1. TypeOK'
    <3>1. RemoteTypeOK /\ ThreadTypes /\ StreamTypes
      BY TypesSplit
    <3>2. RemoteTypeOK'
      BY <1>2, <3>1 DEF RemoteTypeOK
    <3>3. ThreadTypes'
      BY <1>2, <3>1 DEF ThreadTypes
    <3>4. StreamTypes'
      BY <1>2, <3>1 DEF StreamTypes
    <3> QED BY <3>2, <3>3, <3>4 DEF TypeOK, RemoteTypeOK, ThreadTypes, StreamTypes, Threads, Kinds
  <2>2. HeldInv' /\ RacesHaveCause'
    <3>1. Sound(thread, focused, proxy) /\ UNCHANGED <<thread, focused, proxy, server>>
      BY <1>2 DEF HeldInv
    <3>2. UNCHANGED <<overlap, unit, objects, created, session>>
      BY <1>2
    <3>3. Sound(thread, focused, proxy)'
      BY <3>1, <3>2 DEF Sound
    <3>4. HeldInv'
      BY <1>2, <3>3 DEF HeldInv
    <3>5. RacesHaveCause'
      BY <1>2 DEF RacesHaveCause, RayGone
    <3> QED BY <3>4, <3>5
  <2>3. StreamInv'
    BY <1>2 DEF StreamInv, Waiting
  <2> QED BY <2>1, <2>2, <2>3
<1> QED BY <1>1, <1>2

(* Every variable of the two threads and of the session keeps to its type. *)
THEOREM TypesOK == Spec => []TypeOK
<1>1. IInv => TypeOK
  BY DEF IInv
<1> QED BY <1>1, InitOK, StepOK, PTL DEF Spec

(* With no lock anywhere, an event on the input thread meets an object, a  *)
(* unit or a renderer that is gone only if the event loop destroyed it     *)
(* since the event began to use it, whether it is clicked on, hovered over *)
(* or dragged, and however many objects, peers and sessions there are; the *)
(* assertion in channel_nonnull, an empty proxy and a proxy of an old      *)
(* session take the loss of the session during one event; and the seat is  *)
(* called without its parts only as the server starts or stops.            *)
THEOREM RacesAreCaused == Spec => []RacesHaveCause
<1>1. IInv => RacesHaveCause
  BY DEF IInv
<1> QED BY <1>1, InitOK, StepOK, PTL DEF Spec

(* handle_events: mouses that come and go have their events handled in     *)
(* order and at most once, for any number of events, and for reads that    *)
(* return any number of whole ones.                                        *)
THEOREM EventsInOrder == Spec => []HandledInOrder
<1>1. IInv => HandledInOrder
  BY DEF IInv, StreamInv, HandledInOrder
<1> QED BY <1>1, InitOK, StepOK, PTL DEF Spec
=============================================================================

------------------------------ MODULE InputThread ------------------------------
(***************************************************************************)
(* The two threads of the server: the event loop with its session (of      *)
(* RemoteSession), and InputListenServer, which accepts one mouse at a     *)
(* time, reads events from its stream and calls the ServerSeat.  There is  *)
(* no lock.  What lock() of a weak pointer returns is a raw pointer, so an *)
(* event that uses an object, or moves and commits one, is made of several *)
(* steps here, and anything may happen on the event loop between them.     *)
(* The server starts the thread before the seat is there, and stops it     *)
(* last, from a signal handler that its own loop calls.                    *)
(*                                                                         *)
(* An object is a surface, or a virtual object and its app, which go       *)
(* together (ResourceTree has what comes of an app that goes first).  The  *)
(* stream carries events as cells of two bytes.  Undefined behaviour ends  *)
(* a behaviour of this module, with its kind in misuse.  "Slip" marks a    *)
(* mistake the code could make.                                            *)
(***************************************************************************)
EXTENDS RemoteSession, Sequences

CONSTANTS
  Surfaces,   \* the objects that are surfaces, with a renderer_ in every session
  MaxEvents,  \* bound: events a mouse sends
  Reads       \* bound: how many cells a read may return

ASSUME InputThreadAssumption ==
  Surfaces \subseteq Objects /\ MaxEvents \in Nat /\ Reads \subseteq Nat \ {0}

VARIABLES
  server,   \* how far the server has started or stopped
  focused,  \* what focused_obj_ points to, or Nil
  moving,   \* obj_state_ is MOVING
  unit,     \* of each virtual object, its rendering unit (bound: one)
  thread,   \* where the input thread is, and the locals it works with
  mouse,    \* a connection is open, and what is in it, or Nil
  sent,     \* how many events the mouses have sent
  buf,      \* the buffer of handle_events
  handled,  \* history: the last event handled
  again,    \* history: an event was handled that came no later than one handled before
  split,    \* history: a read did not return whole events
  overlap,  \* history: what the event loop took away while the thread handles an event
  raced,    \* history: objects whose proxy a drag made in a session that had gone
  misuse

stream == <<mouse, sent, buf, handled, again, split>>
seatVars == <<focused, moving>>
threadVars == <<seatVars, unit, thread, stream, overlap, raced, misuse>>
vars == <<remoteVars, server, threadVars>>

(* An event is a magic number (two cells), its type (two) and data (four)  *)
Cells  == 8
Cell   == [event : 1..MaxEvents, cell : 1..Cells]
Blank  == [event |-> 0, cell |-> 0]
Event(e) == [i \in 1..Cells |-> [event |-> e, cell |-> i]]
NoEvents == [i \in 1..Cells |-> Blank]

(* Where the thread is, the object that it holds a raw pointer to, the     *)
(* nearest hit so far and the objects still to be tested, the session of   *)
(* the channel or renderer in use, and whether the event ends with this    *)
Thread(at, obj, hit, left, in, last) ==
  [at |-> at, obj |-> obj, hit |-> hit, left |-> left, session |-> in, last |-> last]
Idle(at) == Thread(at, Nil, Nil, {}, 0, FALSE)
Polls == {"accept", "serve", "receive", "ended"}
Works == {"test", "leave", "follow", "use", "cursor", "move", "render",
          "commit", "sync", "create", "send", "unit", "finish"}

TypeOK ==
  /\ RemoteTypeOK
  /\ server \in {"starting", "running", "no clients", "no remote", "no ray", "joining", "joined",
                 "stopped"}
  /\ focused \in Objects \cup {Nil} /\ moving \in BOOLEAN
  /\ unit \in [Objects -> {"none", "listed", "gone"}]
  /\ thread \in [at : Polls \cup Works, obj : Objects \cup {Nil}, hit : Objects \cup {Nil},
                 left : SUBSET Objects, session : 0..MaxSessions, last : BOOLEAN]
  /\ mouse # Nil => mouse \in Seq(Cell)
  /\ sent \in 0..MaxEvents /\ handled \in 0..MaxEvents
  /\ buf \in [1..Cells -> Cell \cup {Blank}]
  /\ again \in BOOLEAN /\ split \in BOOLEAN /\ raced \subseteq Objects
  /\ overlap \subseteq {"disconnect", "destroy", "unit"}
  /\ misuse \in {"none", "early", "ray", "gone", "assert", "proxy", "loop"}

Init ==
  /\ RemoteInit
  /\ server = "starting" /\ focused = Nil /\ moving = FALSE /\ unit = [o \in Objects |-> "none"]
  /\ thread = Idle("accept") /\ mouse = Nil /\ sent = 0
  /\ buf = NoEvents /\ handled = 0 /\ again = FALSE /\ split = FALSE
  /\ overlap = {} /\ raced = {} /\ misuse = "none"

Fine == misuse = "none"
Busy == thread.at \in Works
(* ~InputListenServer has set terminate_requested_                         *)
Stopping == server = "joining"
(* ray_ has been destroyed, and the thread not yet joined                  *)
RayGone == server \in {"no ray", "joining"}

----------------------------------------------------------------------------
(* The event loop                                                          *)

Overlapping ==
  overlap' = overlap \cup
    (IF Busy /\ session # 0 /\ session' = 0 THEN {"disconnect"} ELSE {}) \cup
    (IF \E o \in {thread.obj, thread.hit} \ {Nil} : o \notin objects' THEN {"destroy"} ELSE {})

(* A WeakPtr to an object is null once the object is destroyed             *)
(* Slip: it is not.                                                        *)
Still(o) == o
Weak(o) == IF o \in objects' THEN o ELSE Nil

(* The destructor of a virtual object deletes the units in its list        *)
UnitsOfObjects ==
  unit' = [o \in Objects |-> IF o \in objects \ objects' THEN "gone" ELSE unit[o]]

LoopStep(A) ==
  /\ Fine /\ server = "running" /\ A
  /\ Overlapping /\ UnitsOfObjects
  /\ focused' = Weak(focused)
  /\ raced' = IF session # 0 /\ session' = 0 THEN {} ELSE raced \cap objects'
  /\ UNCHANGED <<server, moving, thread, stream, misuse>>

(* A unit enters the list at its first commit, and may be destroyed alone  *)
CommitUnit(o) ==
  /\ Fine /\ server = "running" /\ o \in objects \ Surfaces /\ unit[o] = "none"
  /\ unit' = [unit EXCEPT ![o] = "listed"]
  /\ UNCHANGED <<remoteVars, server, seatVars, thread, stream, overlap, raced, misuse>>
DestroyUnit(o) ==
  /\ Fine /\ server = "running" /\ o \in objects /\ unit[o] = "listed"
  /\ unit' = [unit EXCEPT ![o] = "gone"]
  /\ overlap' = IF thread.at = "unit" /\ thread.obj = o THEN overlap \cup {"unit"} ELSE overlap
  /\ UNCHANGED <<remoteVars, server, seatVars, thread, stream, raced, misuse>>

(* Server::init has started the thread in the constructor of the seat      *)
SeatCreated ==
  /\ Fine /\ server = "starting" /\ server' = "running"
  /\ UNCHANGED <<remoteVars, threadVars>>

(* request_start_move of the client whose object has the pointer           *)
StartMove ==
  /\ Fine /\ server = "running" /\ focused # Nil
  /\ moving' = TRUE
  /\ UNCHANGED <<remoteVars, server, focused, unit, thread, stream, overlap, raced, misuse>>

(* Server::terminate: clients, remote, seat, display; of the seat, ray_    *)
(* goes before the destructor of InputListenServer tells the thread to end *)
DestroyClients ==
  /\ Fine /\ server = "running" /\ server' = "no clients"
  /\ WithoutObjects(objects) /\ UnitsOfObjects /\ focused' = Nil
  /\ UNCHANGED <<near, session, sessions, busy, armed, created>>
  /\ Overlapping /\ raced' = {}
  /\ UNCHANGED <<moving, thread, stream, misuse>>
DeleteRemote ==
  /\ Fine /\ server = "no clients" /\ server' = "no remote"
  /\ near' = {} /\ session' = 0 /\ busy' = FALSE /\ armed' = FALSE
  /\ UNCHANGED <<sessions, objects, created, committed, proxy, callback>>
  /\ Overlapping
  /\ UNCHANGED <<seatVars, unit, thread, stream, raced, misuse>>
DeleteRay ==
  /\ Fine /\ server = "no remote" /\ server' = "no ray"
  /\ UNCHANGED <<remoteVars, threadVars>>
RequestEnd ==
  /\ Fine /\ server = "no ray" /\ server' = "joining"
  /\ UNCHANGED <<remoteVars, threadVars>>
Join ==
  /\ Fine /\ server = "joining" /\ thread.at = "ended" /\ server' = "joined"
  /\ UNCHANGED <<remoteVars, threadVars>>
(* wl_display_destroy frees the loop                                       *)
DestroyDisplay ==
  /\ Fine /\ server = "joined" /\ server' = "stopped"
  /\ UNCHANGED <<remoteVars, threadVars>>
(* handle_signal returns to the loop that has called it, and wl_display_run *)
(* goes on: nothing has called wl_display_terminate                        *)
SignalHandled ==
  /\ Fine /\ server = "stopped" /\ misuse' = "loop"
  /\ UNCHANGED <<remoteVars, server, seatVars, unit, thread, stream, overlap, raced>>

----------------------------------------------------------------------------
(* The mouse                                                               *)

Connect ==
  /\ Fine /\ mouse = Nil /\ thread.at = "accept"
  /\ mouse' = <<>> /\ thread' = Idle("serve")
  /\ buf' = NoEvents
  /\ UNCHANGED <<remoteVars, server, seatVars, unit, sent, handled, again, split, overlap, raced,
                 misuse>>

Send ==
  /\ Fine /\ mouse # Nil /\ sent < MaxEvents
  /\ sent' = sent + 1 /\ mouse' = mouse \o Event(sent + 1)
  /\ UNCHANGED <<remoteVars, server, seatVars, unit, thread, buf, handled, again, split, overlap,
                 raced, misuse>>

----------------------------------------------------------------------------
(* The input thread between events                                         *)

(* Which loops look at terminate_requested_                                *)
(* Slip: only that around accept does.                                     *)
LeavesAccepting == thread.at = "accept"
Leaves == thread.at \in {"accept", "serve"}

EndThread ==
  /\ Fine /\ Stopping /\ Leaves
  /\ thread' = Idle("ended") /\ mouse' = Nil
  /\ UNCHANGED <<remoteVars, server, seatVars, unit, sent, buf, handled, again, split, overlap,
                 raced, misuse>>

(* The loop of handle_events has seen no reason to end, and calls recv     *)
Poll ==
  /\ Fine /\ thread.at = "serve" /\ ~(Stopping /\ Leaves)
  /\ thread' = Idle("receive")
  /\ UNCHANGED <<remoteVars, server, seatVars, unit, stream, overlap, raced, misuse>>

(* accept fails for good                                                   *)
AcceptFails ==
  /\ Fine /\ thread.at = "accept"
  /\ thread' = Idle("ended")
  /\ UNCHANGED <<remoteVars, server, seatVars, unit, stream, overlap, raced, misuse>>

(* The connection fails or is closed: the mouse, and what was in it, goes  *)
Hangup ==
  /\ Fine /\ thread.at = "receive"
  /\ thread' = Idle("accept") /\ mouse' = Nil
  /\ UNCHANGED <<remoteVars, server, seatVars, unit, sent, buf, handled, again, split, overlap,
                 raced, misuse>>

(* What recv leaves in the buffer of n cells that it takes                 *)
Received(n) == [i \in 1..Cells |-> IF i <= n THEN mouse[i] ELSE buf[i]]

(* The buffer begins with the magic number                                 *)
Valid(b) == b[1].cell = 1 /\ b[2].cell = 2

(* The thread goes on, is done with the event, or meets undefined behaviour *)
Goes(next) == thread' = next /\ UNCHANGED <<overlap, misuse>>
Done == thread' = Idle("serve") /\ overlap' = {} /\ UNCHANGED misuse
Misused(kind) == misuse' = kind /\ UNCHANGED <<thread, overlap>>

Gone == thread.obj \notin objects
Using(A) == IF Gone THEN Misused("gone") ELSE A
Hold(at, o, last) == Goes(Thread(at, o, Nil, {}, 0, last))

(* check_intersection, which goes through the lists of objects             *)
CheckIntersection == Goes(Thread("test", Nil, Nil, objects, 0, FALSE))

(* The call of the seat.  MOUSE_MOVE moves what is dragged, or finds what   *)
(* the ray hits; MOUSE_UP ends a drag; other buttons and the wheel go to    *)
(* the focus, and without one a press to what has the keyboard, if any.     *)
MoveFocused ==
  IF focused = Nil THEN Goes(Idle("cursor"))
  ELSE Hold(IF focused \in Surfaces THEN "move" ELSE "commit", focused, FALSE)
Call(e) ==
  \/ e = "move" /\ ~moving /\ CheckIntersection /\ UNCHANGED seatVars
  \/ e = "move" /\ moving /\ MoveFocused /\ UNCHANGED seatVars
  \/ e = "up" /\ moving /\ CheckIntersection /\ moving' = FALSE /\ focused' = Nil
  \/ /\ e = "button" \/ (e = "up" /\ ~moving)
     /\ \E o \in IF focused # Nil THEN {focused} ELSE (objects \cap Surfaces) \cup {Nil} :
          IF o = Nil THEN Done ELSE Hold("use", o, TRUE)
     /\ UNCHANGED seatVars
  \/ e = "other" /\ Done /\ UNCHANGED seatVars

(* Server::instance has no seat before it is assigned, and one without     *)
(* its ray_ before the thread has ended                                    *)
Early(e) == server = "starting" /\ e # "other"
NoRay(e) == RayGone /\ (e = "move" \/ (e = "up" /\ moving))

Handle(b, e) ==
  /\ handled' = b[Cells].event /\ again' = (again \/ handled' <= handled)
  /\ \/ Early(e) /\ Misused("early") /\ UNCHANGED seatVars
     \/ NoRay(e) /\ Misused("ray") /\ UNCHANGED seatVars
     \/ ~Early(e) /\ ~NoRay(e) /\ Call(e)

(* One round of handle_events: a read of any length, which at most holds   *)
(* one event that is handled                                               *)
Read(n, e) ==
  /\ Fine /\ thread.at = "receive" /\ mouse # Nil /\ n <= Len(mouse)
  /\ mouse' = SubSeq(mouse, n + 1, Len(mouse))
  /\ buf' = Received(n)
  /\ split' = (split \/ n % Cells # 0)
  /\ IF n >= 2 /\ Valid(Received(n)) THEN Handle(Received(n), e)
     ELSE Done /\ UNCHANGED <<seatVars, handled, again>>
  /\ UNCHANGED <<remoteVars, server, unit, sent, raced>>

(* recv has nothing yet                                                    *)
(* Slip: with nothing read, what is in the buffer is handled.              *)
HandleAgain ==
  IF Valid(buf) THEN Handle(buf, "other") ELSE Done /\ UNCHANGED <<seatVars, handled, again>>
HandleNothing == Done /\ UNCHANGED <<seatVars, handled, again>>

ReadNothing ==
  /\ Fine /\ thread.at = "receive" /\ mouse = <<>>
  /\ HandleNothing
  /\ UNCHANGED <<remoteVars, server, unit, mouse, sent, buf, split, raced>>

----------------------------------------------------------------------------
(* What events do, from one use of an object to the next.  A step at which *)
(* the thread follows the pointer it holds stands for all the calls made   *)
(* through it in a row.                                                    *)

Step(at) ==
  Fine /\ thread.at = at /\ UNCHANGED <<server, unit, stream, moving>>
Elsewhere == UNCHANGED <<remoteVars, raced>>

(* The next pointer in the lists is locked, unless its object is gone, and *)
(* then followed by the hit test                                           *)
TestNext(o) ==
  /\ Step("test") /\ Elsewhere /\ thread.obj = Nil /\ o \in thread.left
  /\ Goes(Thread("test", Weak(o), thread.hit, thread.left \ {o}, 0, FALSE))
  /\ UNCHANGED focused
Test(hits) ==
  /\ Step("test") /\ Elsewhere /\ thread.obj # Nil
  /\ Using(Goes(Thread("test", Nil, IF hits THEN thread.obj ELSE thread.hit, thread.left, 0,
                       FALSE)))
  /\ UNCHANGED focused

(* set_focused_obj, or reset() where nothing is hit.  The nearest hit is   *)
(* kept as a weak pointer, and what had the focus is left before           *)
Refocus ==
  /\ focused' = IF thread.hit \in objects THEN thread.hit ELSE Nil
  /\ Goes(Thread(IF thread.hit # Nil THEN "follow" ELSE "cursor", Nil, thread.hit, {}, 0, FALSE))
SetFocus ==
  /\ Step("test") /\ Elsewhere /\ thread.obj = Nil /\ thread.left = {}
  /\ IF focused = Nil \/ thread.hit = focused THEN Refocus
     ELSE Goes(Thread("leave", focused, thread.hit, {}, 0, FALSE)) /\ UNCHANGED focused
Leave ==
  /\ Step("leave") /\ Elsewhere
  /\ IF Gone THEN Misused("gone") /\ UNCHANGED focused ELSE Refocus

(* focused_obj_->, which does not look whether lock() has found anything   *)
Follow ==
  /\ Step("follow") /\ Elsewhere /\ UNCHANGED focused
  /\ IF focused = Nil THEN Misused("gone")
     ELSE Goes(Thread("use", focused, thread.hit, {}, 0, FALSE))

(* enter, motion, button, axis and frame, leaving the keyboard             *)
Use ==
  /\ Step("use") /\ Elsewhere /\ UNCHANGED focused
  /\ Using(IF thread.last THEN Done ELSE Goes(Thread("cursor", Nil, thread.hit, {}, 0, FALSE)))

(* set_length of the ray, if something was hit; and the cursor, if there   *)
(* is one, which goes off or moves                                         *)
Cursor(o) ==
  /\ Step("cursor") /\ Elsewhere /\ UNCHANGED focused
  /\ o \in (objects \cap Surfaces) \cup {Nil}
  /\ IF thread.hit # Nil /\ RayGone THEN Misused("ray")
     ELSE IF o = Nil THEN Done ELSE Hold("move", o, TRUE)

(* Surface::move and set_active: with a renderer_, it is used              *)
Moved == IF thread.last THEN Done ELSE Goes(Idle("cursor"))
MoveSurface ==
  /\ Step("move") /\ Elsewhere /\ UNCHANGED focused
  /\ Using(IF session = 0 THEN Moved
           ELSE Goes(Thread("render", thread.obj, Nil, {}, session, thread.last)))
RenderSurface ==
  /\ Step("render") /\ Elsewhere /\ UNCHANGED focused
  /\ IF Gone \/ session # thread.session THEN Misused("gone") ELSE Moved

----------------------------------------------------------------------------
(* BoundedApp::move on the input thread                                    *)

(* VirtualObject::commit up to has_session()                               *)
DragCommit ==
  /\ Step("commit") /\ UNCHANGED <<focused, raced>>
  /\ IF Gone THEN Misused("gone") /\ UNCHANGED remoteVars
     ELSE /\ CommitCallbacks(thread.obj) /\ committed' = committed \cup {thread.obj}
          /\ IF session # 0 THEN Hold("sync", thread.obj, FALSE) ELSE Goes(Idle("cursor"))
          /\ UNCHANGED <<near, session, sessions, busy, armed, objects, created, proxy>>

(* VirtualObject::sync up to channel_nonnull()                             *)
DragSync ==
  /\ Step("sync") /\ Elsewhere /\ UNCHANGED focused
  /\ Using(IF proxy[thread.obj] # 0 THEN Hold("send", thread.obj, FALSE)
           ELSE IF session = 0 THEN Misused("assert")
           ELSE Goes(Thread("create", thread.obj, Nil, {}, session, FALSE)))

(* CreateVirtualObject with that channel                                   *)
DragCreate ==
  /\ Step("create") /\ UNCHANGED focused
  /\ IF Gone THEN Misused("gone") /\ UNCHANGED <<proxy, raced>>
     ELSE /\ Hold("send", thread.obj, FALSE)
          /\ proxy' = [proxy EXCEPT ![thread.obj] = thread.session]
          /\ raced' = IF thread.session = session THEN raced ELSE raced \cup {thread.obj}
  /\ UNCHANGED <<near, session, sessions, busy, armed, objects, created, committed, callback>>

(* The proxy is told where the app is, and the list of units is walked     *)
DragSend ==
  /\ Step("send") /\ Elsewhere /\ UNCHANGED focused
  /\ Using(IF proxy[thread.obj] = 0 THEN Misused("proxy")
           ELSE Hold(IF unit[thread.obj] = "listed" THEN "unit" ELSE "finish", thread.obj, FALSE))

(* RenderingUnit::sync, whose own proxy went with that of the object       *)
DragUnit ==
  /\ Step("unit") /\ Elsewhere /\ UNCHANGED focused
  /\ IF Gone \/ unit[thread.obj] # "listed" THEN Misused("gone")
     ELSE IF session = 0 THEN Misused("assert")
     ELSE Hold("finish", thread.obj, FALSE)

(* The commit of the proxy                                                 *)
DragFinish ==
  /\ Step("finish") /\ Elsewhere /\ UNCHANGED focused
  /\ Using(IF proxy[thread.obj] = 0 THEN Misused("proxy") ELSE Goes(Idle("cursor")))

----------------------------------------------------------------------------
Stop == \/ DestroyClients \/ DeleteRemote \/ DeleteRay \/ RequestEnd \/ Join
        \/ DestroyDisplay \/ SignalHandled

EventStep ==
  \/ \E o \in Objects : TestNext(o)
  \/ \E hits \in BOOLEAN : Test(hits)
  \/ SetFocus \/ Leave \/ Follow \/ Use
  \/ \E o \in Objects \cup {Nil} : Cursor(o)
  \/ MoveSurface \/ RenderSurface

DragStep == DragCommit \/ DragSync \/ DragCreate \/ DragSend \/ DragUnit \/ DragFinish

ThreadStep ==
  \/ Poll
  \/ \E n \in Reads, e \in {"move", "up", "button", "other"} : Read(n, e)
  \/ ReadNothing
  \/ EndThread
  \/ EventStep
  \/ DragStep

Next ==
  \/ LoopStep(Requests)
  \/ LoopStep(FromPeers)
  \/ LoopStep(Frame)
  \/ \E o \in Objects : CommitUnit(o) \/ DestroyUnit(o)
  \/ SeatCreated
  \/ StartMove
  \/ Stop
  \/ Connect \/ Send \/ Hangup \/ AcceptFails
  \/ ThreadStep

(* The frame timer fires as long as it is armed; the server, once it stops, *)
(* goes on stopping; and the input thread is run.                          *)
Fairness ==
  /\ WF_vars(LoopStep(Frame))
  /\ WF_vars(DeleteRemote) /\ WF_vars(DeleteRay) /\ WF_vars(RequestEnd) /\ WF_vars(Join)
  /\ WF_vars(ThreadStep)

Spec == Init /\ [][Next]_vars /\ Fairness

----------------------------------------------------------------------------
(* With no lock between the threads, an event meets an object that is gone *)
(* only if the event loop destroyed it, its unit or its renderer since the *)
(* event began to use it, a button as well as a drag; the assertion in     *)
(* channel_nonnull, an empty proxy_ and proxies that outlive their session *)
(* take the loss of the session during one event; and the seat is called   *)
(* without its parts only as the server starts or stops.                   *)
RacesHaveCause ==
  /\ misuse = "gone" => \/ "destroy" \in overlap
                        \/ thread.at = "unit" /\ "unit" \in overlap
                        \/ thread.at = "render" /\ "disconnect" \in overlap
  /\ misuse \in {"assert", "proxy"} => "disconnect" \in overlap
  /\ misuse = "early" => server = "starting"
  /\ misuse = "ray" => RayGone
  /\ misuse = "loop" => server = "stopped"
  /\ \A o \in Objects : proxy[o] \notin {0, session} => o \in raced

(* Events are handled in the order they were sent, none of them twice and  *)
(* none that was not sent, as long as every read returns whole events      *)
HandledInOrder == again => split

(* A committed frame callback is answered, or its object goes, unless the  *)
(* channel is busy again and again, or the server stops or breaks          *)
CallbacksAnswered ==
  (<>[]FrameSent) =>
    \A c \in Callbacks :
      callback[c].at = "current" ~>
        (callback[c].at # "current" \/ server # "running" \/ ~Fine)

(* Once terminate() has begun, the thread ends and the destructor of the   *)
(* seat returns, with a mouse connected or not, in the middle of an event  *)
(* as well, unless the event breaks the server.                            *)
JoinReturns == (server = "no clients") ~> (server = "joined" \/ ~Fine)

(* main() logs "Exiting gracefully" after start() and terminate(): the     *)
(* server does not use its event loop after it was freed.                  *)
ExitsGracefully == misuse # "loop"
=============================================================================

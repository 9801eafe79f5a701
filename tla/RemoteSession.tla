----------------------------- MODULE RemoteSession -----------------------------
(***************************************************************************)
(* Remote and Session: peers are discovered, at most one session is up,    *)
(* and a timer that never stops lets the objects answer frame callbacks,   *)
(* except while the channel of the session is busy.  Objects are virtual   *)
(* objects with an app; of what they mirror only the proxy is here.        *)
(* Surfaces treat frame callbacks in the same way.                         *)
(***************************************************************************)
EXTENDS Naturals

CONSTANTS
  Objects, Callbacks, Peers,
  MaxSessions,  \* bound: number of sessions established
  Nil

ASSUME RemoteSessionAssumption == MaxSessions \in Nat /\ Nil \notin Objects

VARIABLES
  near,       \* the peers that PeerManager has discovered and not lost
  session,    \* the number of the session that is up, or 0
  sessions,   \* how many there have been
  busy,       \* GetBusyness() of its channel is at the threshold
  armed,      \* frame_timer_source_ is armed
  objects,    \* the objects that exist
  created,    \* bound: those that ever did; ids are not used again
  committed,  \* committed_
  proxy,      \* the session the proxy_ of an object was made in, or 0
  callback    \* of each frame callback, where it is, and whose it is

remoteVars == <<near, session, sessions, busy, armed, objects, created, committed, proxy,
                callback>>

Callback == [at : {"idle", "pending", "current", "answered", "dropped"},
             of : Objects \cup {Nil}]

RemoteTypeOK ==
  /\ near \subseteq Peers /\ session \in {0, sessions} /\ sessions \in 0..MaxSessions
  /\ busy \in BOOLEAN /\ armed \in BOOLEAN
  /\ objects \subseteq created /\ created \subseteq Objects /\ committed \subseteq objects
  /\ proxy \in [Objects -> 0..MaxSessions]
  /\ callback \in [Callbacks -> Callback]
  /\ \A c \in Callbacks : callback[c].at \in {"pending", "current"} => callback[c].of \in objects

RemoteInit ==
  /\ near = {} /\ session = 0 /\ sessions = 0 /\ busy = FALSE /\ armed = TRUE
  /\ objects = {} /\ created = {} /\ committed = {}
  /\ proxy = [o \in Objects |-> 0]
  /\ callback = [c \in Callbacks |-> [at |-> "idle", of |-> Nil]]

----------------------------------------------------------------------------
(* Peers and sessions                                                      *)

(* The handler of on_peer_discover; connects: whether Session can connect. *)
(* A peer that is discovered while a session is up is not looked at again. *)
PeerDiscovered(p, connects) ==
  /\ p \notin near /\ near' = near \cup {p}
  /\ IF session # 0 \/ ~connects THEN UNCHANGED <<session, sessions, proxy>>
     ELSE /\ sessions < MaxSessions
          /\ sessions' = sessions + 1 /\ session' = sessions + 1
          /\ proxy' = [o \in Objects |->
                IF o \in committed /\ proxy[o] = 0 THEN session' ELSE proxy[o]]
  /\ UNCHANGED <<busy, armed, objects, created, committed, callback>>

PeerLost(p) ==
  /\ p \in near /\ near' = near \ {p}
  /\ UNCHANGED <<session, sessions, busy, armed, objects, created, committed, proxy, callback>>

(* disconnect(), for on_disconnect of the session                          *)
Disconnect ==
  /\ session # 0 /\ session' = 0 /\ busy' = FALSE
  /\ proxy' = [o \in Objects |-> 0]
  /\ UNCHANGED <<near, sessions, armed, objects, created, committed, callback>>

ChannelLoad ==
  /\ session # 0 /\ busy' = ~busy
  /\ UNCHANGED <<near, session, sessions, armed, objects, created, committed, proxy, callback>>

----------------------------------------------------------------------------
(* Frames                                                                  *)

FrameSent == session = 0 \/ ~busy

(* wl_event_source_timer_update, at the end of the handler                 *)
(* Slip: a busy channel makes the handler return early.                    *)
RearmedIfSent == FrameSent
Rearmed == TRUE

Frame ==
  /\ armed /\ armed' = Rearmed
  /\ callback' = [c \in Callbacks |->
        IF FrameSent /\ callback[c].at = "current"
        THEN [callback[c] EXCEPT !.at = "answered"] ELSE callback[c]]
  /\ UNCHANGED <<near, session, sessions, busy, objects, created, committed, proxy>>

----------------------------------------------------------------------------
(* Objects                                                                 *)

CreateObject(o) ==
  /\ o \notin created
  /\ objects' = objects \cup {o} /\ created' = created \cup {o}
  /\ UNCHANGED <<near, session, sessions, busy, armed, committed, proxy, callback>>

(* The lists of callbacks go with the object, and nobody answers them      *)
(* Slip: only one of the two lists is unlinked.                            *)
DroppedCurrent == {"current"}
Dropped == {"pending", "current"}

WithoutObjects(O) ==
  /\ objects' = objects \ O /\ committed' = committed \ O
  /\ proxy' = [o \in Objects |-> IF o \in O THEN 0 ELSE proxy[o]]
  /\ callback' = [c \in Callbacks |->
        IF callback[c].of \in O /\ callback[c].at \in Dropped
        THEN [callback[c] EXCEPT !.at = "dropped"] ELSE callback[c]]

DestroyObject(o) ==
  /\ o \in objects /\ WithoutObjects({o})
  /\ UNCHANGED <<near, session, sessions, busy, armed, created>>

RequestFrame(o, c) ==
  /\ o \in objects /\ callback[c].at \notin {"pending", "current"}
  /\ callback' = [callback EXCEPT ![c] = [at |-> "pending", of |-> o]]
  /\ UNCHANGED <<near, session, sessions, busy, armed, objects, created, committed, proxy>>

(* The pending callbacks of o are put in front of the current ones         *)
CommitCallbacks(o) ==
  callback' = [c \in Callbacks |->
    IF callback[c] = [at |-> "pending", of |-> o] THEN [at |-> "current", of |-> o]
    ELSE callback[c]]

Commit(o) ==
  /\ o \in objects /\ committed' = committed \cup {o}
  /\ CommitCallbacks(o)
  /\ proxy' = IF session # 0 /\ proxy[o] = 0 THEN [proxy EXCEPT ![o] = session] ELSE proxy
  /\ UNCHANGED <<near, session, sessions, busy, armed, objects, created>>

----------------------------------------------------------------------------
Requests ==
  \/ \E o \in Objects : CreateObject(o) \/ DestroyObject(o) \/ Commit(o)
  \/ \E o \in Objects, c \in Callbacks : RequestFrame(o, c)

(* What zen-remote calls                                                   *)
FromPeers ==
  \/ \E p \in Peers, connects \in BOOLEAN : PeerDiscovered(p, connects)
  \/ \E p \in Peers : PeerLost(p)
  \/ Disconnect
  \/ ChannelLoad
=============================================================================

------------------------------ MODULE SceneSync ------------------------------
(***************************************************************************)
(* How one client's scene is mirrored to the zen-remote session.           *)
(*                                                                         *)
(* Client state is double buffered: requests fill `pending_`, a commit of  *)
(* the VirtualObject moves it to `current_` down the tree VirtualObject -> *)
(* RenderingUnit -> GlBaseTechnique -> program, vertex array, buffers, and *)
(* then, when a session is up, sync() sends what changed to the peer       *)
(* through proxies that live as long as the session.  When a session comes *)
(* up, every committed object is synced again with force_sync.             *)
(*                                                                         *)
(* A definition said to be a slip is no part of the model: it is a mistake *)
(* the code could make, which takes the place of the definition after it   *)
(* to show that a property would notice.                                   *)
(*                                                                         *)
(* Everything here runs on the Wayland event loop, so one handler is one   *)
(* atomic action.  Contents are version numbers, a vertex array has one    *)
(* attribute, uniforms and textures are left to other modules.             *)
(***************************************************************************)
EXTENDS Naturals

CONSTANTS
  Objects,        \* ids of zwn_virtual_object
  Units,          \* ids of zwn_rendering_unit
  Techniques,     \* ids of zwn_gl_base_technique
  Programs, Shaders, VertexArrays, Buffers,  \* ids of the GL resources
  Positions,      \* where a bounded app can stand
  Start,          \* the position a new app has
  Created,        \* resources the client has created before the first step
  Arrays,         \* the draw call GlDrawArrays; a buffer stands for GlDrawElements with it
  MaxVersion,     \* bound: contents a client may put in a buffer are 1..MaxVersion
  MaxSessions,    \* bound: number of sessions established
  Nil

Nodes     == Objects \cup Units \cup Techniques
Resources == Programs \cup Shaders \cup VertexArrays \cup Buffers
Things    == Nodes \cup Resources
Draws     == Buffers \cup {Arrays}

ASSUME SceneSyncAssumption ==
  /\ MaxVersion \in Nat
  /\ MaxSessions \in Nat
  /\ Start \in Positions
  /\ Created \subseteq Resources
  /\ Nil \notin Things \cup {Arrays}
  /\ Arrays \notin Things
  /\ Nodes \cap Resources = {}
  /\ Objects \cap (Units \cup Techniques) = {}
  /\ Units \cap Techniques = {}

VARIABLES
  session,     \* Remote::current_session_: 0 is nullopt, else the session's number
  sessions,    \* how many sessions there have been
  stage,       \* of each thing: not created yet, live, or destroyed
  client,      \* the client is running, has been posted a protocol error, or is gone
  owner,       \* owner_ of a unit or a technique
  app,         \* VirtualObject::app_ is set
  pos,         \* geometry of the object's app
  committed,   \* committed_ of objects, units (then in rendering_unit_list_) and techniques
  technique,   \* RenderingUnit::technique_
  pend, cur,   \* pending_ and current_ of a technique; Nil in pend is "not changed"
  prog,        \* GlProgram
  attrP, attrC,  \* pending_ and current_ attribute of a GlVertexArray: its buffer
  buf,         \* GlBuffer
  proxy,       \* proxy_ of each thing: the session it was made in, 0 is nullopt
  peer         \* what the peer of the session has been sent

clientVars == <<stage, client, owner, app, committed, technique, pend, cur,
                attrP, attrC>>
vars == <<session, sessions, clientVars, pos, prog, buf, proxy, peer>>

Binding == [program      : Programs \cup {Nil},
            vertexArray  : VertexArrays \cup {Nil},
            draw         : Draws \cup {Nil}]
NoBinding == [program |-> Nil, vertexArray |-> Nil, draw |-> Nil]

(* pShaders, pLink: pending_; shaders, shouldLink, linked: current_.       *)
(* linkedWith is history: the shaders attached when the client linked.     *)
Program == [pShaders : SUBSET Shaders, pLink : BOOLEAN,
            shaders : SUBSET Shaders, shouldLink : BOOLEAN, linked : BOOLEAN,
            linkedWith : SUBSET Shaders]
NewProgram == [pShaders |-> {}, pLink |-> FALSE, shaders |-> {},
               shouldLink |-> FALSE, linked |-> FALSE, linkedWith |-> {}]

(* pData is pending_.data (0: no resource linked); data 0: has_data() is   *)
(* false.  data_damaged of a new GlBuffer is not initialised.              *)
Buffer == [pData : 0..MaxVersion, data : 0..MaxVersion, damaged : BOOLEAN]
NewBuffer(d) == [pData |-> 0, data |-> 0, damaged |-> d]

(* data is Nil for a buffer whose content was never sent                   *)
Peer == [pos : [Objects -> Positions \cup {Nil}],
         bind : [Techniques -> Binding],
         shaders : [Programs -> SUBSET Shaders],
         attr : [VertexArrays -> Buffers \cup {Nil}],
         data : [Buffers -> 0..MaxVersion \cup {Nil}]]
EmptyPeer == [pos |-> [o \in Objects |-> Nil],
              bind |-> [t \in Techniques |-> NoBinding],
              shaders |-> [p \in Programs |-> {}],
              attr |-> [v \in VertexArrays |-> Nil],
              data |-> [b \in Buffers |-> Nil]]

TypeOK ==
  /\ session \in 0..MaxSessions
  /\ sessions \in 0..MaxSessions
  /\ stage \in [Things -> {"unborn", "live", "gone"}]
  /\ client \in {"running", "failed", "gone"}
  /\ owner \in [Units \cup Techniques -> Objects \cup Units \cup {Nil}]
  /\ app \in [Objects -> BOOLEAN]
  /\ pos \in [Objects -> Positions]
  /\ committed \in [Nodes -> BOOLEAN]
  /\ technique \in [Units -> Techniques \cup {Nil}]
  /\ pend \in [Techniques -> Binding]
  /\ cur \in [Techniques -> Binding]
  /\ prog \in [Programs -> Program]
  /\ attrP \in [VertexArrays -> Buffers \cup {Nil}]
  /\ attrC \in [VertexArrays -> Buffers \cup {Nil}]
  /\ buf \in [Buffers -> Buffer]
  /\ proxy \in [Things -> 0..MaxSessions]
  /\ peer \in Peer

Init ==
  /\ session = 0 /\ sessions = 0
  /\ stage = [x \in Things |-> IF x \in Created THEN "live" ELSE "unborn"]
  /\ client = "running"
  /\ owner = [x \in Units \cup Techniques |-> Nil]
  /\ app = [o \in Objects |-> FALSE]
  /\ pos = [o \in Objects |-> Start]
  /\ committed = [x \in Nodes |-> FALSE]
  /\ technique = [u \in Units |-> Nil]
  /\ pend = [t \in Techniques |-> NoBinding]
  /\ cur = [t \in Techniques |-> NoBinding]
  /\ prog = [p \in Programs |-> NewProgram]
  /\ attrP = [v \in VertexArrays |-> Nil]
  /\ attrC = [v \in VertexArrays |-> Nil]
  /\ buf \in {f \in [Buffers -> {NewBuffer(d) : d \in BOOLEAN}] :
               \A b \in Buffers \ Created : f[b] = NewBuffer(FALSE)}
  /\ proxy = [x \in Things |-> 0]
  /\ peer = EmptyPeer

Live(x) == stage[x] = "live"

----------------------------------------------------------------------------
(* sync(): what is sent to the peer.  Evaluated in a step that has already *)
(* fixed the new tree (primed); progC and bufC are programs and buffers    *)
(* after the commit, and pend still tells what this commit changed, which  *)
(* is what the *_changed flags of current_ hold while sync() reads them.   *)

ShownOf(O) == {o \in O : app[o]}
UnitsShown(O) == {u \in Units : Live(u) /\ committed'[u] /\ owner[u] \in ShownOf(O)}
TechniquesShown(O) ==
  {t \in Techniques : \E u \in UnitsShown(O) : technique'[u] = t}
ProgramsShown(O) ==
  {p \in Programs : Live(p) /\ \E t \in TechniquesShown(O) : cur'[t].program = p}
ShadersShown(O, progC) ==
  {s \in Shaders : Live(s) /\ \E p \in ProgramsShown(O) : s \in progC[p].shaders}
VertexArraysShown(O) ==
  {v \in VertexArrays :
     Live(v) /\ \E t \in TechniquesShown(O) : cur'[t].vertexArray = v}
BuffersShown(O) ==
  {b \in Buffers : Live(b) /\ \/ \E v \in VertexArraysShown(O) : attrC'[v] = b
                              \/ \E t \in TechniquesShown(O) : cur'[t].draw = b}

(* GlProgram::sync: attach what is left of the shaders, and link           *)
ProgramsSent(O, force, progC) ==
  {p \in ProgramsShown(O) : force \/ progC[p].shouldLink}

(* GlBuffer::sync; the length sent for a buffer that never had data is not *)
(* initialised, which version 0 at the peer stands for.                    *)
(* Slip: force_sync is forgotten.                                          *)
DamagedBuffersSent(O, force, bufC) == {b \in BuffersShown(O) : bufC[b].damaged}
BuffersSent(O, force, bufC) ==
  {b \in BuffersShown(O) : force \/ bufC[b].damaged}

(* GlVertexArray::sync; commit() clears the changed flags of a copy, so an *)
(* attribute that was ever set is sent by every sync.                      *)
VertexArraysSent(O) ==
  {v \in VertexArraysShown(O) : attrC'[v] \in BuffersShown(O)}

(* GlBaseTechnique::sync: each binding is sent when forced or changed, and *)
(* only if what it refers to is still there                                *)
SyncTechnique(O, force, t) ==
  LET now == cur'[t]
      sends(there, changed) == t \in TechniquesShown(O) /\ there /\ (force \/ changed)
  IN [program |-> IF sends(now.program \in ProgramsShown(O), pend[t].program # Nil)
                  THEN now.program ELSE peer.bind[t].program,
      vertexArray |->
        IF sends(now.vertexArray \in VertexArraysShown(O), pend[t].vertexArray # Nil)
        THEN now.vertexArray ELSE peer.bind[t].vertexArray,
      draw |-> IF sends(now.draw \in BuffersShown(O) \cup {Arrays}, pend[t].draw # Nil)
               THEN now.draw ELSE peer.bind[t].draw]

(* What sync() makes a proxy for, where there is none                      *)
(* Slip: a buffer gets none.                                               *)
TouchedWithoutBuffers(O, progC) ==
  ShownOf(O) \cup UnitsShown(O) \cup TechniquesShown(O) \cup ProgramsShown(O)
    \cup ShadersShown(O, progC) \cup VertexArraysShown(O)
Touched(O, progC) == TouchedWithoutBuffers(O, progC) \cup BuffersShown(O)

(* VirtualObject::sync of the objects in O: those without an app return    *)
(* early                                                                   *)
Sync(O, force, progC, bufC) ==
  /\ proxy' = [x \in Things |->
        IF x \in Touched(O, progC) /\ proxy[x] = 0 THEN session' ELSE proxy[x]]
  /\ prog' = [p \in Programs |->
        IF p \in ProgramsSent(O, force, progC)
        THEN [progC[p] EXCEPT !.shouldLink = FALSE] ELSE progC[p]]
  /\ buf' = [b \in Buffers |->
        IF b \in BuffersSent(O, force, bufC)
        THEN [bufC[b] EXCEPT !.damaged = FALSE] ELSE bufC[b]]
  /\ peer' =
       [pos |-> [o \in Objects |-> IF o \in ShownOf(O) THEN pos'[o] ELSE peer.pos[o]],
        bind |-> [t \in Techniques |-> SyncTechnique(O, force, t)],
        shaders |-> [p \in Programs |->
          IF p \in ProgramsSent(O, force, progC)
          THEN peer.shaders[p] \cup {s \in progC[p].shaders : Live(s)}
          ELSE peer.shaders[p]],
        attr |-> [v \in VertexArrays |->
          IF v \in VertexArraysSent(O) THEN attrC'[v] ELSE peer.attr[v]],
        data |-> [b \in Buffers |->
          IF b \in BuffersSent(O, force, bufC) THEN bufC[b].data ELSE peer.data[b]]]

----------------------------------------------------------------------------
(* VirtualObject::commit                                                   *)

UnitsOf(o) == {u \in Units : Live(u) /\ owner[u] = o}
TechniquesOf(o) == {t \in Techniques : Live(t) /\ owner[t] \in UnitsOf(o)}

(* GlBaseTechnique::commit *)
CommitTechnique(t) ==
  [program |-> IF pend[t].program # Nil THEN pend[t].program ELSE cur[t].program,
   vertexArray |-> IF pend[t].vertexArray # Nil
                   THEN pend[t].vertexArray ELSE cur[t].vertexArray,
   draw |-> IF pend[t].draw # Nil THEN pend[t].draw ELSE cur[t].draw]

Relink(p) == prog[p].pLink /\ prog[p].linked

(* GlProgram::commit; relinking is a protocol error *)
CommitProgram(p) ==
  LET attached == prog[p].shaders \cup prog[p].pShaders IN
  IF Relink(p) THEN prog[p]
  ELSE [pShaders |-> {}, pLink |-> FALSE, shaders |-> attached,
        shouldLink |-> prog[p].shouldLink \/ prog[p].pLink,
        linked |-> prog[p].linked \/ prog[p].pLink,
        linkedWith |-> IF prog[p].pLink THEN attached ELSE prog[p].linkedWith]

(* GlBuffer::commit: copy the pending shm buffer and release it *)
(* Slips: the copy is appended to the data; data_damaged is not set, or    *)
(* only for the first data.                                                *)
CommitBufferAppending(b) ==
  IF buf[b].pData = 0 THEN buf[b]
  ELSE [pData |-> 0, data |-> buf[b].data + buf[b].pData, damaged |-> TRUE]
CommitBufferUndamaged(b) ==
  IF buf[b].pData = 0 THEN buf[b]
  ELSE [pData |-> 0, data |-> buf[b].pData, damaged |-> buf[b].damaged]
CommitBufferDamagedOnce(b) ==
  IF buf[b].pData = 0 THEN buf[b]
  ELSE [pData |-> 0, data |-> buf[b].pData, damaged |-> buf[b].damaged \/ buf[b].data = 0]
CommitBuffer(b) ==
  IF buf[b].pData = 0 THEN buf[b]
  ELSE [pData |-> 0, data |-> buf[b].pData, damaged |-> TRUE]

(* The techniques a commit gives to their unit: the first one of each unit *)
(* that has none (set_technique refuses the others with a protocol error). *)
FirstCommits(o) == {t \in TechniquesOf(o) : ~committed[t]}
GivenTo(o, given) ==
  \A u \in UnitsOf(o) :
    LET new == {t \in FirstCommits(o) : owner[t] = u} IN
    IF technique[u] = Nil /\ new # {}
    THEN given[u] \in new ELSE given[u] = technique[u]

(* the buffers of the vertex arrays V, and those new draw calls use        *)
(* Slip: the latter are left out.                                          *)
AttributeBuffers(V, T) == {b \in Buffers : Live(b) /\ \E v \in V : attrP[v] = b}
BuffersToCommit(V, T) ==
  AttributeBuffers(V, T) \cup
    {b \in Buffers : Live(b) /\ \E t \in T : pend[t].draw = b}

CommitTree(o, given) ==
  LET U == UnitsOf(o)
      T == TechniquesOf(o)
      P == {p \in Programs : Live(p) /\ \E t \in T : CommitTechnique(t).program = p}
      V == {v \in VertexArrays :
              Live(v) /\ \E t \in T : CommitTechnique(t).vertexArray = v}
      B == BuffersToCommit(V, T)
      progC == [p \in Programs |-> IF p \in P THEN CommitProgram(p) ELSE prog[p]]
      bufC  == [b \in Buffers |-> IF b \in B THEN CommitBuffer(b) ELSE buf[b]]
  IN /\ UNCHANGED <<session, sessions, stage, owner, app, attrP>>
     /\ committed' = [x \in Nodes |-> committed[x] \/ x \in {o} \cup U \cup T]
     /\ technique' = given
     /\ cur' = [t \in Techniques |-> IF t \in T THEN CommitTechnique(t) ELSE cur[t]]
     /\ pend' = [t \in Techniques |-> IF t \in T THEN NoBinding ELSE pend[t]]
     /\ attrC' = [v \in VertexArrays |-> IF v \in V THEN attrP[v] ELSE attrC[v]]
     /\ client' = IF \/ \E p \in P : Relink(p)
                     \/ \E t \in FirstCommits(o) : given[owner[t]] # t
                  THEN "failed" ELSE client
     /\ IF session = 0
        THEN /\ prog' = progC /\ buf' = bufC
             /\ UNCHANGED <<proxy, peer>>
        ELSE Sync({o}, FALSE, progC, bufC)

Commit(o) == \E given \in [Units -> Techniques \cup {Nil}] :
  /\ \A u \in Units \ UnitsOf(o) : given[u] = technique[u]
  /\ GivenTo(o, given)
  /\ CommitTree(o, given)

CommitObject(o) ==
  /\ client = "running" /\ Live(o)
  /\ UNCHANGED pos
  /\ Commit(o)

(* BoundedApp::move, called by the seat while the user drags the app: it   *)
(* commits the object, whatever the client has pending.  The position is   *)
(* unchanged when the app dragged is an earlier one of the object.         *)
MoveApp(o) ==
  /\ client # "gone" /\ Live(o) /\ app[o]
  /\ \E p \in Positions : pos' = [pos EXCEPT ![o] = p]
  /\ Commit(o)

----------------------------------------------------------------------------
(* Client requests                                                         *)

Create(x) ==
  /\ client = "running" /\ stage[x] = "unborn"
  /\ stage' = [stage EXCEPT ![x] = "live"]

CreateObject(o) ==
  /\ Create(o)
  /\ UNCHANGED <<session, sessions, client, owner, app, committed, technique, pend,
                 cur, attrP, attrC, pos, prog, buf, proxy, peer>>

CreateUnit(u, o) ==
  /\ Live(o) /\ Create(u)
  /\ owner' = [owner EXCEPT ![u] = o]
  /\ UNCHANGED <<session, sessions, client, app, committed, technique, pend, cur,
                 attrP, attrC, pos, prog, buf, proxy, peer>>

CreateTechnique(t, u) ==
  /\ Live(u) /\ Create(t)
  /\ owner' = [owner EXCEPT ![t] = u]
  /\ UNCHANGED <<session, sessions, client, app, committed, technique, pend, cur,
                 attrP, attrC, pos, prog, buf, proxy, peer>>

CreateResource(r) ==
  /\ Create(r)
  /\ IF r \in Buffers
     THEN \E d \in BOOLEAN : buf' = [buf EXCEPT ![r] = NewBuffer(d)]
     ELSE UNCHANGED buf
  /\ UNCHANGED <<session, sessions, client, owner, app, committed, technique, pend,
                 cur, attrP, attrC, pos, prog, proxy, peer>>

(* a second app of the same object takes the place of the first            *)
GetBounded(o) ==
  /\ client = "running" /\ Live(o)
  /\ app' = [app EXCEPT ![o] = TRUE]
  /\ pos' = [pos EXCEPT ![o] = Start]
  /\ UNCHANGED <<session, sessions, stage, client, owner, committed, technique, pend,
                 cur, attrP, attrC, prog, buf, proxy, peer>>

SetPending(t, binding) ==
  /\ client = "running" /\ Live(t)
  /\ pend' = [pend EXCEPT ![t] = binding]
  /\ UNCHANGED <<session, sessions, stage, client, owner, app, committed, technique,
                 cur, attrP, attrC, pos, prog, buf, proxy, peer>>

BindProgram(t, p) ==
  Live(p) /\ SetPending(t, [pend[t] EXCEPT !.program = p])
BindVertexArray(t, v) ==
  Live(v) /\ SetPending(t, [pend[t] EXCEPT !.vertexArray = v])
DrawArrays(t) == SetPending(t, [pend[t] EXCEPT !.draw = Arrays])
DrawElements(t, b) ==
  Live(b) /\ SetPending(t, [pend[t] EXCEPT !.draw = b])

SetProgram(p, new) ==
  /\ client = "running" /\ Live(p)
  /\ prog' = [prog EXCEPT ![p] = new]
  /\ UNCHANGED <<session, sessions, clientVars, pos, buf, proxy, peer>>

AttachShader(p, s) ==
  Live(s) /\ SetProgram(p, [prog[p] EXCEPT !.pShaders = @ \cup {s}])
LinkProgram(p) == SetProgram(p, [prog[p] EXCEPT !.pLink = TRUE])

VertexAttribPointer(v, b) ==
  /\ client = "running" /\ Live(v) /\ Live(b)
  /\ attrP' = [attrP EXCEPT ![v] = b]
  /\ UNCHANGED <<session, sessions, stage, client, owner, app, committed, technique,
                 pend, cur, attrC, pos, prog, buf, proxy, peer>>

(* GlBuffer::update_pending_data, or (k = 0) the WeakResource losing its shm buffer *)
BufferData(b, k) ==
  /\ client = "running" /\ Live(b)
  /\ buf' = [buf EXCEPT ![b].pData = k]
  /\ UNCHANGED <<session, sessions, clientVars, pos, prog, proxy, peer>>

(* Destroying a resource expires every WeakPtr to it and destroys its      *)
(* proxy, and with it the remote object                                    *)
DestroyResource(r) ==
  /\ client = "running" /\ Live(r)
  /\ stage' = [stage EXCEPT ![r] = "gone"]
  /\ proxy' = [proxy EXCEPT ![r] = 0]
  /\ prog' = [p \in Programs |-> IF p = r THEN NewProgram ELSE prog[p]]
  /\ buf' = [b \in Buffers |-> IF b = r THEN NewBuffer(FALSE) ELSE buf[b]]
  /\ attrP' = [v \in VertexArrays |-> IF v = r THEN Nil ELSE attrP[v]]
  /\ attrC' = [v \in VertexArrays |-> IF v = r THEN Nil ELSE attrC[v]]
  /\ peer' = [peer EXCEPT
       !.shaders = [p \in Programs |-> IF p = r THEN {} ELSE @[p]],
       !.attr = [v \in VertexArrays |-> IF v = r THEN Nil ELSE @[v]],
       !.data = [b \in Buffers |-> IF b = r THEN Nil ELSE @[b]]]
  /\ UNCHANGED <<session, sessions, client, owner, app, committed, technique, pend,
                 cur, pos>>

(* The nodes in D are deleted, each with its proxy                         *)
DestroyNodes(D) ==
  /\ client = "running"
  /\ stage' = [x \in Things |-> IF x \in D THEN "gone" ELSE stage[x]]
  /\ proxy' = [x \in Things |-> IF x \in D THEN 0 ELSE proxy[x]]
  /\ owner' = [x \in Units \cup Techniques |-> IF x \in D THEN Nil ELSE owner[x]]
  /\ app' = [o \in Objects |-> app[o] /\ o \notin D]
  /\ pos' = [o \in Objects |-> IF o \in D THEN Start ELSE pos[o]]
  /\ committed' = [x \in Nodes |-> committed[x] /\ x \notin D]
  /\ pend' = [t \in Techniques |-> IF t \in D THEN NoBinding ELSE pend[t]]
  /\ cur' = [t \in Techniques |-> IF t \in D THEN NoBinding ELSE cur[t]]
  /\ peer' = [peer EXCEPT
       !.pos = [o \in Objects |-> IF o \in D THEN Nil ELSE @[o]],
       !.bind = [t \in Techniques |-> IF t \in D THEN NoBinding ELSE @[t]]]
  /\ UNCHANGED <<session, sessions, client, attrP, attrC, prog, buf>>

(* ~GlBaseTechnique empties its unit's technique_, whichever technique was *)
(* there.  Of a technique whose unit is gone this is undefined behaviour   *)
(* (the module ResourceTree), and so it is of a unit whose object is gone. *)
DestroyTechnique(t) ==
  /\ Live(t) /\ Live(owner[t])
  /\ technique' = [technique EXCEPT ![owner[t]] = Nil]
  /\ DestroyNodes({t})

(* ~RenderingUnit deletes the technique the unit has                       *)
WithTechniques(U) == U \cup {t \in Techniques : \E u \in U : technique[u] = t}
WithoutTechniques(U) == [u \in Units |-> IF u \in U THEN Nil ELSE technique[u]]

DestroyUnit(u) ==
  /\ Live(u) /\ Live(owner[u])
  /\ technique' = WithoutTechniques({u})
  /\ DestroyNodes(WithTechniques({u}))

(* ~VirtualObject deletes its app and the units that were ever committed   *)
DestroyObject(o) ==
  LET U == {u \in UnitsOf(o) : committed[u]} IN
  /\ Live(o)
  /\ technique' = WithoutTechniques(U)
  /\ DestroyNodes({o} \cup WithTechniques(U))

(* The client disconnects, or libwayland kills it after a protocol error:  *)
(* all its resources are destroyed                                         *)
ClientGone ==
  /\ client # "gone"
  /\ client' = "gone"
  /\ stage' = [x \in Things |-> "gone"]
  /\ proxy' = [x \in Things |-> 0]
  /\ owner' = [x \in Units \cup Techniques |-> Nil]
  /\ app' = [o \in Objects |-> FALSE]
  /\ pos' = [o \in Objects |-> Start]
  /\ committed' = [x \in Nodes |-> FALSE]
  /\ technique' = [u \in Units |-> Nil]
  /\ pend' = [t \in Techniques |-> NoBinding]
  /\ cur' = [t \in Techniques |-> NoBinding]
  /\ prog' = [p \in Programs |-> NewProgram]
  /\ attrP' = [v \in VertexArrays |-> Nil]
  /\ attrC' = [v \in VertexArrays |-> Nil]
  /\ buf' = [b \in Buffers |-> NewBuffer(FALSE)]
  /\ peer' = EmptyPeer
  /\ UNCHANGED <<session, sessions>>

----------------------------------------------------------------------------
(* The session                                                             *)

(* Remote's peer-discover handler, when Connect succeeds, and the          *)
(* session_established handler of every VirtualObject                      *)
EstablishSession ==
  /\ session = 0 /\ sessions < MaxSessions
  /\ sessions' = sessions + 1
  /\ session' = sessions + 1
  /\ UNCHANGED <<clientVars, pos>>
  /\ Sync({o \in Objects : Live(o) /\ committed[o]}, TRUE, prog, buf)

(* Remote::disconnect, and the session_disconnected handler of everything  *)
(* that has a proxy                                                        *)
(* Slip: GlBuffer has no such handler.                                     *)
DisconnectKeepingBuffers ==
  /\ session # 0
  /\ session' = 0
  /\ proxy' = [x \in Things |-> IF x \in Buffers THEN proxy[x] ELSE 0]
  /\ peer' = EmptyPeer
  /\ UNCHANGED <<sessions, clientVars, pos, prog, buf>>

DisconnectSession ==
  /\ session # 0
  /\ session' = 0
  /\ proxy' = [x \in Things |-> 0]
  /\ peer' = EmptyPeer
  /\ UNCHANGED <<sessions, clientVars, pos, prog, buf>>

----------------------------------------------------------------------------
ClientStep ==
  \/ \E o \in Objects :
       CreateObject(o) \/ GetBounded(o) \/ CommitObject(o) \/ DestroyObject(o)
  \/ \E u \in Units : DestroyUnit(u) \/ \E o \in Objects : CreateUnit(u, o)
  \/ \E t \in Techniques, u \in Units : CreateTechnique(t, u)
  \/ \E r \in Resources : CreateResource(r) \/ DestroyResource(r)
  \/ \E t \in Techniques, p \in Programs : BindProgram(t, p)
  \/ \E t \in Techniques, v \in VertexArrays : BindVertexArray(t, v)
  \/ \E t \in Techniques : DrawArrays(t) \/ DestroyTechnique(t)
  \/ \E t \in Techniques, b \in Buffers : DrawElements(t, b)
  \/ \E p \in Programs, s \in Shaders : AttachShader(p, s)
  \/ \E p \in Programs : LinkProgram(p)
  \/ \E v \in VertexArrays, b \in Buffers : VertexAttribPointer(v, b)
  \/ \E b \in Buffers, k \in 0..MaxVersion : BufferData(b, k)

SystemStep ==
  \/ \E o \in Objects : MoveApp(o)
  \/ EstablishSession
  \/ DisconnectSession
  \/ ClientGone

Next == ClientStep \/ SystemStep
Spec == Init /\ [][Next]_vars

----------------------------------------------------------------------------
(* A proxy is only ever one of the session that is up now, and belongs to  *)
(* something that still exists: no call goes to a channel that is gone     *)
ProxyOfThisSession ==
  \A x \in Things : proxy[x] # 0 => proxy[x] = session /\ Live(x)

(* what the peer was told a technique refers to                            *)
PeerRefs(t) ==
  {peer.bind[t].program, peer.bind[t].vertexArray, peer.bind[t].draw} \ {Nil, Arrays}

(* What a proxy is created under, or what a call to it names by            *)
(* remote_id(), has a proxy of its own: the assertions in remote_id() hold *)
RemoteIdsExist ==
  /\ \A x \in Units \cup Techniques :
       proxy[x] # 0 /\ Live(owner[x]) => proxy[owner[x]] # 0
  /\ \A t \in Techniques : \A x \in PeerRefs(t) : Live(x) => proxy[x] # 0
  /\ \A v \in VertexArrays : peer.attr[v] # Nil /\ Live(peer.attr[v]) => proxy[peer.attr[v]] # 0

(* A buffer that is not marked damaged is not out of date at the peer: the *)
(* peer has its current content or none of it at all                       *)
UndamagedNotStale ==
  \A b \in Buffers : peer.data[b] # Nil /\ ~buf[b].damaged => peer.data[b] = buf[b].data

=============================================================================

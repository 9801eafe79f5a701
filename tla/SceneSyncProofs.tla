--------------------------- MODULE SceneSyncProofs ---------------------------
(***************************************************************************)
(* Proofs about SceneSync, for any sets of ids, any number of sessions and *)
(* clients that follow no discipline at all.                               *)
(*                                                                         *)
(* TypeOK is inductive.  The other invariants are not: what sync() sends   *)
(* depends on the tree, so IInv adds to them that a unit's technique is    *)
(* its own and that only things created have proxies, references or data.  *)
(***************************************************************************)
EXTENDS SceneSync, TLAPS

(* The records and functions sync() sends and leaves have their types      *)
LEMMA SyncTypes ==
  ASSUME TypeOK, NEW O \in SUBSET Objects, NEW force \in BOOLEAN,
         NEW progC \in [Programs -> Program], NEW bufC \in [Buffers -> Buffer],
         cur' \in [Techniques -> Binding],
         attrC' \in [VertexArrays -> Buffers \cup {Nil}],
         pos' \in [Objects -> Positions],
         session' \in 0..MaxSessions,
         Sync(O, force, progC, bufC)
  PROVE  /\ prog' \in [Programs -> Program]
         /\ buf' \in [Buffers -> Buffer]
         /\ proxy' \in [Things -> 0..MaxSessions]
         /\ peer' \in Peer
<1>1. prog' \in [Programs -> Program]
  <2>1. \A p \in Programs :
          progC[p] \in Program /\ [progC[p] EXCEPT !.shouldLink = FALSE] \in Program
    BY DEF Program
  <2> QED BY <2>1 DEF Sync
<1>2. buf' \in [Buffers -> Buffer]
  BY DEF Sync, Buffer
<1>3. proxy' \in [Things -> 0..MaxSessions]
  BY DEF Sync, TypeOK
<1>4. peer' \in Peer
  <2>1. \A t \in Techniques : SyncTechnique(O, force, t) \in Binding
    BY DEF SyncTechnique, Binding, TypeOK, Peer, Draws
  <2>2. \A v \in VertexArraysSent(O) : attrC'[v] \in Buffers \cup {Nil}
    BY DEF VertexArraysSent, VertexArraysShown
  <2>3. \A p \in Programs : {s \in progC[p].shaders : Live(s)} \subseteq Shaders
    BY DEF Program
  <2>4. \A b \in Buffers : bufC[b].data \in 0..MaxVersion
    BY DEF Buffer
  <2>5. peer \in Peer
    BY DEF TypeOK
  <2> QED BY <2>1, <2>2, <2>3, <2>4, <2>5 DEF Sync, Peer
<1> QED BY <1>1, <1>2, <1>3, <1>4

(* What a commit makes of a binding, a program and a buffer has its type   *)
LEMMA CommitTypes ==
  ASSUME TypeOK
  PROVE  /\ \A t \in Techniques : CommitTechnique(t) \in Binding
         /\ \A p \in Programs : CommitProgram(p) \in Program
         /\ \A b \in Buffers : CommitBuffer(b) \in Buffer
<1>1. ASSUME NEW t \in Techniques PROVE CommitTechnique(t) \in Binding
  BY DEF TypeOK, CommitTechnique, Binding
<1>2. ASSUME NEW p \in Programs PROVE CommitProgram(p) \in Program
  <2>1. prog[p] \in Program
    BY DEF TypeOK
  <2>2. CASE Relink(p)
    BY <2>1, <2>2 DEF CommitProgram
  <2>3. CASE ~Relink(p)
    <3>1. prog[p].shaders \cup prog[p].pShaders \in SUBSET Shaders
      BY <2>1 DEF Program
    <3>2. /\ prog[p].shouldLink \in BOOLEAN /\ prog[p].linked \in BOOLEAN
          /\ prog[p].pLink \in BOOLEAN /\ prog[p].linkedWith \in SUBSET Shaders
      BY <2>1 DEF Program
    <3> DEFINE should == prog[p].shouldLink \/ prog[p].pLink
               linked == prog[p].linked \/ prog[p].pLink
               attached == prog[p].shaders \cup prog[p].pShaders
               with == IF prog[p].pLink THEN attached ELSE prog[p].linkedWith
    <3>3. should \in BOOLEAN /\ linked \in BOOLEAN
      OBVIOUS
    <3>4. with \in SUBSET Shaders
      BY <3>1, <3>2
    <3>5. CommitProgram(p) =
            [pShaders |-> {}, pLink |-> FALSE, shaders |-> attached,
             shouldLink |-> should, linked |-> linked, linkedWith |-> with]
      BY <2>3 DEF CommitProgram
    <3>6. attached \in SUBSET Shaders
      BY <3>1
    <3>7. \A sh, li \in BOOLEAN, at, wi \in SUBSET Shaders :
            [pShaders |-> {}, pLink |-> FALSE, shaders |-> at,
             shouldLink |-> sh, linked |-> li, linkedWith |-> wi] \in Program
      BY DEF Program
    <3> HIDE DEF should, linked, attached, with
    <3> QED BY <3>3, <3>4, <3>5, <3>6, <3>7
  <2> QED BY <2>2, <2>3
<1>3. ASSUME NEW b \in Buffers PROVE CommitBuffer(b) \in Buffer
  <2>1. buf[b] \in Buffer
    BY DEF TypeOK
  <2> QED BY <2>1, SceneSyncAssumption DEF CommitBuffer, Buffer
<1> QED BY <1>1, <1>2, <1>3

(* Commit and sync keep the types, whether or not a session is up          *)
LEMMA CommitTypeOK ==
  ASSUME TypeOK, NEW o \in Objects, Commit(o), pos' \in [Objects -> Positions]
  PROVE  TypeOK'
<1>1. PICK given \in [Units -> Techniques \cup {Nil}] : CommitTree(o, given)
  BY DEF Commit
<1> DEFINE T == TechniquesOf(o)
           P == {p \in Programs : Live(p) /\ \E t \in T : CommitTechnique(t).program = p}
           V == {v \in VertexArrays :
                   Live(v) /\ \E t \in T : CommitTechnique(t).vertexArray = v}
           B == BuffersToCommit(V, T)
           progC == [p \in Programs |-> IF p \in P THEN CommitProgram(p) ELSE prog[p]]
           bufC  == [b \in Buffers |-> IF b \in B THEN CommitBuffer(b) ELSE buf[b]]
<1>2. progC \in [Programs -> Program] /\ bufC \in [Buffers -> Buffer]
  BY CommitTypes DEF TypeOK
<1>3. cur' \in [Techniques -> Binding] /\ pend' \in [Techniques -> Binding]
  BY <1>1, CommitTypes DEF CommitTree, TypeOK, NoBinding, Binding
<1>4. attrC' \in [VertexArrays -> Buffers \cup {Nil}]
  BY <1>1 DEF CommitTree, TypeOK
<1>5. UNCHANGED <<session, sessions, stage, owner, app, attrP>>
  BY <1>1 DEF CommitTree
<1>6. committed' \in [Nodes -> BOOLEAN] /\ technique' \in [Units -> Techniques \cup {Nil}]
  BY <1>1 DEF CommitTree, TypeOK
<1>7. client' \in {"running", "failed", "gone"}
  BY <1>1 DEF CommitTree, TypeOK
<1>8. /\ prog' \in [Programs -> Program]
      /\ buf' \in [Buffers -> Buffer]
      /\ proxy' \in [Things -> 0..MaxSessions]
      /\ peer' \in Peer
  <2>1. CASE session = 0
    <3>1. prog' = progC /\ buf' = bufC /\ UNCHANGED <<proxy, peer>>
      BY <1>1, <2>1 DEF CommitTree
    <3> QED BY <3>1, <1>2 DEF TypeOK
  <2>2. CASE session # 0
    <3>1. Sync({o}, FALSE, progC, bufC)
      BY <1>1, <2>2 DEF CommitTree
    <3>2. session' \in 0..MaxSessions
      BY <1>5 DEF TypeOK
    <3> HIDE DEF progC, bufC
    <3> QED BY <3>1, <3>2, <1>2, <1>3, <1>4, SyncTypes
  <2> QED BY <2>1, <2>2
<1> QED BY <1>3, <1>4, <1>5, <1>6, <1>7, <1>8 DEF TypeOK

(* Deleting nodes keeps the types                                          *)
LEMMA DestroyNodesTypeOK ==
  ASSUME TypeOK, NEW D, DestroyNodes(D), technique' \in [Units -> Techniques \cup {Nil}]
  PROVE  TypeOK'
<1> USE SceneSyncAssumption
<1>1. /\ stage' \in [Things -> {"unborn", "live", "gone"}]
      /\ client' \in {"running", "failed", "gone"}
      /\ owner' \in [Units \cup Techniques -> Objects \cup Units \cup {Nil}]
      /\ pos' \in [Objects -> Positions]
      /\ attrP' \in [VertexArrays -> Buffers \cup {Nil}]
      /\ attrC' \in [VertexArrays -> Buffers \cup {Nil}]
  BY DEF DestroyNodes, TypeOK
<1>2. app' \in [Objects -> BOOLEAN] /\ committed' \in [Nodes -> BOOLEAN]
  BY DEF DestroyNodes, TypeOK
<1>3. proxy' \in [Things -> 0..MaxSessions]
  <2>1. proxy \in [Things -> 0..MaxSessions] /\ 0 \in 0..MaxSessions
    BY DEF TypeOK
  <2> QED BY <2>1 DEF DestroyNodes
<1>4. pend' \in [Techniques -> Binding] /\ cur' \in [Techniques -> Binding]
  <2>1. NoBinding \in Binding
    BY DEF NoBinding, Binding
  <2> QED BY <2>1 DEF DestroyNodes, TypeOK
<1>5. peer' \in Peer
  <2>1. NoBinding \in Binding
    BY DEF NoBinding, Binding
  <2> QED BY <2>1 DEF DestroyNodes, TypeOK, Peer
<1>6. UNCHANGED <<session, sessions, prog, buf>>
  BY DEF DestroyNodes
<1> QED BY <1>1, <1>2, <1>3, <1>4, <1>5, <1>6 DEF TypeOK

(* Every variable keeps its type, in every behaviour                       *)
LEMMA TypeStep == TypeOK /\ [Next]_vars => TypeOK'
<1> SUFFICES ASSUME TypeOK, [Next]_vars PROVE TypeOK'
  OBVIOUS
<1> USE SceneSyncAssumption
<1>1. ASSUME NEW o \in Objects, CreateObject(o) PROVE TypeOK'
  BY <1>1 DEF CreateObject, Create, TypeOK
<1>2. ASSUME NEW o \in Objects, GetBounded(o) PROVE TypeOK'
  BY <1>2 DEF GetBounded, TypeOK
<1>3. ASSUME NEW o \in Objects, CommitObject(o) PROVE TypeOK'
  BY <1>3, CommitTypeOK DEF CommitObject, TypeOK
<1>4. ASSUME NEW u \in Units, NEW o \in Objects, CreateUnit(u, o) PROVE TypeOK'
  BY <1>4 DEF CreateUnit, Create, TypeOK
<1>5. ASSUME NEW t \in Techniques, NEW u \in Units, CreateTechnique(t, u) PROVE TypeOK'
  BY <1>5 DEF CreateTechnique, Create, TypeOK
<1>6. ASSUME NEW r \in Resources, CreateResource(r) PROVE TypeOK'
  <2>1. buf' \in [Buffers -> Buffer]
    BY <1>6 DEF CreateResource, TypeOK, NewBuffer, Buffer
  <2> QED BY <1>6, <2>1 DEF CreateResource, Create, TypeOK
<1>7. ASSUME NEW r \in Resources, DestroyResource(r) PROVE TypeOK'
  <2>1. NewProgram \in Program /\ NewBuffer(FALSE) \in Buffer
    BY DEF NewProgram, Program, NewBuffer, Buffer
  <2>2. peer' \in Peer
    BY <1>7 DEF DestroyResource, TypeOK, Peer
  <2>3. proxy' \in [Things -> 0..MaxSessions]
    <3>1. proxy' = [proxy EXCEPT ![r] = 0] /\ proxy \in [Things -> 0..MaxSessions]
      BY <1>7 DEF DestroyResource, TypeOK
    <3>2. 0 \in 0..MaxSessions
      OBVIOUS
    <3> QED BY <3>1, <3>2
  <2> QED BY <1>7, <2>1, <2>2, <2>3 DEF DestroyResource, TypeOK
<1>8. ASSUME NEW t \in Techniques, NEW b \in Binding, SetPending(t, b) PROVE TypeOK'
  BY <1>8 DEF SetPending, TypeOK
<1>9. ASSUME NEW p \in Programs, NEW new \in Program, SetProgram(p, new) PROVE TypeOK'
  BY <1>9 DEF SetProgram, TypeOK, clientVars
<1>10. ASSUME NEW v \in VertexArrays, NEW b \in Buffers, VertexAttribPointer(v, b)
       PROVE TypeOK'
  BY <1>10 DEF VertexAttribPointer, TypeOK
<1>11. ASSUME NEW b \in Buffers, NEW k \in 0..MaxVersion, BufferData(b, k) PROVE TypeOK'
  BY <1>11 DEF BufferData, TypeOK, clientVars, Buffer
<1>12. ASSUME NEW o \in Objects, MoveApp(o) PROVE TypeOK'
  BY <1>12, CommitTypeOK DEF MoveApp, TypeOK
<1>13. ASSUME EstablishSession PROVE TypeOK'
  <2>1. session' \in 0..MaxSessions /\ sessions' \in 0..MaxSessions
    BY <1>13 DEF EstablishSession, TypeOK
  <2>2. UNCHANGED <<clientVars, pos>>
    BY <1>13 DEF EstablishSession
  <2> DEFINE O == {o \in Objects : Live(o) /\ committed[o]}
  <2>3. O \in SUBSET Objects /\ Sync(O, TRUE, prog, buf)
    BY <1>13 DEF EstablishSession
  <2>4. /\ prog' \in [Programs -> Program] /\ buf' \in [Buffers -> Buffer]
        /\ proxy' \in [Things -> 0..MaxSessions] /\ peer' \in Peer
    <3> HIDE DEF O
    <3> QED BY <2>1, <2>2, <2>3, SyncTypes DEF TypeOK, clientVars
  <2> QED BY <2>1, <2>2, <2>4 DEF TypeOK, clientVars
<1>14. ASSUME DisconnectSession \/ ClientGone PROVE TypeOK'
  <2>1. EmptyPeer \in Peer
    BY DEF EmptyPeer, Peer, NoBinding, Binding
  <2>2. CASE DisconnectSession
    BY <2>1, <2>2 DEF DisconnectSession, TypeOK, clientVars
  <2>3. CASE ClientGone
    <3>1. NewProgram \in Program /\ NewBuffer(FALSE) \in Buffer /\ NoBinding \in Binding
      BY DEF NewProgram, Program, NewBuffer, Buffer, NoBinding, Binding
    <3>2. /\ prog' \in [Programs -> Program] /\ buf' \in [Buffers -> Buffer]
          /\ peer' \in Peer
      BY <2>1, <2>3, <3>1 DEF ClientGone
    <3>6. proxy' \in [Things -> 0..MaxSessions]
      <4>1. proxy' = [x \in Things |-> 0] /\ 0 \in 0..MaxSessions
        BY <2>3 DEF ClientGone
      <4> QED BY <4>1
    <3>3. pend' \in [Techniques -> Binding] /\ cur' \in [Techniques -> Binding]
      BY <2>3, <3>1 DEF ClientGone
    <3>4. /\ stage' \in [Things -> {"unborn", "live", "gone"}]
          /\ client' \in {"running", "failed", "gone"}
          /\ owner' \in [Units \cup Techniques -> Objects \cup Units \cup {Nil}]
          /\ app' \in [Objects -> BOOLEAN] /\ pos' \in [Objects -> Positions]
          /\ committed' \in [Nodes -> BOOLEAN]
          /\ technique' \in [Units -> Techniques \cup {Nil}]
          /\ attrP' \in [VertexArrays -> Buffers \cup {Nil}]
          /\ attrC' \in [VertexArrays -> Buffers \cup {Nil}]
      BY <2>3 DEF ClientGone
    <3>5. UNCHANGED <<session, sessions>>
      BY <2>3 DEF ClientGone
    <3> QED BY <3>2, <3>3, <3>4, <3>5, <3>6 DEF TypeOK
  <2> QED BY <1>14, <2>2, <2>3
<1>15. ASSUME UNCHANGED vars PROVE TypeOK'
  BY <1>15 DEF vars, clientVars, TypeOK
<1>16. ASSUME NEW t \in Techniques,
              \/ \E p \in Programs : BindProgram(t, p)
              \/ \E v \in VertexArrays : BindVertexArray(t, v)
              \/ DrawArrays(t)
              \/ \E b \in Buffers : DrawElements(t, b)
       PROVE  TypeOK'
  <2>0. pend[t] \in Binding
    BY DEF TypeOK
  <2>1. \A p \in Programs : [pend[t] EXCEPT !.program = p] \in Binding
    BY <2>0 DEF Binding
  <2>2. \A v \in VertexArrays : [pend[t] EXCEPT !.vertexArray = v] \in Binding
    BY <2>0 DEF Binding
  <2>3. \A d \in Draws : [pend[t] EXCEPT !.draw = d] \in Binding
    BY <2>0 DEF Binding
  <2> QED BY <1>8, <1>16, <2>1, <2>2, <2>3
          DEF BindProgram, BindVertexArray, DrawArrays, DrawElements, Draws
<1>17. ASSUME NEW p \in Programs,
              LinkProgram(p) \/ \E s \in Shaders : AttachShader(p, s)
       PROVE  TypeOK'
  <2>0. prog[p] \in Program
    BY DEF TypeOK
  <2>1. \A s \in Shaders : [prog[p] EXCEPT !.pShaders = @ \cup {s}] \in Program
    BY <2>0 DEF Program
  <2>2. [prog[p] EXCEPT !.pLink = TRUE] \in Program
    BY <2>0 DEF Program
  <2> QED BY <1>9, <1>17, <2>1, <2>2 DEF LinkProgram, AttachShader
<1>18. ASSUME NEW o \in Objects, DestroyObject(o) PROVE TypeOK'
  BY <1>18, DestroyNodesTypeOK DEF DestroyObject, WithoutTechniques, TypeOK
<1>19. ASSUME NEW u \in Units, DestroyUnit(u) PROVE TypeOK'
  BY <1>19, DestroyNodesTypeOK DEF DestroyUnit, WithoutTechniques, TypeOK
<1>20. ASSUME NEW t \in Techniques, DestroyTechnique(t) PROVE TypeOK'
  BY <1>20, DestroyNodesTypeOK DEF DestroyTechnique, TypeOK
<1> QED
  BY <1>1, <1>2, <1>3, <1>4, <1>5, <1>6, <1>7, <1>10, <1>11, <1>12, <1>13, <1>14,
     <1>15, <1>16, <1>17, <1>18, <1>19, <1>20 DEF Next, ClientStep, SystemStep

LEMMA TypeInit == Init => TypeOK
<1> SUFFICES ASSUME Init PROVE TypeOK
  OBVIOUS
<1> USE SceneSyncAssumption
<1>1. EmptyPeer \in Peer /\ NoBinding \in Binding /\ NewProgram \in Program
  BY DEF EmptyPeer, Peer, NoBinding, Binding, NewProgram, Program
<1>2. \A d \in BOOLEAN : NewBuffer(d) \in Buffer
  BY DEF NewBuffer, Buffer
<1>3. buf \in [Buffers -> Buffer]
  BY <1>2 DEF Init
<1> QED BY <1>1, <1>3 DEF Init, TypeOK

THEOREM TypeCorrect == Spec => []TypeOK
<1>1. QED BY TypeInit, TypeStep, PTL DEF Spec

----------------------------------------------------------------------------
(* The invariants of SceneSync are not inductive by themselves.  That      *)
(* proxies are made only for live things and under their owners rests on   *)
(* the shape of the tree (Tree), and that no new thing is born with a      *)
(* remote reference to it on RefsBorn.                                     *)
Tree ==
  /\ \A u \in Units : technique[u] # Nil => Live(technique[u]) /\ owner[technique[u]] = u
  /\ \A x \in Units \cup Techniques : Live(x) => owner[x] # Nil
  /\ \A x \in Units \cup Techniques : owner[x] # Nil => stage[owner[x]] # "unborn"

RefsBorn ==
  /\ \A t \in Techniques : \A x \in PeerRefs(t) : stage[x] # "unborn"
  /\ \A v \in VertexArrays : peer.attr[v] # Nil => stage[peer.attr[v]] # "unborn"
  /\ \A b \in Buffers : peer.data[b] # Nil => Live(b)


(* Sync makes proxies for live things only, in the session that is up, and *)
(* keeps those there are                                                   *)
LEMMA SyncProxies ==
  ASSUME TypeOK, ProxyOfThisSession, Tree', NEW O \in SUBSET Objects, NEW force,
         NEW progC, NEW bufC, \A o \in O : Live(o), UNCHANGED <<stage, owner>>,
         session = 0 \/ session' = session, session' # 0,
         Sync(O, force, progC, bufC)
  PROVE  /\ \A x \in Touched(O, progC) : x \in Things /\ Live(x)
         /\ \A x \in Things : proxy'[x] # 0 <=> proxy[x] # 0 \/ x \in Touched(O, progC)
         /\ ProxyOfThisSession'
<1>1. ASSUME NEW x \in Touched(O, progC) PROVE x \in Things /\ Live(x)
  <2>1. CASE x \in ShownOf(O)
    BY <2>1 DEF ShownOf, Things, Nodes
  <2>2. CASE x \in UnitsShown(O)
    BY <2>2 DEF UnitsShown, Things, Nodes
  <2>3. CASE x \in TechniquesShown(O)
    <3>1. PICK u \in UnitsShown(O) : technique'[u] = x
      BY <2>3 DEF TechniquesShown
    <3>2. u \in Units /\ x \in Techniques
      BY <2>3 DEF UnitsShown, TechniquesShown
    <3>3. x # Nil
      BY <3>2, SceneSyncAssumption DEF Things, Nodes
    <3>4. Live(x)
      BY <3>1, <3>2, <3>3 DEF Tree, Live
    <3> QED BY <3>2, <3>4 DEF Things, Nodes
  <2>4. CASE x \in ProgramsShown(O)
    BY <2>4 DEF ProgramsShown, Things, Resources
  <2>5. CASE x \in ShadersShown(O, progC)
    BY <2>5 DEF ShadersShown, Things, Resources
  <2>6. CASE x \in VertexArraysShown(O)
    BY <2>6 DEF VertexArraysShown, Things, Resources
  <2>7. CASE x \in BuffersShown(O)
    BY <2>7 DEF BuffersShown, Things, Resources
  <2> QED BY <1>1, <2>1, <2>2, <2>3, <2>4, <2>5, <2>6, <2>7
          DEF Touched, TouchedWithoutBuffers
<1>2. proxy' = [x \in Things |->
                 IF x \in Touched(O, progC) /\ proxy[x] = 0 THEN session' ELSE proxy[x]]
  BY DEF Sync
<1>3. ASSUME NEW x \in Things
      PROVE  proxy'[x] # 0 <=> proxy[x] # 0 \/ x \in Touched(O, progC)
  BY <1>2
<1>4. ASSUME NEW x \in Things, proxy'[x] # 0 PROVE proxy'[x] = session' /\ Live(x)'
  <2>1. CASE proxy[x] # 0
    BY <1>2, <2>1 DEF ProxyOfThisSession, Live
  <2>2. CASE proxy[x] = 0
    BY <1>1, <1>2, <1>4, <2>2 DEF Live
  <2> QED BY <2>1, <2>2
<1> QED BY <1>1, <1>3, <1>4 DEF ProxyOfThisSession

(* After Sync, what proxies are under and what calls name has a proxy      *)
LEMMA SyncRemoteIds ==
  ASSUME TypeOK, ProxyOfThisSession, RemoteIdsExist, RefsBorn, Tree, Tree',
         NEW O \in SUBSET Objects, NEW force, NEW progC, NEW bufC,
         \A o \in O : Live(o), UNCHANGED <<stage, owner>>,
         session = 0 \/ session' = session, session' # 0,
         Sync(O, force, progC, bufC)
  PROVE  RemoteIdsExist' /\ RefsBorn'
<1>1. \A x \in Touched(O, progC) : x \in Things /\ Live(x) /\ proxy'[x] # 0
  BY SyncProxies
<1>2. \A x \in Things : proxy[x] # 0 => proxy'[x] # 0
  BY SyncProxies
<1>3. ASSUME NEW x \in Units \cup Techniques, proxy'[x] # 0, Live(owner[x])
      PROVE  proxy'[owner[x]] # 0
  <2>0. x \in Things /\ owner[x] \in Things \cup {Nil}
    BY DEF Things, Nodes, TypeOK
  <2>1. CASE proxy[x] # 0
    <3>1. Live(x) /\ proxy[owner[x]] # 0
      BY <1>3, <2>0, <2>1 DEF ProxyOfThisSession, RemoteIdsExist
    <3>2. owner[x] # Nil
      BY <3>1 DEF Tree
    <3> QED BY <1>2, <2>0, <3>1, <3>2
  <2>2. CASE x \in UnitsShown(O)
    BY <1>1, <2>2 DEF UnitsShown, Touched, TouchedWithoutBuffers
  <2>3. CASE x \in TechniquesShown(O)
    <3>1. PICK u \in UnitsShown(O) : technique'[u] = x
      BY <2>3 DEF TechniquesShown
    <3>2. u \in Units /\ x \in Techniques /\ x # Nil
      BY <2>3, SceneSyncAssumption DEF UnitsShown, TechniquesShown, Things, Nodes
    <3>3. owner[x] = u
      BY <3>1, <3>2 DEF Tree
    <3> QED BY <1>1, <3>1, <3>3 DEF Touched, TouchedWithoutBuffers
  <2> QED
    <3>1. proxy[x] # 0 \/ x \in Touched(O, progC)
      BY <1>3, <2>0, SyncProxies
    <3>2. x \notin ShownOf(O)
      BY SceneSyncAssumption DEF ShownOf
    <3>3. x \in Nodes /\ x \notin Resources
      BY SceneSyncAssumption DEF Nodes
    <3>4. /\ x \notin ProgramsShown(O) /\ x \notin ShadersShown(O, progC)
          /\ x \notin VertexArraysShown(O) /\ x \notin BuffersShown(O)
      BY <3>3 DEF ProgramsShown, ShadersShown, VertexArraysShown, BuffersShown, Resources
    <3> QED BY <2>1, <2>2, <2>3, <3>1, <3>2, <3>4 DEF Touched, TouchedWithoutBuffers
<1>4. ASSUME NEW t \in Techniques, NEW x \in PeerRefs(t)'
      PROVE  x \in PeerRefs(t) \/ x \in Touched(O, progC)
  <2>1. peer'.bind[t] = SyncTechnique(O, force, t)
    BY DEF Sync
  <2>2. PeerRefs(t)' \subseteq PeerRefs(t) \cup ProgramsShown(O) \cup VertexArraysShown(O)
                                \cup BuffersShown(O)
    BY <2>1 DEF PeerRefs, SyncTechnique
  <2> QED BY <1>4, <2>2 DEF Touched, TouchedWithoutBuffers
<1>5. ASSUME NEW t \in Techniques, NEW x \in PeerRefs(t)
      PROVE  x \in Things
  <2>1. peer.bind[t] \in Binding
    BY DEF TypeOK, Peer
  <2> QED BY <2>1, <1>5 DEF PeerRefs, Binding, Draws, Things, Resources
<1>6. ASSUME NEW v \in VertexArrays, peer'.attr[v] # Nil
      PROVE  \/ peer'.attr[v] \in Touched(O, progC)
             \/ peer'.attr[v] = peer.attr[v]
  <2>1. peer'.attr[v] = IF v \in VertexArraysSent(O) THEN attrC'[v] ELSE peer.attr[v]
    BY DEF Sync
  <2> QED BY <2>1 DEF VertexArraysSent, Touched
<1>7. ASSUME NEW v \in VertexArrays, peer.attr[v] # Nil PROVE peer.attr[v] \in Things
  BY <1>7 DEF TypeOK, Peer, Things, Resources
<1>8. ASSUME NEW b \in Buffers, peer'.data[b] # Nil PROVE Live(b)
  <2>1. peer'.data[b] = IF b \in BuffersSent(O, force, bufC) THEN bufC[b].data ELSE peer.data[b]
    BY DEF Sync
  <2> QED BY <1>8, <2>1 DEF BuffersSent, BuffersShown, RefsBorn
<1>9. RemoteIdsExist'
  <2>1. \A t \in Techniques : \A x \in PeerRefs(t)' : Live(x)' => proxy'[x] # 0
    BY <1>1, <1>2, <1>4, <1>5 DEF RemoteIdsExist, Live
  <2>2. \A v \in VertexArrays :
          peer'.attr[v] # Nil /\ Live(peer'.attr[v]) => proxy'[peer'.attr[v]] # 0
    BY <1>1, <1>2, <1>6, <1>7 DEF RemoteIdsExist
  <2> QED BY <1>3, <2>1, <2>2 DEF RemoteIdsExist, Live
<1>10. RefsBorn'
  <2>1. \A t \in Techniques : \A x \in PeerRefs(t)' : stage'[x] # "unborn"
    BY <1>1, <1>4 DEF RefsBorn, Live
  <2>2. \A v \in VertexArrays : peer'.attr[v] # Nil => stage'[peer'.attr[v]] # "unborn"
    BY <1>1, <1>6 DEF RefsBorn, Live
  <2> QED BY <1>8, <2>1, <2>2 DEF RefsBorn, Live
<1> QED BY <1>9, <1>10

(* Sync leaves no buffer undamaged and stale, if the commit before did not *)
LEMMA SyncBuffers ==
  ASSUME TypeOK, NEW O, NEW force, NEW progC, NEW bufC \in [Buffers -> Buffer],
         \A b \in Buffers :
           peer.data[b] # Nil /\ ~bufC[b].damaged => peer.data[b] = bufC[b].data,
         Sync(O, force, progC, bufC)
  PROVE  UndamagedNotStale'
<1> SUFFICES ASSUME NEW b \in Buffers, peer'.data[b] # Nil, ~buf'[b].damaged
             PROVE  peer'.data[b] = buf'[b].data
  BY DEF UndamagedNotStale
<1>1. /\ peer'.data[b] = IF b \in BuffersSent(O, force, bufC) THEN bufC[b].data ELSE peer.data[b]
      /\ buf'[b] = IF b \in BuffersSent(O, force, bufC)
                   THEN [bufC[b] EXCEPT !.damaged = FALSE] ELSE bufC[b]
  BY DEF Sync
<1>2. bufC[b] \in Buffer
  OBVIOUS
<1> QED BY <1>1, <1>2 DEF Buffer

(* The invariants of the mirror, which a commit can disturb and Sync keeps *)
Mirrored == ProxyOfThisSession /\ RemoteIdsExist /\ RefsBorn /\ UndamagedNotStale

LEMMA CommitTreeInv ==
  ASSUME TypeOK, Tree, NEW o \in Objects, Commit(o)
  PROVE  Tree' /\ UNCHANGED <<stage, owner>>
<1>1. PICK given \in [Units -> Techniques \cup {Nil}] :
        /\ \A u \in Units \ UnitsOf(o) : given[u] = technique[u]
        /\ GivenTo(o, given)
        /\ CommitTree(o, given)
  BY DEF Commit
<1>2. UNCHANGED <<stage, owner>> /\ technique' = given
  BY <1>1 DEF CommitTree
<1>3. ASSUME NEW u \in Units, given[u] # Nil PROVE Live(given[u]) /\ owner[given[u]] = u
  <2>1. CASE given[u] = technique[u]
    BY <1>3, <2>1 DEF Tree
  <2>2. CASE given[u] # technique[u]
    <3>1. given[u] \in {t \in FirstCommits(o) : owner[t] = u}
      BY <1>1, <2>2 DEF GivenTo, UnitsOf
    <3> QED BY <3>1 DEF FirstCommits, TechniquesOf
  <2> QED BY <2>1, <2>2
<1> QED BY <1>2, <1>3 DEF Tree, Live

LEMMA CommitMirrored ==
  ASSUME TypeOK, Tree, Mirrored, NEW o \in Objects, Live(o), Commit(o)
  PROVE  Mirrored'
<1>1. PICK given \in [Units -> Techniques \cup {Nil}] : CommitTree(o, given)
  BY DEF Commit
<1> DEFINE T == TechniquesOf(o)
           P == {p \in Programs : Live(p) /\ \E t \in T : CommitTechnique(t).program = p}
           V == {v \in VertexArrays :
                   Live(v) /\ \E t \in T : CommitTechnique(t).vertexArray = v}
           B == BuffersToCommit(V, T)
           progC == [p \in Programs |-> IF p \in P THEN CommitProgram(p) ELSE prog[p]]
           bufC  == [b \in Buffers |-> IF b \in B THEN CommitBuffer(b) ELSE buf[b]]
<1>2. bufC \in [Buffers -> Buffer]
  BY CommitTypes DEF TypeOK
<1>3. \A b \in Buffers :
        peer.data[b] # Nil /\ ~bufC[b].damaged => peer.data[b] = bufC[b].data
  BY DEF Mirrored, UndamagedNotStale, CommitBuffer
<1>4. Tree' /\ UNCHANGED <<stage, owner>>
  BY CommitTreeInv
<1>5. UNCHANGED session
  BY <1>1 DEF CommitTree
<1>6. CASE session = 0
  <2>1. buf' = bufC /\ UNCHANGED <<proxy, peer>>
    BY <1>1, <1>6 DEF CommitTree
  <2>2. UndamagedNotStale'
    BY <2>1, <1>3 DEF UndamagedNotStale
  <2> QED BY <2>1, <2>2, <1>4, <1>5
          DEF Mirrored, ProxyOfThisSession, RemoteIdsExist, RefsBorn, PeerRefs, Live
<1>7. CASE session # 0
  <2>1. Sync({o}, FALSE, progC, bufC)
    BY <1>1, <1>7 DEF CommitTree
  <2>5. {o} \in SUBSET Objects /\ (\A x \in {o} : Live(x)) /\ session' # 0
    BY <1>5, <1>7
  <2> HIDE DEF progC, bufC
  <2>2. ProxyOfThisSession'
    BY <2>1, <2>5, <1>4, <1>5, SyncProxies DEF Mirrored
  <2>3. RemoteIdsExist' /\ RefsBorn'
    BY <2>1, <2>5, <1>4, <1>5, SyncRemoteIds DEF Mirrored
  <2>4. UndamagedNotStale'
    BY <2>1, <1>2, <1>3, SyncBuffers
  <2> QED BY <2>2, <2>3, <2>4 DEF Mirrored
<1> QED BY <1>6, <1>7

LEMMA EstablishMirrored ==
  ASSUME TypeOK, Tree, Mirrored, EstablishSession
  PROVE  Tree' /\ Mirrored'
<1>1. session = 0 /\ session' = sessions + 1 /\ UNCHANGED <<clientVars, pos>>
  BY DEF EstablishSession
<1>2. session' # 0
  BY <1>1 DEF TypeOK
<1> DEFINE O == {o \in Objects : Live(o) /\ committed[o]}
<1>3. O \in SUBSET Objects /\ (\A o \in O : Live(o)) /\ Sync(O, TRUE, prog, buf)
  BY DEF EstablishSession
<1>4. Tree' /\ UNCHANGED <<stage, owner>>
  BY <1>1 DEF Tree, Live, clientVars
<1>5. buf \in [Buffers -> Buffer]
  BY DEF TypeOK
<1> HIDE DEF O
<1>6. ProxyOfThisSession'
  BY <1>1, <1>2, <1>3, <1>4, SyncProxies DEF Mirrored
<1>7. RemoteIdsExist' /\ RefsBorn'
  BY <1>1, <1>2, <1>3, <1>4, SyncRemoteIds DEF Mirrored
<1>8. UndamagedNotStale'
  BY <1>3, <1>5, SyncBuffers DEF Mirrored, UndamagedNotStale
<1> QED BY <1>4, <1>6, <1>7, <1>8 DEF Mirrored

(* A request that only fills pending state does not reach the mirror       *)
LEMMA RequestMirrored ==
  ASSUME TypeOK, Tree, Mirrored,
         UNCHANGED <<session, stage, owner, technique, proxy, peer>>,
         \A b \in Buffers : buf'[b].data = buf[b].data /\ buf'[b].damaged = buf[b].damaged
  PROVE  Tree' /\ Mirrored'
<1>1. Tree'
  BY DEF Tree, Live
<1>2. UndamagedNotStale'
  BY DEF Mirrored, UndamagedNotStale
<1> QED BY <1>1, <1>2 DEF Mirrored, ProxyOfThisSession, RemoteIdsExist, RefsBorn, PeerRefs, Live

(* A new thing has nothing that refers to it, here or at the peer          *)
LEMMA CreateMirrored ==
  ASSUME TypeOK, Tree, Mirrored, NEW x \in Things, Create(x),
         UNCHANGED <<session, technique, proxy, peer>>,
         \/ x \notin Units \cup Techniques /\ UNCHANGED owner
         \/ \E y \in Objects \cup Units : Live(y) /\ owner' = [owner EXCEPT ![x] = y],
         \A b \in Buffers : b # x => buf'[b] = buf[b]
  PROVE  Tree' /\ Mirrored'
<1>1. stage[x] = "unborn" /\ stage' = [stage EXCEPT ![x] = "live"]
  BY DEF Create
<1>2. stage \in [Things -> {"unborn", "live", "gone"}]
  BY DEF TypeOK
<1>3. Nil \notin Things
  BY SceneSyncAssumption
<1>4. ASSUME NEW z \in Things
      PROVE  /\ Live(z) => Live(z)'
             /\ stage[z] # "unborn" => z # x /\ stage'[z] = stage[z]
             /\ stage[z] # "unborn" => stage'[z] # "unborn"
  BY <1>1, <1>2 DEF Live
<1>5. owner \in [Units \cup Techniques -> Objects \cup Units \cup {Nil}]
  BY DEF TypeOK
<1>6. \A z \in (Units \cup Techniques) \ {x} : owner'[z] = owner[z]
  BY <1>5
<1>7. ASSUME x \in Units \cup Techniques
      PROVE  \E y \in Objects \cup Units : Live(y) /\ owner'[x] = y
  BY <1>5, <1>7
<1>8. Tree'
  <2>1. ASSUME NEW u \in Units, technique[u] # Nil
        PROVE  stage'[technique[u]] = "live" /\ owner'[technique[u]] = u
    <3>1. technique[u] \in Techniques
      BY <2>1 DEF TypeOK
    <3>2. Live(technique[u]) /\ owner[technique[u]] = u
      BY <2>1 DEF Tree
    <3> QED BY <3>1, <3>2, <1>4, <1>6 DEF Things, Nodes, Live
  <2>2. ASSUME NEW z \in Units \cup Techniques, Live(z)' PROVE owner'[z] # Nil
    <3>1. CASE z = x
      BY <3>1, <1>3, <1>7 DEF Things, Nodes
    <3>2. CASE z # x
      <4>1. Live(z)
        BY <2>2, <3>2, <1>1, <1>2 DEF Live, Things, Nodes
      <4> QED BY <4>1, <3>2, <1>6 DEF Tree
    <3> QED BY <3>1, <3>2
  <2>3. ASSUME NEW z \in Units \cup Techniques, owner'[z] # Nil
        PROVE  stage'[owner'[z]] # "unborn"
    <3>1. CASE z = x
      <4>1. PICK y \in Objects \cup Units : Live(y) /\ owner'[x] = y
        BY <3>1, <1>7
      <4>2. stage[y] # "unborn" /\ y \in Things
        BY <4>1 DEF Live, Things, Nodes
      <4> QED BY <3>1, <4>1, <4>2, <1>4
    <3>2. CASE z # x
      BY <2>3, <3>2, <1>4, <1>5, <1>6 DEF Tree, Things, Nodes
    <3> QED BY <3>1, <3>2
  <2> QED BY <2>1, <2>2, <2>3 DEF Tree, Live
<1>9. ProxyOfThisSession'
  BY <1>4 DEF Mirrored, ProxyOfThisSession
<1>10. RefsBorn'
  <2>1. ASSUME NEW t \in Techniques, NEW z \in PeerRefs(t) PROVE z \in Things
    <3>1. peer.bind[t] \in Binding
      BY DEF TypeOK, Peer
    <3> QED BY <2>1, <3>1 DEF PeerRefs, Binding, Draws, Things, Resources
  <2>2. \A t \in Techniques : \A z \in PeerRefs(t) : stage'[z] # "unborn"
    BY <2>1, <1>4 DEF Mirrored, RefsBorn
  <2>3. \A v \in VertexArrays : peer.attr[v] # Nil =>
          peer.attr[v] \in Things /\ stage'[peer.attr[v]] # "unborn"
    BY <1>4 DEF Mirrored, RefsBorn, TypeOK, Peer, Things, Resources
  <2>4. \A b \in Buffers : peer.data[b] # Nil => Live(b)'
    BY <1>4 DEF Mirrored, RefsBorn, Things, Resources
  <2> QED BY <2>2, <2>3, <2>4 DEF RefsBorn, PeerRefs
<1>11. RemoteIdsExist'
  <2>1. ASSUME NEW z \in Units \cup Techniques, proxy[z] # 0,
               stage'[owner'[z]] = "live"
        PROVE  proxy[owner'[z]] # 0
    <3>1. z \in Things /\ Live(z) /\ z # x
      BY <2>1, <1>1 DEF Mirrored, ProxyOfThisSession, Live, Things, Nodes
    <3>2. owner'[z] = owner[z] /\ owner[z] # Nil /\ owner[z] \in Things
      BY <3>1, <1>5, <1>6 DEF Tree, Things, Nodes
    <3>3. Live(owner[z])
      <4>1. stage[owner[z]] # "unborn"
        BY <3>2 DEF Tree
      <4> QED BY <4>1, <2>1, <3>2, <1>4 DEF Live
    <3> QED BY <2>1, <3>2, <3>3 DEF Mirrored, RemoteIdsExist
  <2>2. ASSUME NEW t \in Techniques, NEW z \in PeerRefs(t), Live(z)' PROVE proxy[z] # 0
    <3>1. stage[z] # "unborn"
      BY <2>2 DEF Mirrored, RefsBorn
    <3>2. Live(z)
      BY <2>2, <3>1, <1>1, <1>2 DEF Live
    <3> QED BY <3>2 DEF Mirrored, RemoteIdsExist
  <2>3. ASSUME NEW v \in VertexArrays, peer.attr[v] # Nil, Live(peer.attr[v])'
        PROVE  proxy[peer.attr[v]] # 0
    <3>1. stage[peer.attr[v]] # "unborn"
      BY <2>3 DEF Mirrored, RefsBorn
    <3>2. Live(peer.attr[v])
      BY <2>3, <3>1, <1>1, <1>2 DEF Live
    <3> QED BY <2>3, <3>2 DEF Mirrored, RemoteIdsExist
  <2> QED BY <2>1, <2>2, <2>3 DEF RemoteIdsExist, PeerRefs, Live
<1>12. UndamagedNotStale'
  <2>1. \A b \in Buffers : peer.data[b] # Nil => b # x
    BY <1>1 DEF Mirrored, RefsBorn, Live
  <2> QED BY <2>1 DEF Mirrored, UndamagedNotStale
<1> QED BY <1>8, <1>9, <1>10, <1>11, <1>12 DEF Mirrored

(* Nodes are deleted with all the tree and the peer know of them           *)
LEMMA DestroyNodesMirrored ==
  ASSUME TypeOK, Tree, Mirrored, NEW D \in SUBSET Nodes, DestroyNodes(D),
         \A u \in Units : technique'[u] # Nil =>
                            technique'[u] = technique[u] /\ technique[u] \notin D
  PROVE  Tree' /\ Mirrored'
<1>1. /\ stage' = [x \in Things |-> IF x \in D THEN "gone" ELSE stage[x]]
      /\ proxy' = [x \in Things |-> IF x \in D THEN 0 ELSE proxy[x]]
      /\ owner' = [x \in Units \cup Techniques |-> IF x \in D THEN Nil ELSE owner[x]]
      /\ UNCHANGED <<session, buf>>
  BY DEF DestroyNodes
<1>2. /\ peer'.data = peer.data /\ peer'.attr = peer.attr
      /\ \A t \in Techniques : PeerRefs(t)' \subseteq PeerRefs(t)
  <2>1. peer \in Peer
    BY DEF TypeOK
  <2>2. peer'.data = peer.data /\ peer'.attr = peer.attr
    BY <2>1 DEF DestroyNodes, Peer
  <2>3. \A t \in Techniques : peer'.bind[t] = IF t \in D THEN NoBinding ELSE peer.bind[t]
    BY <2>1 DEF DestroyNodes, Peer
  <2>4. \A t \in Techniques : PeerRefs(t)' \subseteq PeerRefs(t)
    BY <2>3 DEF PeerRefs, NoBinding
  <2> QED BY <2>2, <2>4
<1>3. ASSUME NEW x \in Things
      PROVE  /\ stage'[x] = "live" <=> Live(x) /\ x \notin D
             /\ stage[x] # "unborn" => stage'[x] # "unborn"
  BY <1>1 DEF Live
<1>4. Tree'
  <2>1. ASSUME NEW u \in Units, technique'[u] # Nil
        PROVE  stage'[technique'[u]] = "live" /\ owner'[technique'[u]] = u
    <3>1. /\ technique'[u] = technique[u] /\ technique[u] \notin D
          /\ technique[u] \in Techniques
      BY <2>1 DEF TypeOK
    <3>2. Live(technique[u]) /\ owner[technique[u]] = u
      BY <2>1, <3>1 DEF Tree
    <3> QED BY <3>1, <3>2, <1>1, <1>3 DEF Things, Nodes
  <2>2. ASSUME NEW x \in Units \cup Techniques, stage'[x] = "live" PROVE owner'[x] # Nil
    BY <2>2, <1>1, <1>3 DEF Tree, Things, Nodes
  <2>3. ASSUME NEW x \in Units \cup Techniques, owner'[x] # Nil
        PROVE  stage'[owner'[x]] # "unborn"
    <3>1. owner'[x] = owner[x] /\ owner[x] \in Things
      BY <2>3, <1>1 DEF TypeOK, Things, Nodes
    <3> QED BY <2>3, <3>1, <1>3 DEF Tree
  <2> QED BY <2>1, <2>2, <2>3 DEF Tree, Live
<1>5. ProxyOfThisSession'
  BY <1>1, <1>3 DEF Mirrored, ProxyOfThisSession, Live
<1>6. RefsBorn'
  <2>1. ASSUME NEW t \in Techniques, NEW x \in PeerRefs(t) PROVE stage'[x] # "unborn"
    <3>1. peer.bind[t] \in Binding
      BY DEF TypeOK, Peer
    <3>2. x \in Things
      BY <2>1, <3>1 DEF PeerRefs, Binding, Draws, Things, Resources
    <3> QED BY <3>2, <1>3 DEF Mirrored, RefsBorn
  <2>2. \A v \in VertexArrays : peer.attr[v] # Nil => stage'[peer.attr[v]] # "unborn"
    BY <1>3 DEF Mirrored, RefsBorn, TypeOK, Peer, Things, Resources
  <2>3. \A b \in Buffers : peer.data[b] # Nil => stage'[b] = "live"
    BY <1>3, SceneSyncAssumption DEF Mirrored, RefsBorn, Things, Resources
  <2> QED BY <2>1, <2>2, <2>3, <1>2 DEF RefsBorn, Live
<1>7. RemoteIdsExist'
  <2>1. ASSUME NEW x \in Units \cup Techniques, proxy'[x] # 0, stage'[owner'[x]] = "live"
        PROVE  proxy'[owner'[x]] # 0
    <3>1. x \notin D /\ proxy[x] # 0 /\ owner'[x] = owner[x] /\ Live(x)
      BY <2>1, <1>1 DEF Mirrored, ProxyOfThisSession, Things, Nodes
    <3>2. owner[x] \in Things
      BY <3>1 DEF Tree, TypeOK, Things, Nodes
    <3> QED BY <2>1, <3>1, <3>2, <1>1, <1>3 DEF Mirrored, RemoteIdsExist
  <2>2. ASSUME NEW t \in Techniques, NEW x \in PeerRefs(t), stage'[x] = "live"
        PROVE  proxy'[x] # 0
    <3>1. peer.bind[t] \in Binding
      BY DEF TypeOK, Peer
    <3>2. x \in Things
      BY <2>2, <3>1 DEF PeerRefs, Binding, Draws, Things, Resources
    <3> QED BY <2>2, <3>2, <1>1, <1>3 DEF Mirrored, RemoteIdsExist
  <2>3. ASSUME NEW v \in VertexArrays, peer.attr[v] # Nil, stage'[peer.attr[v]] = "live"
        PROVE  proxy'[peer.attr[v]] # 0
    <3>1. peer.attr[v] \in Things
      BY <2>3 DEF TypeOK, Peer, Things, Resources
    <3> QED BY <2>3, <3>1, <1>1, <1>3 DEF Mirrored, RemoteIdsExist
  <2> QED BY <2>1, <2>2, <2>3, <1>2 DEF RemoteIdsExist, Live
<1>8. UndamagedNotStale'
  BY <1>1, <1>2 DEF Mirrored, UndamagedNotStale
<1> QED BY <1>4, <1>5, <1>6, <1>7, <1>8 DEF Mirrored

(* The units in U take their techniques with them, and no other unit's     *)
LEMMA TechniquesGo ==
  ASSUME TypeOK, Tree, NEW U \in SUBSET Units, NEW D,
         D \cap Techniques = {}, technique' = WithoutTechniques(U)
  PROVE  \A u \in Units : technique'[u] # Nil =>
           technique'[u] = technique[u] /\ technique[u] \notin D \cup WithTechniques(U)
<1> SUFFICES ASSUME NEW u \in Units, technique'[u] # Nil
             PROVE  technique'[u] = technique[u] /\ technique[u] \notin D \cup WithTechniques(U)
  OBVIOUS
<1>1. u \notin U /\ technique'[u] = technique[u]
  BY DEF WithoutTechniques
<1>2. technique[u] \in Techniques /\ owner[technique[u]] = u
  BY <1>1 DEF TypeOK, Tree
<1>3. technique[u] \notin U
  BY <1>2, SceneSyncAssumption
<1>4. ~\E w \in U : technique[w] = technique[u]
  BY <1>1, <1>2 DEF Tree, TypeOK
<1> QED BY <1>1, <1>2, <1>3, <1>4 DEF WithTechniques

(* Destroying a resource expires what refers to it                         *)
LEMMA DestroyResourceMirrored ==
  ASSUME TypeOK, Tree, Mirrored, NEW r \in Resources, DestroyResource(r)
  PROVE  Tree' /\ Mirrored'
<1>1. /\ stage' = [stage EXCEPT ![r] = "gone"] /\ proxy' = [proxy EXCEPT ![r] = 0]
      /\ UNCHANGED <<session, owner, technique>>
  BY DEF DestroyResource
<1>2. peer \in Peer
  BY DEF TypeOK
<1>3. /\ peer'.bind = peer.bind
      /\ \A v \in VertexArrays : peer'.attr[v] = IF v = r THEN Nil ELSE peer.attr[v]
      /\ \A b \in Buffers : peer'.data[b] = IF b = r THEN Nil ELSE peer.data[b]
  BY <1>2 DEF DestroyResource, Peer
<1>4. ASSUME NEW x \in Things
      PROVE  /\ stage'[x] = "live" <=> Live(x) /\ x # r
             /\ stage[x] # "unborn" => stage'[x] # "unborn"
             /\ proxy'[x] = IF x = r THEN 0 ELSE proxy[x]
  BY <1>1 DEF Live, TypeOK
<1>5. r \notin Nodes
  BY SceneSyncAssumption
<1>6. Tree'
  <2>1. ASSUME NEW u \in Units, technique[u] # Nil
        PROVE  stage'[technique[u]] = "live" /\ owner[technique[u]] = u
    BY <2>1, <1>4, <1>5 DEF Tree, TypeOK, Things, Nodes
  <2>2. \A x \in Units \cup Techniques : stage'[x] = "live" => owner[x] # Nil
    BY <1>4 DEF Tree, Things, Nodes
  <2>3. ASSUME NEW x \in Units \cup Techniques, owner[x] # Nil
        PROVE  stage'[owner[x]] # "unborn"
    <3>1. owner[x] \in Things
      BY <2>3 DEF TypeOK, Things, Nodes
    <3> QED BY <2>3, <3>1, <1>4 DEF Tree
  <2> QED BY <2>1, <2>2, <2>3, <1>1 DEF Tree, Live
<1>7. ProxyOfThisSession'
  BY <1>1, <1>4 DEF Mirrored, ProxyOfThisSession, Live
<1>8. ASSUME NEW t \in Techniques, NEW x \in PeerRefs(t) PROVE x \in Things
  <2>1. peer.bind[t] \in Binding
    BY <1>2 DEF Peer
  <2> QED BY <1>8, <2>1 DEF PeerRefs, Binding, Draws, Things, Resources
<1>9. \A v \in VertexArrays : peer.attr[v] # Nil => peer.attr[v] \in Things
  BY <1>2 DEF Peer, Things, Resources
<1>10. RefsBorn'
  <2>1. \A t \in Techniques : \A x \in PeerRefs(t) : stage'[x] # "unborn"
    BY <1>4, <1>8 DEF Mirrored, RefsBorn
  <2>2. \A v \in VertexArrays : peer'.attr[v] # Nil => stage'[peer'.attr[v]] # "unborn"
    BY <1>3, <1>4, <1>9 DEF Mirrored, RefsBorn
  <2>3. \A b \in Buffers : peer'.data[b] # Nil => stage'[b] = "live"
    BY <1>3, <1>4 DEF Mirrored, RefsBorn, Things, Resources
  <2> QED BY <2>1, <2>2, <2>3, <1>3 DEF RefsBorn, Live, PeerRefs
<1>11. RemoteIdsExist'
  <2>1. ASSUME NEW x \in Units \cup Techniques, proxy'[x] # 0, stage'[owner[x]] = "live"
        PROVE  proxy'[owner[x]] # 0
    <3>1. x \in Things /\ x # r
      BY <1>5 DEF Things, Nodes
    <3>2. proxy[x] # 0 /\ Live(x)
      BY <2>1, <3>1, <1>4 DEF Mirrored, ProxyOfThisSession
    <3>3. owner[x] \in Nodes /\ owner[x] \in Things
      BY <3>2 DEF Tree, TypeOK, Things, Nodes
    <3> QED BY <2>1, <3>2, <3>3, <1>4, <1>5 DEF Mirrored, RemoteIdsExist
  <2>2. \A t \in Techniques : \A x \in PeerRefs(t) : stage'[x] = "live" => proxy'[x] # 0
    BY <1>4, <1>8 DEF Mirrored, RemoteIdsExist
  <2>3. \A v \in VertexArrays : peer'.attr[v] # Nil /\ stage'[peer'.attr[v]] = "live"
          => proxy'[peer'.attr[v]] # 0
    BY <1>3, <1>4, <1>9 DEF Mirrored, RemoteIdsExist
  <2> QED BY <2>1, <2>2, <2>3, <1>1, <1>3 DEF RemoteIdsExist, Live, PeerRefs
<1>12. UndamagedNotStale'
  <2>1. \A b \in Buffers : b # r => buf'[b] = buf[b]
    BY DEF DestroyResource
  <2> QED BY <2>1, <1>3 DEF Mirrored, UndamagedNotStale
<1> QED BY <1>6, <1>7, <1>10, <1>11, <1>12 DEF Mirrored

(* Without a session, or without the client, nothing is mirrored           *)
LEMMA NothingMirrored ==
  ASSUME EmptyPeer = peer, \A x \in Things : proxy[x] = 0
  PROVE  Mirrored
<1>1. \A t \in Techniques : PeerRefs(t) = {}
  BY DEF EmptyPeer, NoBinding, PeerRefs
<1>3. (\A v \in VertexArrays : peer.attr[v] = Nil) /\ (\A b \in Buffers : peer.data[b] = Nil)
  BY DEF EmptyPeer
<1>4. Units \cup Techniques \subseteq Things
  BY DEF Things, Nodes
<1> QED BY <1>1, <1>3, <1>4
        DEF Mirrored, ProxyOfThisSession, RemoteIdsExist, RefsBorn, UndamagedNotStale

(* ... and so it does in the state after a step                            *)
LEMMA NothingMirroredAfter ==
  ASSUME EmptyPeer = peer', \A x \in Things : proxy'[x] = 0
  PROVE  Mirrored'
<1>1. \A t \in Techniques : PeerRefs(t)' = {}
  BY DEF EmptyPeer, NoBinding, PeerRefs
<1>2. (\A v \in VertexArrays : peer'.attr[v] = Nil) /\ (\A b \in Buffers : peer'.data[b] = Nil)
  BY DEF EmptyPeer
<1>3. Units \cup Techniques \subseteq Things
  BY DEF Things, Nodes
<1> QED BY <1>1, <1>2, <1>3
        DEF Mirrored, ProxyOfThisSession, RemoteIdsExist, RefsBorn, UndamagedNotStale

(* The invariants of SceneSync with what makes them inductive              *)
IInv == TypeOK /\ Tree /\ Mirrored

LEMMA InvInit == Init => IInv
<1> SUFFICES ASSUME Init PROVE Tree /\ Mirrored
  BY TypeInit DEF IInv
<1>1. Tree
  <2>1. \A x \in Units \cup Techniques : ~Live(x) /\ owner[x] = Nil
    BY SceneSyncAssumption DEF Init, Live, Things, Nodes
  <2> QED BY <2>1 DEF Init, Tree
<1> QED BY <1>1, NothingMirrored DEF Init

LEMMA InvStep == IInv /\ [Next]_vars => IInv'
<1> SUFFICES ASSUME TypeOK, Tree, Mirrored, [Next]_vars PROVE Tree' /\ Mirrored'
  BY TypeStep DEF IInv
<1>0. Objects \subseteq Things /\ Units \subseteq Things /\ Techniques \subseteq Things
      /\ Resources \subseteq Things
  BY DEF Things, Nodes
<1>1. ASSUME NEW o \in Objects, CreateObject(o) PROVE Tree' /\ Mirrored'
  <2>1. o \in Things /\ o \notin Units \cup Techniques
    BY <1>0, SceneSyncAssumption
  <2> QED BY <2>1, <1>1, CreateMirrored DEF CreateObject
<1>2. ASSUME NEW u \in Units, NEW o \in Objects, CreateUnit(u, o) PROVE Tree' /\ Mirrored'
  BY <1>0, <1>2, CreateMirrored DEF CreateUnit
<1>3. ASSUME NEW t \in Techniques, NEW u \in Units, CreateTechnique(t, u)
      PROVE  Tree' /\ Mirrored'
  BY <1>0, <1>3, CreateMirrored DEF CreateTechnique
<1>4. ASSUME NEW r \in Resources, CreateResource(r) PROVE Tree' /\ Mirrored'
  <2>1. r \in Things /\ r \notin Units \cup Techniques
    BY <1>0, SceneSyncAssumption DEF Nodes
  <2>2. \A b \in Buffers : b # r => buf'[b] = buf[b]
    BY <1>4 DEF CreateResource, TypeOK
  <2> QED BY <2>1, <2>2, <1>4, CreateMirrored DEF CreateResource
<1>5. ASSUME NEW o \in Objects, CommitObject(o) \/ MoveApp(o) PROVE Tree' /\ Mirrored'
  BY <1>5, CommitTreeInv, CommitMirrored DEF CommitObject, MoveApp
<1>6. ASSUME NEW o \in Objects, DestroyObject(o) PROVE Tree' /\ Mirrored'
  <2> DEFINE U == {u \in UnitsOf(o) : committed[u]}
             D == {o} \cup WithTechniques(U)
  <2>1. U \in SUBSET Units /\ {o} \cap Techniques = {} /\ technique' = WithoutTechniques(U)
    BY <1>6, SceneSyncAssumption DEF DestroyObject, UnitsOf
  <2>2. D \in SUBSET Nodes
    BY <2>1 DEF WithTechniques, Nodes
  <2>3. DestroyNodes(D)
    BY <1>6 DEF DestroyObject
  <2> HIDE DEF U
  <2>4. \A u \in Units : technique'[u] # Nil =>
          technique'[u] = technique[u] /\ technique[u] \notin D
    BY <2>1, TechniquesGo
  <2> QED BY <2>2, <2>3, <2>4, DestroyNodesMirrored
<1>7. ASSUME NEW u \in Units, DestroyUnit(u) PROVE Tree' /\ Mirrored'
  <2>1. {u} \in SUBSET Units /\ {u} \cap Techniques = {}
        /\ technique' = WithoutTechniques({u}) /\ DestroyNodes(WithTechniques({u}))
    BY <1>7, SceneSyncAssumption DEF DestroyUnit
  <2>2. WithTechniques({u}) \in SUBSET Nodes
    BY DEF WithTechniques, Nodes
  <2>3. \A w \in Units : technique'[w] # Nil =>
          technique'[w] = technique[w] /\ technique[w] \notin WithTechniques({u})
    BY <2>1, TechniquesGo
  <2> QED BY <2>1, <2>2, <2>3, DestroyNodesMirrored
<1>8. ASSUME NEW t \in Techniques, DestroyTechnique(t) PROVE Tree' /\ Mirrored'
  <2>1. {t} \in SUBSET Nodes /\ DestroyNodes({t})
    BY <1>8 DEF DestroyTechnique, Nodes
  <2>2. technique' = [technique EXCEPT ![owner[t]] = Nil]
    BY <1>8 DEF DestroyTechnique
  <2>3. \A u \in Units : technique'[u] # Nil =>
          technique'[u] = technique[u] /\ technique[u] \notin {t}
    BY <2>2 DEF TypeOK, Tree
  <2> QED BY <2>1, <2>3, DestroyNodesMirrored
<1>9. ASSUME NEW r \in Resources, DestroyResource(r) PROVE Tree' /\ Mirrored'
  BY <1>9, DestroyResourceMirrored
<1>10. ASSUME \/ \E o \in Objects : GetBounded(o)
              \/ \E t \in Techniques : DrawArrays(t)
              \/ \E t \in Techniques, p \in Programs : BindProgram(t, p)
              \/ \E t \in Techniques, v \in VertexArrays : BindVertexArray(t, v)
              \/ \E t \in Techniques, b \in Buffers : DrawElements(t, b)
              \/ \E p \in Programs : LinkProgram(p) \/ \E s \in Shaders : AttachShader(p, s)
              \/ \E v \in VertexArrays, b \in Buffers : VertexAttribPointer(v, b)
              \/ UNCHANGED vars
       PROVE  Tree' /\ Mirrored'
  <2>1. UNCHANGED <<session, stage, owner, technique, proxy, peer, buf>>
    BY <1>10 DEF GetBounded, DrawArrays, BindProgram, BindVertexArray, DrawElements, SetPending,
       LinkProgram, AttachShader, SetProgram, VertexAttribPointer, vars, clientVars
  <2> QED BY <2>1, RequestMirrored
<1>11. ASSUME NEW b \in Buffers, NEW k \in 0..MaxVersion, BufferData(b, k)
       PROVE  Tree' /\ Mirrored'
  <2>1. UNCHANGED <<session, stage, owner, technique, proxy, peer>>
    BY <1>11 DEF BufferData, clientVars
  <2>2. \A c \in Buffers : buf[c] \in Buffer
    BY DEF TypeOK
  <2>3. \A c \in Buffers : buf'[c].data = buf[c].data /\ buf'[c].damaged = buf[c].damaged
    BY <1>11, <2>2 DEF BufferData, TypeOK, Buffer
  <2> QED BY <2>1, <2>3, RequestMirrored
<1>12. ASSUME EstablishSession PROVE Tree' /\ Mirrored'
  BY <1>12, EstablishMirrored
<1>13. ASSUME DisconnectSession PROVE Tree' /\ Mirrored'
  <2>1. Tree'
    BY <1>13 DEF DisconnectSession, clientVars, Tree, Live
  <2>2. EmptyPeer = peer' /\ \A x \in Things : proxy'[x] = 0
    BY <1>13 DEF DisconnectSession
  <2>3. Mirrored'
    BY <2>2, NothingMirroredAfter
  <2> QED BY <2>1, <2>3
<1>14. ASSUME ClientGone PROVE Tree' /\ Mirrored'
  <2>1. \A x \in Things : stage'[x] = "gone" /\ proxy'[x] = 0
    BY <1>14 DEF ClientGone
  <2>2. \A x \in Units \cup Techniques : owner'[x] = Nil /\ stage'[x] = "gone"
    BY <1>0, <1>14 DEF ClientGone
  <2>3. \A u \in Units : technique'[u] = Nil
    BY <1>14 DEF ClientGone
  <2>4. EmptyPeer = peer'
    BY <1>14 DEF ClientGone
  <2>5. Tree'
    BY <2>2, <2>3 DEF Tree, Live
  <2> QED BY <2>1, <2>4, <2>5, NothingMirroredAfter
<1> QED
  BY <1>1, <1>2, <1>3, <1>4, <1>5, <1>6, <1>7, <1>8, <1>9, <1>10, <1>11, <1>12, <1>13, <1>14
  DEF Next, ClientStep, SystemStep

(* No proxy outlives its session or what it stands for (the disconnect     *)
(* handlers, and the sync that may create one at any commit)               *)
THEOREM ProxyCorrect == Spec => []ProxyOfThisSession
<1>1. IInv => ProxyOfThisSession
  BY DEF IInv, Mirrored
<1>2. QED BY <1>1, InvInit, InvStep, PTL DEF Spec

(* The assertions in every remote_id() hold, whatever clients do           *)
THEOREM RemoteIdsCorrect == Spec => []RemoteIdsExist
<1>1. IInv => RemoteIdsExist
  BY DEF IInv, Mirrored
<1>2. QED BY <1>1, InvInit, InvStep, PTL DEF Spec

(* data_damaged is kept well: what it does not mark is not stale           *)
THEOREM DamageCorrect == Spec => []UndamagedNotStale
<1>1. IInv => UndamagedNotStale
  BY DEF IInv, Mirrored
<1>2. QED BY <1>1, InvInit, InvStep, PTL DEF Spec

=============================================================================

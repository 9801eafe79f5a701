------------------------ MODULE SceneRefinementProofs ------------------------
(***************************************************************************)
(* SceneSync implements SceneMirror when clients follow all the rules, for *)
(* any sets of ids and any number of sessions.  The invariant says what    *)
(* the peer of a session has been told of each kind of thing, and what is  *)
(* still marked to be told.                                                *)
(***************************************************************************)
EXTENDS SceneRefinement, SceneSyncProofs

Rules == AppFirst /\ OneTechnique /\ ShadersKept /\ PendingKept /\ ReadyFirst /\ BindingsKept

(* Nothing that was committed refers to what has yet to be created.        *)
Born(x) == x \notin {Nil, Arrays} => stage[x] # "unborn"
CommittedBorn ==
  /\ \A t \in Techniques :
       Born(cur[t].program) /\ Born(cur[t].vertexArray) /\ Born(cur[t].draw)
  /\ \A v \in VertexArrays : Born(attrC[v])

(* What is committed is there with all that it is under, and a unit has    *)
(* the one of its techniques that is committed.                            *)
Shape ==
  /\ \A x \in Nodes : committed[x] => Live(x)
  /\ \A u \in Units :
       /\ Live(u) => owner[u] \in Objects
       /\ committed[u] => committed[owner[u]]
       /\ technique[u] # Nil => committed[technique[u]]
  /\ \A t \in Techniques :
       /\ Live(t) => owner[t] \in Units
       /\ committed[t] => committed[owner[t]] /\ technique[owner[t]] = t
       /\ ~committed[t] => cur[t] = NoBinding

(* A program in use is linked; in a session the peer has the programs that *)
(* are linked and are not marked, and those in use are not.                *)
DrawsWith(p) == Live(p) /\ \E t \in Techniques : cur[t].program = p
ProgramInv ==
  \A p \in Programs :
    /\ prog[p].linked => Live(p) /\ prog[p].shaders = prog[p].linkedWith
    /\ DrawsWith(p) => prog[p].linked
    /\ session # 0 =>
         /\ DrawsWith(p) => ~prog[p].shouldLink
         /\ peer.shaders[p] = IF prog[p].linked /\ ~prog[p].shouldLink
                              THEN prog[p].linkedWith ELSE {}

(* In a session, the peer has the attribute of a vertex array in use, and  *)
(* no other.                                                               *)
IsLive(x) == x \in Resources /\ Live(x)
VertexArrayInv ==
  session # 0 => \A v \in VertexArrays :
    /\ IsLive(peer.attr[v]) => peer.attr[v] = attrC[v]
    /\ Live(v) /\ IsLive(attrC[v]) /\ (\E t \in Techniques : cur[t].vertexArray = v)
         => peer.attr[v] = attrC[v]

(* A buffer in use has data; in a session the peer has the buffers that    *)
(* have data and are not marked, and those in use are not.                 *)
BufferInv ==
  \A b \in Buffers :
    /\ buf[b].data # 0 => Live(b)
    /\ Live(b) /\ InUse(b) => buf[b].data # 0
    /\ peer.data[b] # 0
    /\ session # 0 =>
         /\ Live(b) /\ InUse(b) => ~buf[b].damaged
         /\ buf[b].data # 0 /\ ~buf[b].damaged => peer.data[b] = buf[b].data

(* In a session, objects and techniques are at the peer when committed,    *)
(* and are bound there to what they are bound to here, if it is alive.     *)
Agree(x, y) == IsLive(x) \/ IsLive(y) \/ x = Arrays \/ y = Arrays => x = y
NodeInv ==
  session # 0 =>
    /\ \A o \in Objects : /\ proxy[o] # 0 <=> committed[o]
                          /\ committed[o] => peer.pos[o] = pos[o]
    /\ \A t \in Techniques :
         /\ proxy[t] # 0 <=> committed[t]
         /\ Agree(peer.bind[t].program, cur[t].program)
         /\ Agree(peer.bind[t].vertexArray, cur[t].vertexArray)
         /\ Agree(peer.bind[t].draw, cur[t].draw)

NoSession == session = 0 => peer = EmptyPeer /\ \A x \in Things : proxy[x] = 0

Consistent ==
  /\ CommittedBorn /\ Shape /\ ProgramInv /\ VertexArrayInv /\ BufferInv /\ NodeInv /\ NoSession

RInv == IInv /\ Rules /\ Consistent

----------------------------------------------------------------------------
(* What a commit does: to the tree and the bindings                        *)
UsedPrograms(o) ==
  {p \in Programs : Live(p) /\ \E t \in TechniquesOf(o) : CommitTechnique(t).program = p}
UsedArrays(o) ==
  {v \in VertexArrays :
     Live(v) /\ \E t \in TechniquesOf(o) : CommitTechnique(t).vertexArray = v}
UsedBuffers(o) ==
  {b \in Buffers : Live(b) /\ \/ \E v \in UsedArrays(o) : attrP[v] = b
                              \/ \E t \in TechniquesOf(o) : CommitTechnique(t).draw = b}

Committing(o) ==
  /\ Live(o) /\ app[o]
  /\ \E p \in Positions : pos' = [pos EXCEPT ![o] = p]
  /\ Commit(o)

CommitsTree(o) ==
  /\ UNCHANGED <<session, stage, owner, app, attrP>>
  /\ \A x \in Nodes :
       committed'[x] <=> committed[x] \/ x \in {o} \cup UnitsOf(o) \cup TechniquesOf(o)
  /\ \A t \in TechniquesOf(o) : technique'[owner[t]] = t
  /\ \A u \in Units :
       technique'[u] # Nil => technique'[u] = technique[u] \/ technique'[u] \in TechniquesOf(o)
  /\ \A t \in TechniquesOf(o) : cur'[t] = CommitTechnique(t) /\ pend'[t] = NoBinding
  /\ \A t \in Techniques \ TechniquesOf(o) : cur'[t] = cur[t] /\ pend'[t] = pend[t]
  /\ \A v \in VertexArrays : attrC'[v] = IF v \in UsedArrays(o) THEN attrP[v] ELSE attrC[v]

LEMMA CommitTreeEffects ==
  ASSUME RInv, NEW o \in Objects, Committing(o)
  PROVE  CommitsTree(o)
<1>0. TypeOK /\ Tree /\ Shape /\ OneTechnique
  BY DEF RInv, Consistent, IInv, Rules
<1>1. PICK given \in [Units -> Techniques \cup {Nil}] :
        /\ \A u \in Units \ UnitsOf(o) : given[u] = technique[u]
        /\ GivenTo(o, given)
        /\ CommitTree(o, given)
  BY DEF Committing, Commit
<1>2. UNCHANGED <<session, stage, owner, app, attrP>> /\ technique' = given
  BY <1>1 DEF CommitTree
<1>3. \A x \in Nodes :
       committed'[x] <=> committed[x] \/ x \in {o} \cup UnitsOf(o) \cup TechniquesOf(o)
  BY <1>1 DEF CommitTree
<1>4. ASSUME NEW t \in TechniquesOf(o) PROVE given[owner[t]] = t
  <2>1. t \in Techniques /\ Live(t) /\ owner[t] \in UnitsOf(o)
    BY DEF TechniquesOf
  <2>2. owner[t] \in Units /\ t # Nil
    BY <2>1, SceneSyncAssumption DEF UnitsOf, Things, Nodes
  <2>3. \A s \in Techniques : Live(s) /\ owner[s] = owner[t] => s = t
    BY <1>0, <2>1 DEF OneTechnique
  <2>4. CASE committed[t]
    <3>1. technique[owner[t]] = t
      BY <1>0, <2>1, <2>4 DEF Shape
    <3> QED BY <1>1, <2>1, <2>2, <3>1 DEF GivenTo
  <2>5. CASE ~committed[t]
    <3>1. technique[owner[t]] = Nil
      <4>1. SUFFICES ASSUME technique[owner[t]] # Nil PROVE FALSE
        OBVIOUS
      <4>2. technique[owner[t]] \in Techniques
        BY <1>0, <2>2, <4>1 DEF TypeOK
      <4>3. Live(technique[owner[t]]) /\ owner[technique[owner[t]]] = owner[t]
        BY <1>0, <2>2, <4>1 DEF Tree
      <4>4. technique[owner[t]] = t
        BY <2>3, <4>2, <4>3
      <4> QED BY <1>0, <2>2, <2>5, <4>1, <4>4 DEF Shape
    <3> DEFINE new == {s \in FirstCommits(o) : owner[s] = owner[t]}
    <3>2. t \in new
      BY <2>1, <2>5 DEF FirstCommits
    <3>3. given[owner[t]] \in new
      BY <1>1, <2>1, <3>1, <3>2 DEF GivenTo
    <3> QED BY <2>3, <3>3 DEF FirstCommits, TechniquesOf
  <2> QED BY <2>4, <2>5
<1>5. ASSUME NEW u \in Units, given[u] # Nil
      PROVE  given[u] = technique[u] \/ given[u] \in TechniquesOf(o)
  <2>1. CASE u \in UnitsOf(o)
    <3>1. given[u] = technique[u] \/ given[u] \in {t \in FirstCommits(o) : owner[t] = u}
      BY <1>1, <2>1 DEF GivenTo
    <3> QED BY <3>1 DEF FirstCommits
  <2> QED BY <1>1, <2>1
<1>6. \A t \in Techniques :
        /\ cur'[t] = IF t \in TechniquesOf(o) THEN CommitTechnique(t) ELSE cur[t]
        /\ pend'[t] = IF t \in TechniquesOf(o) THEN NoBinding ELSE pend[t]
  BY <1>1 DEF CommitTree
<1>7. \A v \in VertexArrays : attrC'[v] = IF v \in UsedArrays(o) THEN attrP[v] ELSE attrC[v]
  BY <1>1 DEF CommitTree, UsedArrays
<1>8. TechniquesOf(o) \subseteq Techniques
  BY DEF TechniquesOf
<1> QED BY <1>2, <1>3, <1>4, <1>5, <1>6, <1>7, <1>8 DEF CommitsTree

(* Sync after the commit of an object reaches what the object's techniques *)
(* use, and all of it.                                                     *)
LEMMA CommitShows ==
  ASSUME RInv, NEW o \in Objects, Committing(o), CommitsTree(o)
  PROVE  /\ ShownOf({o}) = {o}
         /\ TechniquesShown({o}) = TechniquesOf(o)
         /\ ProgramsShown({o}) = UsedPrograms(o)
         /\ VertexArraysShown({o}) = UsedArrays(o)
         /\ BuffersShown({o}) = UsedBuffers(o)
<1>0. TypeOK /\ Tree
  BY DEF RInv, Consistent, IInv
<1>1. ShownOf({o}) = {o}
  BY DEF ShownOf, Committing
<1>2. ASSUME NEW t \in TechniquesOf(o) PROVE t \in TechniquesShown({o})
  <2>1. t \in Techniques /\ owner[t] \in UnitsOf(o) /\ technique'[owner[t]] = t
    BY DEF TechniquesOf, CommitsTree
  <2>2. owner[t] \in Units /\ Live(owner[t]) /\ owner[owner[t]] = o
    BY <2>1 DEF UnitsOf
  <2>3. committed'[owner[t]]
    BY <2>1, <2>2 DEF CommitsTree, Nodes
  <2> QED BY <1>1, <2>1, <2>2, <2>3 DEF TechniquesShown, UnitsShown
<1>3. ASSUME NEW t \in TechniquesShown({o}) PROVE t \in TechniquesOf(o)
  <2>1. t \in Techniques /\ t # Nil
    BY SceneSyncAssumption DEF TechniquesShown, Things, Nodes
  <2>2. PICK u \in UnitsShown({o}) : technique'[u] = t
    BY DEF TechniquesShown
  <2>3. u \in UnitsOf(o)
    BY <2>2, <1>1 DEF UnitsShown, UnitsOf
  <2>4. CASE technique[u] = t
    <3>1. Live(t) /\ owner[t] = u
      BY <1>0, <2>1, <2>3, <2>4 DEF Tree, UnitsOf
    <3> QED BY <2>1, <2>3, <3>1 DEF TechniquesOf
  <2> QED BY <2>1, <2>2, <2>3, <2>4 DEF CommitsTree, UnitsOf
<1>4. TechniquesShown({o}) = TechniquesOf(o)
  BY <1>2, <1>3
<1>5. \A t \in TechniquesOf(o) : cur'[t] = CommitTechnique(t)
  BY DEF CommitsTree
<1>6. ProgramsShown({o}) = UsedPrograms(o)
  BY <1>4, <1>5 DEF ProgramsShown, UsedPrograms
<1>7. VertexArraysShown({o}) = UsedArrays(o)
  BY <1>4, <1>5 DEF VertexArraysShown, UsedArrays
<1>8. \A v \in UsedArrays(o) : attrC'[v] = attrP[v]
  BY DEF CommitsTree, UsedArrays
<1>9. BuffersShown({o}) = UsedBuffers(o)
  BY <1>4, <1>5, <1>7, <1>8 DEF BuffersShown, UsedBuffers
<1> QED BY <1>1, <1>4, <1>6, <1>7, <1>9

(* To programs: those in use are linked, and the peer has what they were   *)
(* linked with.                                                            *)
CommitsPrograms(o) ==
  /\ \A p \in Programs \ UsedPrograms(o) :
       prog'[p] = prog[p] /\ peer'.shaders[p] = peer.shaders[p]
  /\ \A p \in UsedPrograms(o) :
       /\ prog'[p].linked /\ prog'[p].pShaders = {}
       /\ prog'[p].shaders = prog[p].shaders \cup prog[p].pShaders
       /\ prog'[p].linkedWith = prog'[p].shaders
       /\ session # 0 => ~prog'[p].shouldLink /\ peer'.shaders[p] = prog'[p].linkedWith

(* What Sync sends of programs and buffers, and what it leaves of them     *)
LinkedLike(a, c) ==
  /\ a.linked = c.linked /\ a.shaders = c.shaders /\ a.pShaders = c.pShaders
  /\ a.linkedWith = c.linkedWith /\ a.pLink = c.pLink

SentProgram(sent, p, c) ==
  /\ sent =>
       /\ LinkedLike(prog'[p], c) /\ ~prog'[p].shouldLink
       /\ peer'.shaders[p] = peer.shaders[p] \cup {s \in c.shaders : Live(s)}
  /\ ~sent => prog'[p] = c /\ peer'.shaders[p] = peer.shaders[p]

SentBuffer(sent, b, c) ==
  /\ sent =>
       /\ buf'[b].data = c.data /\ ~buf'[b].damaged
       /\ buf'[b].pData = c.pData /\ peer'.data[b] = c.data
  /\ ~sent => buf'[b] = c /\ peer'.data[b] = peer.data[b]

LEMMA SyncPrograms ==
  ASSUME NEW O, NEW force, NEW progC \in [Programs -> Program], NEW bufC,
         Sync(O, force, progC, bufC), NEW p \in Programs
  PROVE  SentProgram(p \in ProgramsSent(O, force, progC), p, progC[p])
<1> DEFINE c == progC[p]
<1>1. c \in Program
  OBVIOUS
<1>2. prog' = [q \in Programs |->
        IF q \in ProgramsSent(O, force, progC)
        THEN [progC[q] EXCEPT !.shouldLink = FALSE] ELSE progC[q]]
  BY Zenon DEF Sync
<1>3. peer'.shaders[p] = IF p \in ProgramsSent(O, force, progC)
                         THEN peer.shaders[p] \cup {s \in progC[p].shaders : Live(s)}
                         ELSE peer.shaders[p]
  BY DEF Sync
<1>4. prog'[p] = IF p \in ProgramsSent(O, force, progC)
                 THEN [c EXCEPT !.shouldLink = FALSE] ELSE c
  BY <1>2, Zenon
<1>5. p \in ProgramsSent(O, force, progC) => LinkedLike(prog'[p], c) /\ ~prog'[p].shouldLink
  <2> HIDE DEF c
  <2> QED BY <1>1, <1>4 DEF LinkedLike, Program
<1>6. p \notin ProgramsSent(O, force, progC) => prog'[p] = c
  <2> HIDE DEF c
  <2> QED BY <1>4
<1> QED BY <1>3, <1>5, <1>6 DEF SentProgram

LEMMA SyncData ==
  ASSUME NEW O, NEW force, NEW progC, NEW bufC \in [Buffers -> Buffer],
         Sync(O, force, progC, bufC), NEW b \in Buffers
  PROVE  SentBuffer(b \in BuffersSent(O, force, bufC), b, bufC[b])
<1> DEFINE d == bufC[b]
<1>1. d \in Buffer
  OBVIOUS
<1>2. buf' = [c \in Buffers |->
        IF c \in BuffersSent(O, force, bufC)
        THEN [bufC[c] EXCEPT !.damaged = FALSE] ELSE bufC[c]]
  BY Zenon DEF Sync
<1>3. peer'.data[b] = IF b \in BuffersSent(O, force, bufC)
                      THEN bufC[b].data ELSE peer.data[b]
  BY DEF Sync
<1>4. buf'[b] = IF b \in BuffersSent(O, force, bufC)
                THEN [d EXCEPT !.damaged = FALSE] ELSE d
  BY <1>2, Zenon
<1>5. b \in BuffersSent(O, force, bufC) =>
        buf'[b].data = d.data /\ ~buf'[b].damaged /\ buf'[b].pData = d.pData
  <2> HIDE DEF d
  <2> QED BY <1>1, <1>4 DEF Buffer
<1>6. b \notin BuffersSent(O, force, bufC) => buf'[b] = d
  <2> HIDE DEF d
  <2> QED BY <1>4
<1> QED BY <1>3, <1>5, <1>6 DEF SentBuffer

LEMMA CommitProgramFacts ==
  ASSUME RInv, NEW o \in Objects, NEW p \in UsedPrograms(o)
  PROVE  /\ CommitProgram(p) \in Program
         /\ CommitProgram(p).linked /\ CommitProgram(p).pShaders = {}
         /\ CommitProgram(p).shaders = prog[p].shaders \cup prog[p].pShaders
         /\ CommitProgram(p).linkedWith = CommitProgram(p).shaders
         /\ \A s \in CommitProgram(p).shaders : Live(s)
         /\ session # 0 /\ CommitProgram(p).shouldLink => peer.shaders[p] = {}
         /\ session # 0 /\ ~CommitProgram(p).shouldLink =>
              peer.shaders[p] = CommitProgram(p).linkedWith
<1>0. TypeOK /\ ShadersKept /\ ReadyFirst /\ ProgramInv
  BY DEF RInv, Consistent, IInv, Rules
<1>1. p \in Programs /\ prog[p] \in Program /\ CommitProgram(p) \in Program
  BY <1>0, CommitTypes DEF UsedPrograms, TypeOK
<1>2. prog[p].linked \/ prog[p].pLink
  <2>1. PICK t \in TechniquesOf(o) : CommitTechnique(t).program = p
    BY DEF UsedPrograms
  <2>2. t \in Techniques /\ p \in {pend[t].program, cur[t].program} /\ Live(p)
    BY <2>1 DEF CommitTechnique, TechniquesOf, UsedPrograms
  <2> QED BY <1>0, <1>1, <2>2 DEF ReadyFirst
<1>3. prog[p].linked =>
        /\ prog[p].pShaders = {} /\ prog[p].shaders = prog[p].linkedWith
  BY <1>0, <1>1 DEF ReadyFirst, ProgramInv
<1>4. session # 0 => peer.shaders[p] = IF prog[p].linked /\ ~prog[p].shouldLink
                                       THEN prog[p].linkedWith ELSE {}
  BY <1>0, <1>1 DEF ProgramInv
<1>5. \A s \in prog[p].shaders \cup prog[p].pShaders : Live(s)
  BY <1>0, <1>1 DEF ShadersKept
<1>6. CASE Relink(p)
  <2>1. prog[p].linked /\ CommitProgram(p) = prog[p]
    BY <1>6 DEF Relink, CommitProgram
  <2> QED BY <2>1, <1>1, <1>3, <1>4, <1>5
<1>7. CASE ~Relink(p)
  <2> DEFINE attached == prog[p].shaders \cup prog[p].pShaders
             should == prog[p].shouldLink \/ prog[p].pLink
             linked == prog[p].linked \/ prog[p].pLink
             with == IF prog[p].pLink THEN attached ELSE prog[p].linkedWith
  <2>1. CommitProgram(p) =
          [pShaders |-> {}, pLink |-> FALSE, shaders |-> attached,
           shouldLink |-> should, linked |-> linked, linkedWith |-> with]
    BY <1>7 DEF CommitProgram
  <2>2. linked
    BY <1>2
  <2>3. with = attached
    BY <1>2, <1>3
  <2>4. session # 0 /\ should => peer.shaders[p] = {}
    BY <1>4, <1>7 DEF Relink
  <2>5. session # 0 /\ ~should => peer.shaders[p] = with
    BY <1>2, <1>4
  <2>6. \A s \in attached : Live(s)
    BY <1>5
  <2>7. \A at, wi \in SUBSET Shaders, sh, li \in BOOLEAN :
          LET c == [pShaders |-> {}, pLink |-> FALSE, shaders |-> at,
                    shouldLink |-> sh, linked |-> li, linkedWith |-> wi]
          IN c.shaders = at /\ c.linkedWith = wi /\ c.shouldLink = sh /\ c.linked = li
             /\ c.pShaders = {}
    OBVIOUS
  <2>8. attached \in SUBSET Shaders /\ with \in SUBSET Shaders
        /\ should \in BOOLEAN /\ linked \in BOOLEAN
    BY <1>1 DEF Program
  <2>9. /\ CommitProgram(p).shaders = attached /\ CommitProgram(p).linkedWith = with
        /\ CommitProgram(p).shouldLink = should /\ CommitProgram(p).linked = linked
        /\ CommitProgram(p).pShaders = {}
    <3> HIDE DEF attached, with, should, linked
    <3> QED BY <2>1, <2>7, <2>8
  <2>10. attached = prog[p].shaders \cup prog[p].pShaders
    OBVIOUS
  <2> HIDE DEF attached, with, should, linked
  <2> QED BY <1>1, <2>2, <2>3, <2>4, <2>5, <2>6, <2>9, <2>10
<1> QED BY <1>6, <1>7

LEMMA CommitProgramsEffects ==
  ASSUME RInv, NEW o \in Objects, Committing(o), CommitsTree(o)
  PROVE  CommitsPrograms(o)
<1>0. TypeOK
  BY DEF RInv, Consistent, IInv
<1>1. PICK given \in [Units -> Techniques \cup {Nil}] : CommitTree(o, given)
  BY DEF Committing, Commit
<1> DEFINE V == UsedArrays(o)
           B == BuffersToCommit(V, TechniquesOf(o))
           progC == [p \in Programs |->
                       IF p \in UsedPrograms(o) THEN CommitProgram(p) ELSE prog[p]]
           bufC  == [b \in Buffers |-> IF b \in B THEN CommitBuffer(b) ELSE buf[b]]
<1>2. IF session = 0 THEN prog' = progC /\ UNCHANGED peer ELSE Sync({o}, FALSE, progC, bufC)
  BY <1>1 DEF CommitTree, UsedPrograms, UsedArrays
<1>3. UsedPrograms(o) \subseteq Programs
  BY DEF UsedPrograms
<1>4. CASE session = 0
  BY <1>2, <1>3, <1>4, CommitProgramFacts DEF CommitsPrograms
<1>5. CASE session # 0
  <2>1. progC \in [Programs -> Program]
    BY <1>0, CommitTypes DEF TypeOK
  <2>2. Sync({o}, FALSE, progC, bufC)
    BY <1>2, <1>5
  <2>3. ProgramsSent({o}, FALSE, progC) = {p \in UsedPrograms(o) : progC[p].shouldLink}
    <3> HIDE DEF progC
    <3> QED BY CommitShows DEF ProgramsSent
  <2>4. ASSUME NEW p \in Programs \ UsedPrograms(o)
        PROVE  prog'[p] = prog[p] /\ peer'.shaders[p] = peer.shaders[p]
    <3>1. progC[p] = prog[p] /\ p \notin ProgramsSent({o}, FALSE, progC)
      BY <2>3
    <3> HIDE DEF progC, bufC
    <3>2. SentProgram(p \in ProgramsSent({o}, FALSE, progC), p, progC[p])
      BY <2>1, <2>2, SyncPrograms
    <3> QED BY <3>1, <3>2 DEF SentProgram
  <2>5. ASSUME NEW p \in UsedPrograms(o)
        PROVE  /\ prog'[p].linked /\ prog'[p].pShaders = {}
               /\ prog'[p].shaders = prog[p].shaders \cup prog[p].pShaders
               /\ prog'[p].linkedWith = prog'[p].shaders
               /\ ~prog'[p].shouldLink /\ peer'.shaders[p] = prog'[p].linkedWith
    <3> DEFINE c == CommitProgram(p)
    <3>1. p \in Programs /\ progC[p] = c
      BY <1>3
    <3>2. /\ c.linked /\ c.pShaders = {}
          /\ c.shaders = prog[p].shaders \cup prog[p].pShaders
          /\ c.linkedWith = c.shaders
          /\ \A s \in c.shaders : Live(s)
          /\ c.shouldLink => peer.shaders[p] = {}
          /\ ~c.shouldLink => peer.shaders[p] = c.linkedWith
      BY <1>5, CommitProgramFacts
    <3>3. p \in ProgramsSent({o}, FALSE, progC) <=> c.shouldLink
      BY <2>3, <3>1
    <3>4. /\ c.shouldLink =>
               /\ LinkedLike(prog'[p], c) /\ ~prog'[p].shouldLink
               /\ peer'.shaders[p] = peer.shaders[p] \cup {s \in c.shaders : Live(s)}
          /\ ~c.shouldLink => prog'[p] = c /\ peer'.shaders[p] = peer.shaders[p]
      <4> HIDE DEF progC, bufC, c
      <4>1. SentProgram(p \in ProgramsSent({o}, FALSE, progC), p, progC[p])
        BY <2>1, <2>2, <3>1, SyncPrograms
      <4> QED BY <3>1, <3>3, <4>1 DEF SentProgram
    <3> HIDE DEF c, progC, bufC
    <3>5. CASE c.shouldLink
      <4>1. {s \in c.shaders : Live(s)} = c.shaders
        BY <3>2
      <4> QED BY <3>2, <3>4, <3>5, <4>1 DEF LinkedLike
    <3>6. CASE ~c.shouldLink
      BY <3>2, <3>4, <3>6
    <3> QED BY <3>5, <3>6
  <2> QED BY <2>4, <2>5 DEF CommitsPrograms
<1> QED BY <1>4, <1>5

(* To buffers: those in use have data, and the peer has it.                *)
CommitsBuffers(o) ==
  /\ \A b \in Buffers \ UsedBuffers(o) : buf'[b] = buf[b] /\ peer'.data[b] = peer.data[b]
  /\ \A b \in UsedBuffers(o) :
       /\ buf'[b].data # 0
       /\ session # 0 => ~buf'[b].damaged /\ peer'.data[b] = buf'[b].data
       /\ session = 0 => peer'.data[b] = peer.data[b]

LEMMA CommitBuffersEffects ==
  ASSUME RInv, NEW o \in Objects, Committing(o), CommitsTree(o)
  PROVE  CommitsBuffers(o)
<1>0. TypeOK /\ ReadyFirst /\ BufferInv
  BY DEF RInv, Consistent, IInv, Rules
<1>1. PICK given \in [Units -> Techniques \cup {Nil}] : CommitTree(o, given)
  BY DEF Committing, Commit
<1> DEFINE V == UsedArrays(o)
           B == BuffersToCommit(V, TechniquesOf(o))
           progC == [p \in Programs |->
                       IF p \in UsedPrograms(o) THEN CommitProgram(p) ELSE prog[p]]
           bufC  == [b \in Buffers |-> IF b \in B THEN CommitBuffer(b) ELSE buf[b]]
<1>2. IF session = 0 THEN buf' = bufC /\ UNCHANGED peer ELSE Sync({o}, FALSE, progC, bufC)
  BY <1>1 DEF CommitTree, UsedPrograms, UsedArrays
<1>3. UsedBuffers(o) \subseteq Buffers /\ TechniquesOf(o) \subseteq Techniques
  BY DEF UsedBuffers, TechniquesOf
<1>4. ASSUME NEW b \in B PROVE b \in UsedBuffers(o)
  <2>1. CASE b \in AttributeBuffers(V, TechniquesOf(o))
    BY <2>1 DEF AttributeBuffers, UsedBuffers
  <2>2. CASE \E t \in TechniquesOf(o) : pend[t].draw = b
    BY <1>3, <2>2, SceneSyncAssumption
       DEF BuffersToCommit, AttributeBuffers, UsedBuffers, CommitTechnique, Things, Resources
  <2> QED BY <1>4, <2>1, <2>2 DEF BuffersToCommit
<1>5. ASSUME NEW b \in UsedBuffers(o) PROVE bufC[b].data # 0
  <2>0. b \in Buffers /\ Live(b) /\ buf[b] \in Buffer
    BY <1>0, <1>3 DEF UsedBuffers, TypeOK
  <2>1. CASE b \in B
    <3>1. \/ \E t \in TechniquesOf(o) : pend[t].draw = b
          \/ \E v \in V : attrP[v] = b
      BY <2>1 DEF BuffersToCommit, AttributeBuffers
    <3>2. buf[b].data # 0 \/ buf[b].pData # 0
      BY <1>0, <1>3, <2>0, <3>1 DEF ReadyFirst, UsedArrays
    <3>3. bufC[b] = CommitBuffer(b)
      BY <2>0, <2>1
    <3> HIDE DEF bufC
    <3> QED BY <2>0, <3>2, <3>3 DEF CommitBuffer, Buffer
  <2>2. CASE b \notin B
    <3>1. PICK t \in TechniquesOf(o) : CommitTechnique(t).draw = b
      BY <2>0, <2>2 DEF BuffersToCommit, AttributeBuffers, UsedBuffers
    <3>2. pend[t].draw # b
      BY <2>0, <2>2 DEF BuffersToCommit
    <3>3. cur[t].draw = b
      BY <3>1, <3>2 DEF CommitTechnique
    <3>4. buf[b].data # 0
      BY <1>0, <1>3, <2>0, <3>3 DEF BufferInv, InUse
    <3> QED BY <2>0, <2>2, <3>4
  <2> QED BY <2>1, <2>2
<1>6. CASE session = 0
  BY <1>2, <1>3, <1>4, <1>5, <1>6 DEF CommitsBuffers
<1>7. CASE session # 0
  <2>1. bufC \in [Buffers -> Buffer]
    BY <1>0, CommitTypes DEF TypeOK
  <2>2. Sync({o}, FALSE, progC, bufC)
    BY <1>2, <1>7
  <2>3. BuffersSent({o}, FALSE, bufC) = {b \in UsedBuffers(o) : bufC[b].damaged}
    <3> HIDE DEF bufC
    <3> QED BY CommitShows DEF BuffersSent
  <2>4. ASSUME NEW b \in Buffers \ UsedBuffers(o)
        PROVE  buf'[b] = buf[b] /\ peer'.data[b] = peer.data[b]
    <3>1. bufC[b] = buf[b] /\ b \notin BuffersSent({o}, FALSE, bufC)
      BY <2>3, <1>4
    <3> HIDE DEF progC, bufC
    <3>2. SentBuffer(b \in BuffersSent({o}, FALSE, bufC), b, bufC[b])
      BY <2>1, <2>2, SyncData
    <3> QED BY <3>1, <3>2 DEF SentBuffer
  <2>5. ASSUME NEW b \in UsedBuffers(o)
        PROVE  buf'[b].data # 0 /\ ~buf'[b].damaged /\ peer'.data[b] = buf'[b].data
    <3> DEFINE c == bufC[b]
    <3>0. b \in Buffers /\ c.data # 0
      BY <1>3, <1>5
    <3>1. ~c.damaged => c = buf[b]
      <4>1. CASE buf[b].pData = 0 \/ b \notin B
        BY <3>0, <4>1 DEF CommitBuffer
      <4>2. CASE buf[b].pData # 0 /\ b \in B
        BY <3>0, <4>2 DEF CommitBuffer
      <4> QED BY <4>1, <4>2
    <3>2. b \in BuffersSent({o}, FALSE, bufC) <=> c.damaged
      BY <2>3
    <3> HIDE DEF c
    <3>3. ~c.damaged => peer.data[b] = c.data
      BY <1>0, <1>7, <3>0, <3>1 DEF BufferInv
    <3>4. /\ c.damaged => buf'[b].data = c.data /\ ~buf'[b].damaged /\ peer'.data[b] = c.data
          /\ ~c.damaged => buf'[b] = c /\ peer'.data[b] = peer.data[b]
      <4>1. c = bufC[b]
        BY DEF c
      <4> HIDE DEF bufC, progC
      <4>2. SentBuffer(b \in BuffersSent({o}, FALSE, bufC), b, bufC[b])
        BY <2>1, <2>2, <3>0, SyncData
      <4> QED BY <3>2, <4>1, <4>2 DEF SentBuffer
    <3> QED BY <3>0, <3>3, <3>4
  <2> QED BY <2>4, <2>5, <1>3, <1>7 DEF CommitsBuffers
<1> QED BY <1>6, <1>7

(* To proxies, positions, bindings and attributes at the peer              *)
CommitsPeer(o) ==
  /\ \A x \in Objects : proxy'[x] # 0 <=> proxy[x] # 0 \/ x = o
  /\ \A t \in Techniques : proxy'[t] # 0 <=> proxy[t] # 0 \/ t \in TechniquesOf(o)
  /\ \A x \in Objects : peer'.pos[x] = IF x = o THEN pos'[o] ELSE peer.pos[x]
  /\ \A t \in TechniquesOf(o) :
       /\ peer'.bind[t].program =
            IF pend[t].program # Nil THEN pend[t].program ELSE peer.bind[t].program
       /\ peer'.bind[t].vertexArray =
            IF pend[t].vertexArray # Nil THEN pend[t].vertexArray ELSE peer.bind[t].vertexArray
       /\ peer'.bind[t].draw =
            IF pend[t].draw # Nil THEN pend[t].draw ELSE peer.bind[t].draw
  /\ \A t \in Techniques \ TechniquesOf(o) :
       /\ peer'.bind[t].program = peer.bind[t].program
       /\ peer'.bind[t].vertexArray = peer.bind[t].vertexArray
       /\ peer'.bind[t].draw = peer.bind[t].draw
  /\ \A v \in VertexArrays :
       peer'.attr[v] = IF v \in UsedArrays(o) /\ IsLive(attrP[v])
                       THEN attrP[v] ELSE peer.attr[v]

(* A pending binding is to something alive, so sync sends it.              *)
LEMMA PendingSent ==
  ASSUME RInv, NEW o \in Objects, NEW t \in TechniquesOf(o)
  PROVE  /\ pend[t].program # Nil => pend[t].program \in UsedPrograms(o)
         /\ pend[t].vertexArray # Nil => pend[t].vertexArray \in UsedArrays(o)
         /\ pend[t].draw # Nil => pend[t].draw \in UsedBuffers(o) \cup {Arrays}
<1>0. TypeOK /\ PendingKept
  BY DEF RInv, Consistent, IInv, Rules
<1>1. t \in Techniques /\ pend[t] \in Binding
  BY <1>0 DEF TechniquesOf, TypeOK
<1>2. \A r \in Bindings(t) \ {Nil, Arrays} : Live(r)
  BY <1>0, <1>1 DEF PendingKept
<1>3. Arrays \notin Programs \cup VertexArrays
  BY SceneSyncAssumption DEF Things, Resources
<1>4. ASSUME pend[t].program # Nil PROVE pend[t].program \in UsedPrograms(o)
  BY <1>1, <1>2, <1>3, <1>4 DEF Bindings, Binding, UsedPrograms, CommitTechnique
<1>5. ASSUME pend[t].vertexArray # Nil PROVE pend[t].vertexArray \in UsedArrays(o)
  BY <1>1, <1>2, <1>3, <1>5 DEF Bindings, Binding, UsedArrays, CommitTechnique
<1>6. ASSUME pend[t].draw # Nil PROVE pend[t].draw \in UsedBuffers(o) \cup {Arrays}
  BY <1>1, <1>2, <1>6 DEF Bindings, Binding, Draws, UsedBuffers, CommitTechnique
<1> QED BY <1>4, <1>5, <1>6

(* The nodes among what sync makes proxies for                             *)
LEMMA NodesTouched ==
  ASSUME NEW O \in SUBSET Objects, NEW progC
  PROVE  /\ \A x \in Objects : x \in Touched(O, progC) <=> x \in ShownOf(O)
         /\ \A t \in Techniques : t \in Touched(O, progC) <=> t \in TechniquesShown(O)
<1>1. /\ ShownOf(O) \subseteq Objects /\ UnitsShown(O) \subseteq Units
      /\ TechniquesShown(O) \subseteq Techniques
  BY DEF ShownOf, UnitsShown, TechniquesShown
<1>2. ProgramsShown(O) \cup ShadersShown(O, progC) \cup VertexArraysShown(O)
        \cup BuffersShown(O) \subseteq Resources
  BY DEF ProgramsShown, ShadersShown, VertexArraysShown, BuffersShown, Resources
<1>3. /\ Objects \cap (Units \cup Techniques) = {} /\ Units \cap Techniques = {}
      /\ (Objects \cup Units \cup Techniques) \cap Resources = {}
  BY SceneSyncAssumption DEF Nodes
<1> QED BY <1>1, <1>2, <1>3 DEF Touched, TouchedWithoutBuffers

LEMMA CommitPeerEffects ==
  ASSUME RInv, NEW o \in Objects, Committing(o), CommitsTree(o), session # 0
  PROVE  CommitsPeer(o)
<1>0. TypeOK
  BY DEF RInv, Consistent, IInv
<1>1. PICK given \in [Units -> Techniques \cup {Nil}] : CommitTree(o, given)
  BY DEF Committing, Commit
<1>2. PICK progC, bufC : Sync({o}, FALSE, progC, bufC)
  BY <1>1 DEF CommitTree
<1>3. /\ ShownOf({o}) = {o} /\ TechniquesShown({o}) = TechniquesOf(o)
      /\ ProgramsShown({o}) = UsedPrograms(o) /\ VertexArraysShown({o}) = UsedArrays(o)
      /\ BuffersShown({o}) = UsedBuffers(o)
  BY CommitShows
<1>4. session' = session /\ {o} \in SUBSET Objects /\ TechniquesOf(o) \subseteq Techniques
  BY DEF CommitsTree, TechniquesOf
<1>5. \A x \in Things : proxy'[x] # 0 <=> proxy[x] # 0 \/ x \in Touched({o}, progC)
  BY <1>2, <1>4 DEF Sync
<1>6. /\ \A x \in Objects : x \in Touched({o}, progC) <=> x \in ShownOf({o})
      /\ \A t \in Techniques : t \in Touched({o}, progC) <=> t \in TechniquesShown({o})
  BY <1>4, NodesTouched
<1>7. \A x \in Objects : proxy'[x] # 0 <=> proxy[x] # 0 \/ x = o
  BY <1>3, <1>5, <1>6 DEF Things, Nodes
<1>8. \A t \in Techniques : proxy'[t] # 0 <=> proxy[t] # 0 \/ t \in TechniquesOf(o)
  BY <1>3, <1>5, <1>6 DEF Things, Nodes
<1>9. \A x \in Objects : peer'.pos[x] = IF x = o THEN pos'[o] ELSE peer.pos[x]
  BY <1>2, <1>3 DEF Sync
<1>10. \A t \in Techniques : peer'.bind[t] = SyncTechnique({o}, FALSE, t)
  BY <1>2 DEF Sync
<1>11. ASSUME NEW t \in TechniquesOf(o)
       PROVE  /\ peer'.bind[t].program =
                   IF pend[t].program # Nil THEN pend[t].program ELSE peer.bind[t].program
              /\ peer'.bind[t].vertexArray =
                   IF pend[t].vertexArray # Nil
                   THEN pend[t].vertexArray ELSE peer.bind[t].vertexArray
              /\ peer'.bind[t].draw =
                   IF pend[t].draw # Nil THEN pend[t].draw ELSE peer.bind[t].draw
  <2>1. peer'.bind[t] = SyncTechnique({o}, FALSE, t) /\ cur'[t] = CommitTechnique(t)
    BY <1>4, <1>10 DEF CommitsTree
  <2>2. /\ pend[t].program # Nil => pend[t].program \in UsedPrograms(o)
        /\ pend[t].vertexArray # Nil => pend[t].vertexArray \in UsedArrays(o)
        /\ pend[t].draw # Nil => pend[t].draw \in UsedBuffers(o) \cup {Arrays}
    BY PendingSent
  <2> QED BY <2>1, <2>2, <1>3 DEF SyncTechnique, CommitTechnique
<1>12. ASSUME NEW t \in Techniques \ TechniquesOf(o)
       PROVE  /\ peer'.bind[t].program = peer.bind[t].program
              /\ peer'.bind[t].vertexArray = peer.bind[t].vertexArray
              /\ peer'.bind[t].draw = peer.bind[t].draw
  <2>1. peer'.bind[t] = SyncTechnique({o}, FALSE, t)
    BY <1>10
  <2> QED BY <2>1, <1>3 DEF SyncTechnique
<1>13. ASSUME NEW v \in VertexArrays
       PROVE  peer'.attr[v] = IF v \in UsedArrays(o) /\ IsLive(attrP[v])
                              THEN attrP[v] ELSE peer.attr[v]
  <2>1. peer'.attr[v] = IF v \in VertexArraysSent({o}) THEN attrC'[v] ELSE peer.attr[v]
    BY <1>2 DEF Sync
  <2>2. v \in VertexArraysSent({o}) <=> v \in UsedArrays(o) /\ attrC'[v] \in UsedBuffers(o)
    BY <1>3 DEF VertexArraysSent
  <2>3. CASE v \in UsedArrays(o)
    <3>1. attrC'[v] = attrP[v] /\ attrP[v] \in Buffers \cup {Nil}
      BY <1>0, <2>3 DEF CommitsTree, TypeOK
    <3>2. attrP[v] \in UsedBuffers(o) <=> IsLive(attrP[v])
      BY <2>3, <3>1, SceneSyncAssumption DEF UsedBuffers, IsLive, Things, Resources
    <3> QED BY <2>1, <2>2, <2>3, <3>1, <3>2
  <2> QED BY <2>1, <2>2, <2>3
<1> QED BY <1>7, <1>8, <1>9, <1>11, <1>12, <1>13 DEF CommitsPeer

----------------------------------------------------------------------------
(* A commit keeps the invariant                                            *)
Effects(o) ==
  /\ CommitsTree(o) /\ CommitsPrograms(o) /\ CommitsBuffers(o)
  /\ session # 0 => CommitsPeer(o)
  /\ session = 0 => UNCHANGED <<proxy, peer>>

LEMMA CommitEffects ==
  ASSUME RInv, NEW o \in Objects, Committing(o)
  PROVE  Effects(o)
<1>1. CommitsTree(o)
  BY CommitTreeEffects
<1>2. CommitsPrograms(o) /\ CommitsBuffers(o) /\ (session # 0 => CommitsPeer(o))
  BY <1>1, CommitProgramsEffects, CommitBuffersEffects, CommitPeerEffects
<1>3. session = 0 => UNCHANGED <<proxy, peer>>
  BY DEF Committing, Commit, CommitTree
<1> QED BY <1>1, <1>2, <1>3 DEF Effects

(* What was in use stays in use, and only what the object's techniques use *)
(* joins it.                                                               *)
UseGrows(o) ==
  /\ \A t \in Techniques :
       /\ cur[t].program # Nil => cur'[t].program = cur[t].program
       /\ cur[t].vertexArray # Nil => cur'[t].vertexArray = cur[t].vertexArray
       /\ cur[t].draw \in Buffers => cur'[t].draw = cur[t].draw
  /\ \A v \in VertexArrays : attrC[v] # Nil => attrC'[v] = attrC[v]
  /\ \A p \in Programs : DrawsWith(p)' <=> DrawsWith(p) \/ p \in UsedPrograms(o)
  /\ \A b \in Buffers : InUse(b) => InUse(b)'
  /\ \A b \in UsedBuffers(o) : InUse(b)'
  /\ \A b \in Buffers : Live(b) /\ InUse(b)' => InUse(b) \/ b \in UsedBuffers(o)

LEMMA CommitUse ==
  ASSUME RInv, NEW o \in Objects, Effects(o)
  PROVE  UseGrows(o)
<1>0. TypeOK /\ BindingsKept /\ CommitsTree(o)
  BY DEF RInv, Consistent, IInv, Rules, Effects
<1>1. TechniquesOf(o) \subseteq Techniques /\ UNCHANGED stage
  BY <1>0 DEF TechniquesOf, CommitsTree
<1>2. \A t \in Techniques : cur'[t] = IF t \in TechniquesOf(o) THEN CommitTechnique(t) ELSE cur[t]
  BY <1>0 DEF CommitsTree
<1>3. Nil \notin Programs \cup VertexArrays \cup Buffers /\ Programs \cap Buffers = {}
  BY SceneSyncAssumption, SceneRefinementAssumption DEF Things, Resources
<1>4. ASSUME NEW t \in Techniques
      PROVE  /\ cur[t].program # Nil => cur'[t].program = cur[t].program
             /\ cur[t].vertexArray # Nil => cur'[t].vertexArray = cur[t].vertexArray
             /\ cur[t].draw \in Buffers => cur'[t].draw = cur[t].draw
  <2>1. /\ pend[t].program # Nil /\ cur[t].program # Nil => pend[t].program = cur[t].program
        /\ pend[t].vertexArray # Nil /\ cur[t].vertexArray # Nil
             => pend[t].vertexArray = cur[t].vertexArray
        /\ pend[t].draw # Nil /\ cur[t].draw \in Buffers => pend[t].draw = cur[t].draw
    BY <1>0 DEF BindingsKept
  <2>2. CASE t \in TechniquesOf(o)
    <3>0. cur'[t] = CommitTechnique(t)
      BY <1>2, <2>2
    <3>1. /\ cur'[t].program = IF pend[t].program # Nil THEN pend[t].program ELSE cur[t].program
          /\ cur'[t].vertexArray = IF pend[t].vertexArray # Nil
                                   THEN pend[t].vertexArray ELSE cur[t].vertexArray
          /\ cur'[t].draw = IF pend[t].draw # Nil THEN pend[t].draw ELSE cur[t].draw
      BY <3>0 DEF CommitTechnique
    <3> QED BY <2>1, <3>1
  <2>3. CASE t \notin TechniquesOf(o)
    BY <1>2, <2>3
  <2> QED BY <2>2, <2>3
<1>5. ASSUME NEW v \in VertexArrays, attrC[v] # Nil PROVE attrC'[v] = attrC[v]
  BY <1>0, <1>5 DEF CommitsTree, BindingsKept
<1>6. ASSUME NEW p \in Programs PROVE DrawsWith(p)' <=> DrawsWith(p) \/ p \in UsedPrograms(o)
  <2>1. DrawsWith(p)' <=> Live(p) /\ \E t \in Techniques : cur'[t].program = p
    BY <1>1 DEF DrawsWith, Live
  <2>2. ASSUME NEW t \in Techniques, Live(p), cur'[t].program = p
        PROVE  DrawsWith(p) \/ p \in UsedPrograms(o)
    BY <2>2, <1>2 DEF DrawsWith, UsedPrograms
  <2>3. ASSUME p \in UsedPrograms(o) PROVE \E t \in Techniques : cur'[t].program = p
    BY <2>3, <1>1, <1>2 DEF UsedPrograms
  <2>4. ASSUME DrawsWith(p) PROVE \E t \in Techniques : cur'[t].program = p
    BY <2>4, <1>3, <1>4 DEF DrawsWith
  <2>5. p \in UsedPrograms(o) \/ DrawsWith(p) => Live(p)
    BY DEF UsedPrograms, DrawsWith
  <2> QED BY <2>1, <2>2, <2>3, <2>4, <2>5
<1>7. ASSUME NEW b \in Buffers
      PROVE  /\ InUse(b)' <=> \/ \E t \in Techniques : b \in {cur'[t].program, cur'[t].draw}
                              \/ \E t \in Techniques, v \in VertexArrays :
                                   cur'[t].vertexArray = v /\ Live(v) /\ attrC'[v] = b
             /\ \A t \in Techniques : b # cur[t].program /\ b # cur'[t].program
  <2>1. \A t \in Techniques : cur'[t] \in Binding /\ cur[t] \in Binding
    BY <1>0, <1>2, CommitTypes DEF TypeOK
  <2>2. \A t \in Techniques : b # cur[t].program /\ b # cur'[t].program
    BY <1>3, <2>1 DEF Binding
  <2> QED BY <1>1, <2>2 DEF InUse, Live
<1>8. ASSUME NEW b \in Buffers, InUse(b) PROVE InUse(b)'
  <2>1. CASE \E t \in Techniques : cur[t].draw = b
    BY <2>1, <1>4, <1>7
  <2>2. CASE \E t \in Techniques, v \in VertexArrays :
               cur[t].vertexArray = v /\ Live(v) /\ attrC[v] = b
    BY <2>2, <1>3, <1>4, <1>5, <1>7
  <2> QED BY <1>7, <1>8, <2>1, <2>2 DEF InUse
<1>9. ASSUME NEW b \in UsedBuffers(o) PROVE InUse(b)'
  <2>0. b \in Buffers
    BY DEF UsedBuffers
  <2>1. CASE \E t \in TechniquesOf(o) : CommitTechnique(t).draw = b
    BY <2>0, <2>1, <1>1, <1>2, <1>7
  <2>2. CASE \E v \in UsedArrays(o) : attrP[v] = b
    <3>1. PICK v \in UsedArrays(o) : attrP[v] = b
      BY <2>2
    <3>2. PICK t \in TechniquesOf(o) : CommitTechnique(t).vertexArray = v
      BY DEF UsedArrays
    <3>3. v \in VertexArrays /\ Live(v) /\ attrC'[v] = b
      BY <1>0, <3>1 DEF UsedArrays, CommitsTree
    <3>4. t \in Techniques /\ cur'[t].vertexArray = v
      BY <1>1, <1>2, <3>2
    <3> QED BY <2>0, <3>3, <3>4, <1>7
  <2> QED BY <2>1, <2>2 DEF UsedBuffers
<1>10. ASSUME NEW b \in Buffers, Live(b), InUse(b)' PROVE InUse(b) \/ b \in UsedBuffers(o)
  <2>1. CASE \E t \in Techniques : cur'[t].draw = b
    BY <2>1, <1>2, <1>10 DEF InUse, UsedBuffers
  <2>2. CASE \E t \in Techniques, v \in VertexArrays :
               cur'[t].vertexArray = v /\ Live(v) /\ attrC'[v] = b
    <3>1. PICK t \in Techniques, v \in VertexArrays :
            cur'[t].vertexArray = v /\ Live(v) /\ attrC'[v] = b
      BY <2>2
    <3>2. CASE v \in UsedArrays(o)
      BY <1>0, <1>10, <3>1, <3>2 DEF CommitsTree, UsedBuffers
    <3>3. CASE v \notin UsedArrays(o)
      <4>1. attrC[v] = b
        BY <1>0, <3>1, <3>3 DEF CommitsTree
      <4>2. t \notin TechniquesOf(o)
        BY <1>2, <3>1, <3>3 DEF UsedArrays
      <4> QED BY <1>2, <3>1, <4>1, <4>2 DEF InUse
    <3> QED BY <3>2, <3>3
  <2> QED BY <1>7, <1>10, <2>1, <2>2
<1> QED BY <1>4, <1>5, <1>6, <1>8, <1>9, <1>10 DEF UseGrows

(* A commit breaks no rule that holds before it.                           *)
LEMMA CommitRules ==
  ASSUME RInv, NEW o \in Objects, Committing(o), Effects(o)
  PROVE  Rules'
<1>0. TypeOK /\ CommitsTree(o) /\ CommitsPrograms(o) /\ CommitsBuffers(o) /\ UseGrows(o)
  BY CommitUse DEF RInv, Consistent, IInv, Effects
<1>r. AppFirst /\ OneTechnique /\ ShadersKept /\ PendingKept /\ ReadyFirst /\ BindingsKept
  BY DEF RInv, Consistent, Rules
<1>1. UNCHANGED <<stage, owner, app, attrP>>
  BY <1>0 DEF CommitsTree
<1>2. TechniquesOf(o) \subseteq Techniques /\ UnitsOf(o) \subseteq Units
      /\ UsedPrograms(o) \subseteq Programs /\ UsedBuffers(o) \subseteq Buffers
  BY DEF TechniquesOf, UnitsOf, UsedPrograms, UsedBuffers
<1>3. \A t \in Techniques : cur'[t] = IF t \in TechniquesOf(o) THEN CommitTechnique(t) ELSE cur[t]
  BY <1>0 DEF CommitsTree
<1>4. \A t \in Techniques : pend'[t] = IF t \in TechniquesOf(o) THEN NoBinding ELSE pend[t]
  BY <1>0 DEF CommitsTree
<1>5. \A v \in VertexArrays : attrC'[v] = IF v \in UsedArrays(o) THEN attrP[v] ELSE attrC[v]
  BY <1>0 DEF CommitsTree
<1>6. AppFirst'
  <2>1. \A x \in Objects : committed'[x] => committed[x] \/ x = o
    BY <1>0, <1>2, SceneSyncAssumption DEF CommitsTree, Nodes
  <2> QED BY <1>1, <1>r, <2>1 DEF AppFirst, Committing
<1>7. OneTechnique'
  BY <1>1, <1>r DEF OneTechnique, Live
<1>8. ShadersKept'
  <2>1. ASSUME NEW p \in Programs
        PROVE  prog'[p].shaders \cup prog'[p].pShaders \subseteq
                 prog[p].shaders \cup prog[p].pShaders
    BY <1>0 DEF CommitsPrograms
  <2> QED BY <1>1, <1>r, <2>1 DEF ShadersKept, Live
<1>9. PendingKept'
  <2>1. \A t \in Techniques : Bindings(t)' \ {Nil} \subseteq Bindings(t) \ {Nil}
    BY <1>4 DEF Bindings, NoBinding
  <2> QED BY <1>1, <1>5, <1>r, <2>1 DEF PendingKept, Live
<1>10. ReadyFirst'
  <2>1. ASSUME NEW t \in Techniques
        PROVE  /\ {pend'[t].draw, cur'[t].draw} \subseteq {pend[t].draw, cur[t].draw, Nil}
               /\ {pend'[t].program, cur'[t].program} \subseteq
                    {pend[t].program, cur[t].program, Nil}
    <3>1. CASE t \in TechniquesOf(o)
      <4>1. cur'[t] = CommitTechnique(t) /\ pend'[t] = NoBinding
        BY <1>3, <1>4, <3>1
      <4> QED BY <4>1 DEF CommitTechnique, NoBinding
    <3> QED BY <1>3, <1>4, <3>1
  <2>2. ASSUME NEW b \in Buffers
        PROVE  \/ buf'[b].data # 0 \/ buf'[b].pData # 0
               \/ /\ \A t \in Techniques : b \notin {pend'[t].draw, cur'[t].draw}
                  /\ \A v \in VertexArrays : attrP[v] # b
               \/ ~Live(b)
    <3>1. CASE b \in UsedBuffers(o)
      BY <1>0, <3>1 DEF CommitsBuffers
    <3>2. CASE b \notin UsedBuffers(o)
      <4>1. buf'[b] = buf[b] /\ b # Nil
        BY <1>0, <3>2, SceneSyncAssumption DEF CommitsBuffers, Things, Resources
      <4>2. \/ buf[b].data # 0 \/ buf[b].pData # 0
            \/ /\ \A t \in Techniques : b \notin {pend[t].draw, cur[t].draw}
               /\ \A v \in VertexArrays : attrP[v] # b
            \/ ~Live(b)
        BY <1>r DEF ReadyFirst
      <4> QED BY <4>1, <4>2, <2>1
    <3> QED BY <3>1, <3>2
  <2>3. ASSUME NEW t \in Techniques, NEW p \in Programs, Live(p),
               p \in {pend'[t].program, cur'[t].program}
        PROVE  prog'[p].linked \/ prog'[p].pLink
    <3>1. CASE p \in UsedPrograms(o)
      BY <1>0, <3>1 DEF CommitsPrograms
    <3>2. CASE p \notin UsedPrograms(o)
      <4>1. prog'[p] = prog[p] /\ p # Nil
        BY <1>0, <3>2, SceneSyncAssumption DEF CommitsPrograms, Things, Resources
      <4> QED BY <4>1, <2>1, <2>3, <1>r DEF ReadyFirst
    <3> QED BY <3>1, <3>2
  <2>4. ASSUME NEW p \in Programs, prog'[p].linked PROVE prog'[p].pShaders = {}
    BY <2>4, <1>0, <1>r DEF CommitsPrograms, ReadyFirst
  <2> QED BY <1>1, <2>2, <2>3, <2>4 DEF ReadyFirst, Live
<1>11. BindingsKept'
  <2>1. ASSUME NEW p \in Programs, prog'[p].linked, ~prog'[p].shouldLink PROVE InUse(p)'
    <3>1. CASE p \in UsedPrograms(o)
      BY <1>0, <3>1 DEF UseGrows, DrawsWith, InUse
    <3>2. CASE p \notin UsedPrograms(o)
      <4>1. InUse(p)
        BY <1>0, <1>r, <2>1, <3>2 DEF CommitsPrograms, BindingsKept
      <4>2. p \notin Buffers /\ p # Nil /\ p # Arrays
        BY SceneSyncAssumption, SceneRefinementAssumption DEF Things, Resources
      <4>3. PICK t \in Techniques : cur[t].program = p
        <5>1. \A t \in Techniques : cur[t].draw \in Buffers \cup {Arrays, Nil}
          BY <1>0 DEF TypeOK, Binding, Draws
        <5>2. \A v \in VertexArrays : attrC[v] \in Buffers \cup {Nil}
          BY <1>0 DEF TypeOK
        <5> QED BY <4>1, <4>2, <5>1, <5>2 DEF InUse
      <4>4. cur'[t].program = p
        BY <1>0, <4>2, <4>3 DEF UseGrows
      <4> QED BY <4>4 DEF InUse
    <3> QED BY <3>1, <3>2
  <2>2. ASSUME NEW b \in Buffers, buf'[b].data # 0, ~buf'[b].damaged PROVE InUse(b)'
    <3>1. CASE b \in UsedBuffers(o)
      BY <1>0, <3>1 DEF UseGrows
    <3>2. CASE b \notin UsedBuffers(o)
      BY <1>0, <1>r, <2>2, <3>2 DEF CommitsBuffers, BindingsKept, UseGrows
    <3> QED BY <3>1, <3>2
  <2>3. ASSUME NEW t \in Techniques
        PROVE  /\ pend'[t].program # Nil /\ cur'[t].program # Nil
                    => pend'[t].program = cur'[t].program
               /\ pend'[t].vertexArray # Nil /\ cur'[t].vertexArray # Nil
                    => pend'[t].vertexArray = cur'[t].vertexArray
               /\ pend'[t].draw # Nil /\ cur'[t].draw \in Buffers => pend'[t].draw = cur'[t].draw
    <3>1. CASE t \in TechniquesOf(o)
      <4>1. pend'[t] = NoBinding
        BY <1>4, <3>1
      <4> QED BY <4>1 DEF NoBinding
    <3>2. CASE t \notin TechniquesOf(o)
      <4>1. pend'[t] = pend[t] /\ cur'[t] = cur[t]
        BY <1>3, <1>4, <3>2
      <4> QED BY <1>r, <4>1 DEF BindingsKept
    <3> QED BY <3>1, <3>2
  <2>4. \A v \in VertexArrays : attrC'[v] # Nil => attrP'[v] = attrC'[v]
    BY <1>1, <1>5, <1>r DEF BindingsKept
  <2> QED BY <2>1, <2>2, <2>3, <2>4 DEF BindingsKept
<1> QED BY <1>6, <1>7, <1>8, <1>9, <1>10, <1>11 DEF Rules

(* ... and keeps what is committed in shape.                               *)
LEMMA CommitShape ==
  ASSUME RInv, NEW o \in Objects, Committing(o), Effects(o)
  PROVE  CommittedBorn' /\ Shape'
<1>0. TypeOK /\ Tree /\ Shape /\ CommittedBorn /\ PendingKept /\ CommitsTree(o)
  BY DEF RInv, Consistent, IInv, Rules, Effects
<1>1. UNCHANGED <<stage, owner>>
  BY <1>0 DEF CommitsTree
<1>2. TechniquesOf(o) \subseteq Techniques /\ UnitsOf(o) \subseteq Units
  BY DEF TechniquesOf, UnitsOf
<1>3. Objects \cap (Units \cup Techniques) = {} /\ Units \cap Techniques = {}
  BY SceneSyncAssumption
<1>4. CommittedBorn'
  <2>1. ASSUME NEW t \in Techniques
        PROVE  Born(cur[t].program)' /\ Born(cur[t].vertexArray)' /\ Born(cur[t].draw)'
    <3>1. CASE t \in TechniquesOf(o)
      <4>1. cur'[t] = CommitTechnique(t)
        BY <1>0, <3>1 DEF CommitsTree
      <4>2. \A r \in Bindings(t) : Born(r)
        BY <1>0 DEF PendingKept, Born, Live
      <4>3. /\ cur'[t].program \in {pend[t].program, cur[t].program}
            /\ cur'[t].vertexArray \in {pend[t].vertexArray, cur[t].vertexArray}
            /\ cur'[t].draw \in {pend[t].draw, cur[t].draw}
        BY <4>1 DEF CommitTechnique
      <4>4. Born(cur'[t].program) /\ Born(cur'[t].vertexArray) /\ Born(cur'[t].draw)
        BY <1>0, <4>2, <4>3 DEF CommittedBorn, Bindings
      <4> QED BY <1>1, <4>4 DEF Born
    <3>2. CASE t \notin TechniquesOf(o)
      <4>1. cur'[t] = cur[t]
        BY <1>0, <3>2 DEF CommitsTree
      <4> QED BY <1>0, <1>1, <4>1 DEF CommittedBorn, Born
    <3> QED BY <3>1, <3>2
  <2>2. ASSUME NEW v \in VertexArrays PROVE Born(attrC[v])'
    <3>1. attrC'[v] \in {attrP[v], attrC[v]}
      BY <1>0 DEF CommitsTree
    <3>2. Born(attrC[v]) /\ (attrP[v] # attrC[v] => Born(attrP[v]))
      BY <1>0 DEF CommittedBorn, PendingKept, Born, Live
    <3> QED BY <1>1, <3>1, <3>2 DEF Born
  <2> QED BY <2>1, <2>2 DEF CommittedBorn
<1>5. \A x \in Nodes :
        committed'[x] <=> committed[x] \/ x = o \/ x \in UnitsOf(o) \/ x \in TechniquesOf(o)
  BY <1>0 DEF CommitsTree
<1>6. ASSUME NEW x \in Nodes, committed'[x] PROVE Live(x)
  BY <1>0, <1>5, <1>6 DEF Shape, Committing, UnitsOf, TechniquesOf
<1>7. ASSUME NEW u \in Units
      PROVE  /\ Live(u) => owner[u] \in Objects
             /\ committed'[u] => committed'[owner[u]]
             /\ technique'[u] # Nil => committed'[technique'[u]]
  <2>1. Live(u) => owner[u] \in Objects
    BY <1>0 DEF Shape
  <2>2. ASSUME committed'[u] PROVE committed'[owner[u]]
    <3>1. u \in Nodes /\ Live(u)
      BY <2>2, <1>6 DEF Nodes
    <3>2. committed[u] \/ owner[u] = o
      BY <2>2, <3>1, <1>2, <1>3, <1>5 DEF UnitsOf
    <3>3. owner[u] \in Nodes
      BY <2>1, <3>1 DEF Nodes
    <3> QED BY <1>0, <1>5, <3>2, <3>3 DEF Shape, Nodes
  <2>3. ASSUME technique'[u] # Nil PROVE committed'[technique'[u]]
    <3>1. technique'[u] = technique[u] \/ technique'[u] \in TechniquesOf(o)
      BY <1>0, <2>3 DEF CommitsTree
    <3>2. CASE technique'[u] = technique[u]
      <4>1. technique[u] \in Nodes
        BY <1>0, <2>3, <3>2 DEF TypeOK, Nodes
      <4> QED BY <1>0, <1>5, <2>3, <3>2, <4>1 DEF Shape
    <3> QED BY <1>2, <1>5, <3>1, <3>2 DEF Nodes
  <2> QED BY <2>1, <2>2, <2>3
<1>8. ASSUME NEW t \in Techniques
      PROVE  /\ Live(t) => owner[t] \in Units
             /\ committed'[t] => committed'[owner[t]] /\ technique'[owner[t]] = t
             /\ ~committed'[t] => cur'[t] = NoBinding
  <2>1. Live(t) => owner[t] \in Units
    BY <1>0 DEF Shape
  <2>2. t \in Nodes /\ (committed'[t] <=> committed[t] \/ t \in TechniquesOf(o))
    BY <1>2, <1>3, <1>5 DEF Nodes
  <2>3. CASE t \in TechniquesOf(o)
    BY <2>2, <2>3, <1>0, <1>2, <1>5 DEF CommitsTree, TechniquesOf, Nodes
  <2>4. CASE t \notin TechniquesOf(o)
    <3>1. ~committed'[t] => cur'[t] = NoBinding
      BY <2>2, <2>4, <1>0 DEF CommitsTree, Shape
    <3>2. ASSUME committed'[t] PROVE committed'[owner[t]] /\ technique'[owner[t]] = t
      <4>1. committed[t] /\ Live(t) /\ owner[t] \in Units
        BY <2>1, <2>2, <2>4, <3>2, <1>6
      <4>2. committed[owner[t]] /\ technique[owner[t]] = t
        BY <1>0, <4>1 DEF Shape
      <4>3. committed'[owner[t]]
        BY <1>5, <4>1, <4>2 DEF Nodes
      <4>4. owner[t] \notin UnitsOf(o)
        BY <2>4, <4>1 DEF TechniquesOf
      <4>5. technique'[owner[t]] = technique[owner[t]]
        BY <4>1, <4>4 DEF Committing, Commit, CommitTree
      <4> QED BY <4>2, <4>3, <4>5
    <3> QED BY <2>1, <3>1, <3>2
  <2> QED BY <2>1, <2>3, <2>4
<1>9. Shape'
  BY <1>1, <1>6, <1>7, <1>8 DEF Shape, Live
<1> QED BY <1>4, <1>9

(* ... and tells the peer of a session all that changed.                   *)
LEMMA CommitProgramInv ==
  ASSUME RInv, NEW o \in Objects, Effects(o)
  PROVE  ProgramInv'
<1>0. ProgramInv /\ CommitsTree(o) /\ CommitsPrograms(o) /\ UseGrows(o)
  BY CommitUse DEF RInv, Consistent, Effects
<1>1. UNCHANGED <<session, stage>>
  BY <1>0 DEF CommitsTree
<1> SUFFICES ASSUME NEW p \in Programs
             PROVE  /\ prog'[p].linked => Live(p)' /\ prog'[p].shaders = prog'[p].linkedWith
                    /\ DrawsWith(p)' => prog'[p].linked
                    /\ session # 0 =>
                         /\ DrawsWith(p)' => ~prog'[p].shouldLink
                         /\ peer'.shaders[p] = IF prog'[p].linked /\ ~prog'[p].shouldLink
                                               THEN prog'[p].linkedWith ELSE {}
  BY <1>1 DEF ProgramInv
<1>2. CASE p \in UsedPrograms(o)
  <2>1. Live(p)'
    BY <1>1, <1>2 DEF UsedPrograms, Live
  <2> QED BY <1>0, <1>2, <2>1 DEF CommitsPrograms
<1>3. CASE p \notin UsedPrograms(o)
  <2>1. prog'[p] = prog[p] /\ peer'.shaders[p] = peer.shaders[p]
    BY <1>0, <1>3 DEF CommitsPrograms
  <2>2. DrawsWith(p)' <=> DrawsWith(p)
    BY <1>0, <1>3 DEF UseGrows
  <2>3. Live(p)' <=> Live(p)
    BY <1>1 DEF Live
  <2> QED BY <1>0, <2>1, <2>2, <2>3 DEF ProgramInv
<1> QED BY <1>2, <1>3

LEMMA CommitVertexArrayInv ==
  ASSUME RInv, NEW o \in Objects, Effects(o)
  PROVE  VertexArrayInv'
<1>0. VertexArrayInv /\ CommitsTree(o) /\ UseGrows(o)
  BY CommitUse DEF RInv, Consistent, Effects
<1>1. UNCHANGED <<session, stage>>
  BY <1>0 DEF CommitsTree
<1> SUFFICES ASSUME session # 0, NEW v \in VertexArrays
             PROVE  /\ IsLive(peer'.attr[v]) => peer'.attr[v] = attrC'[v]
                    /\ Live(v) /\ IsLive(attrC'[v])
                         /\ (\E t \in Techniques : cur'[t].vertexArray = v)
                         => peer'.attr[v] = attrC'[v]
  BY <1>1 DEF VertexArrayInv, IsLive, Live
<1>2. Nil \notin Resources
  BY SceneSyncAssumption DEF Things
<1>3. peer'.attr[v] = IF v \in UsedArrays(o) /\ IsLive(attrP[v])
                      THEN attrP[v] ELSE peer.attr[v]
  BY DEF Effects, CommitsPeer
<1>4. attrC'[v] = IF v \in UsedArrays(o) THEN attrP[v] ELSE attrC[v]
  BY <1>0 DEF CommitsTree
<1>5. /\ IsLive(peer.attr[v]) => peer.attr[v] = attrC[v]
      /\ Live(v) /\ IsLive(attrC[v]) /\ (\E t \in Techniques : cur[t].vertexArray = v)
           => peer.attr[v] = attrC[v]
  BY <1>0 DEF VertexArrayInv
<1>6. attrC[v] # Nil => attrC'[v] = attrC[v]
  BY <1>0 DEF UseGrows
<1>7. CASE v \in UsedArrays(o) /\ IsLive(attrP[v])
  BY <1>3, <1>4, <1>7
<1>8. CASE v \in UsedArrays(o) /\ ~IsLive(attrP[v])
  <2>1. peer'.attr[v] = peer.attr[v] /\ attrC'[v] = attrP[v]
    BY <1>3, <1>4, <1>8
  <2>2. ~IsLive(peer.attr[v])
    BY <1>2, <1>5, <1>6, <1>8, <2>1 DEF IsLive
  <2> QED BY <1>8, <2>1, <2>2
<1>9. CASE v \notin UsedArrays(o)
  <2>1. peer'.attr[v] = peer.attr[v] /\ attrC'[v] = attrC[v]
    BY <1>3, <1>4, <1>9
  <2>2. ASSUME Live(v), NEW t \in Techniques, cur'[t].vertexArray = v
        PROVE  cur[t].vertexArray = v
    BY <1>0, <1>9, <2>2 DEF CommitsTree, UsedArrays
  <2> QED BY <1>5, <2>1, <2>2
<1> QED BY <1>7, <1>8, <1>9

LEMMA CommitBufferInv ==
  ASSUME RInv, NEW o \in Objects, Effects(o)
  PROVE  BufferInv'
<1>0. BufferInv /\ CommitsTree(o) /\ CommitsBuffers(o) /\ UseGrows(o)
  BY CommitUse DEF RInv, Consistent, Effects
<1>1. UNCHANGED <<session, stage>>
  BY <1>0 DEF CommitsTree
<1> SUFFICES ASSUME NEW b \in Buffers
             PROVE  /\ buf'[b].data # 0 => Live(b)'
                    /\ Live(b)' /\ InUse(b)' => buf'[b].data # 0
                    /\ peer'.data[b] # 0
                    /\ session # 0 =>
                         /\ Live(b)' /\ InUse(b)' => ~buf'[b].damaged
                         /\ buf'[b].data # 0 /\ ~buf'[b].damaged => peer'.data[b] = buf'[b].data
  BY <1>1 DEF BufferInv
<1>2. Live(b)' <=> Live(b)
  BY <1>1 DEF Live
<1>3. CASE b \in UsedBuffers(o)
  <2>1. Live(b)
    BY <1>3 DEF UsedBuffers
  <2>2. peer'.data[b] # 0
    BY <1>0, <1>3 DEF CommitsBuffers, BufferInv
  <2> QED BY <1>0, <1>2, <1>3, <2>1, <2>2 DEF CommitsBuffers
<1>4. CASE b \notin UsedBuffers(o)
  <2>1. buf'[b] = buf[b] /\ peer'.data[b] = peer.data[b]
    BY <1>0, <1>4 DEF CommitsBuffers
  <2>2. Live(b) /\ InUse(b)' => InUse(b)
    BY <1>0, <1>4 DEF UseGrows
  <2> QED BY <1>0, <1>2, <2>1, <2>2 DEF BufferInv
<1> QED BY <1>3, <1>4

LEMMA CommitNodeInv ==
  ASSUME RInv, NEW o \in Objects, Committing(o), Effects(o)
  PROVE  NodeInv' /\ NoSession'
<1>0. TypeOK /\ NodeInv /\ NoSession /\ CommitsTree(o)
  BY DEF RInv, Consistent, IInv, Effects
<1>1. UNCHANGED <<session, stage>>
  BY <1>0 DEF CommitsTree
<1>2. NoSession'
  BY <1>0, <1>1 DEF NoSession, Effects, EmptyPeer
<1>3. ASSUME session # 0 PROVE NodeInv'
  <2>0. CommitsPeer(o)
    BY <1>3 DEF Effects
  <2>1. TechniquesOf(o) \subseteq Techniques /\ UnitsOf(o) \subseteq Units
    BY DEF TechniquesOf, UnitsOf
  <2>2. Objects \cap (Units \cup Techniques) = {} /\ Units \cap Techniques = {}
    BY SceneSyncAssumption
  <2>3. \A x \in Nodes :
          committed'[x] <=> committed[x] \/ x = o \/ x \in UnitsOf(o) \/ x \in TechniquesOf(o)
    BY <1>0 DEF CommitsTree
  <2>4. ASSUME NEW x \in Objects
        PROVE  /\ proxy'[x] # 0 <=> committed'[x]
               /\ committed'[x] => peer'.pos[x] = pos'[x]
    <3>1. committed'[x] <=> committed[x] \/ x = o
      BY <2>1, <2>2, <2>3 DEF Nodes
    <3>2. proxy'[x] # 0 <=> proxy[x] # 0 \/ x = o
      BY <2>0 DEF CommitsPeer
    <3>3. (proxy[x] # 0 <=> committed[x]) /\ (committed[x] => peer.pos[x] = pos[x])
      BY <1>0, <1>3 DEF NodeInv
    <3>4. peer'.pos[x] = IF x = o THEN pos'[o] ELSE peer.pos[x]
      BY <2>0 DEF CommitsPeer
    <3>5. x # o => pos'[x] = pos[x]
      BY <1>0 DEF Committing, TypeOK
    <3> QED BY <3>1, <3>2, <3>3, <3>4, <3>5
  <2>5. ASSUME NEW t \in Techniques
        PROVE  /\ proxy'[t] # 0 <=> committed'[t]
               /\ Agree(peer'.bind[t].program, cur'[t].program)
               /\ Agree(peer'.bind[t].vertexArray, cur'[t].vertexArray)
               /\ Agree(peer'.bind[t].draw, cur'[t].draw)
    <3>1. committed'[t] <=> committed[t] \/ t \in TechniquesOf(o)
      BY <2>1, <2>2, <2>3 DEF Nodes
    <3>2. proxy'[t] # 0 <=> proxy[t] # 0 \/ t \in TechniquesOf(o)
      BY <2>0 DEF CommitsPeer
    <3>3. /\ proxy[t] # 0 <=> committed[t]
          /\ Agree(peer.bind[t].program, cur[t].program)
          /\ Agree(peer.bind[t].vertexArray, cur[t].vertexArray)
          /\ Agree(peer.bind[t].draw, cur[t].draw)
      BY <1>0, <1>3 DEF NodeInv
    <3>4. CASE t \in TechniquesOf(o)
      <4>1. cur'[t] = CommitTechnique(t)
        BY <1>0, <3>4 DEF CommitsTree
      <4>2. /\ cur'[t].program = IF pend[t].program # Nil THEN pend[t].program ELSE cur[t].program
            /\ cur'[t].vertexArray = IF pend[t].vertexArray # Nil
                                     THEN pend[t].vertexArray ELSE cur[t].vertexArray
            /\ cur'[t].draw = IF pend[t].draw # Nil THEN pend[t].draw ELSE cur[t].draw
        BY <4>1 DEF CommitTechnique
      <4>3. /\ peer'.bind[t].program =
                 IF pend[t].program # Nil THEN pend[t].program ELSE peer.bind[t].program
            /\ peer'.bind[t].vertexArray =
                 IF pend[t].vertexArray # Nil THEN pend[t].vertexArray ELSE peer.bind[t].vertexArray
            /\ peer'.bind[t].draw =
                 IF pend[t].draw # Nil THEN pend[t].draw ELSE peer.bind[t].draw
        BY <2>0, <3>4 DEF CommitsPeer
      <4>4. \A x : Agree(x, x)
        BY DEF Agree
      <4> QED BY <3>1, <3>2, <3>3, <4>2, <4>3, <4>4
    <3>5. CASE t \notin TechniquesOf(o)
      <4>1. cur'[t] = cur[t]
        BY <1>0, <3>5 DEF CommitsTree
      <4>2. /\ peer'.bind[t].program = peer.bind[t].program
            /\ peer'.bind[t].vertexArray = peer.bind[t].vertexArray
            /\ peer'.bind[t].draw = peer.bind[t].draw
        BY <2>0, <3>5 DEF CommitsPeer
      <4> QED BY <3>1, <3>2, <3>3, <4>1, <4>2
    <3> QED BY <3>4, <3>5
  <2> QED BY <1>1, <2>4, <2>5 DEF NodeInv, Agree, IsLive, Live
<1>4. NodeInv'
  <2>1. session = 0 => NodeInv'
    BY <1>1 DEF NodeInv
  <2> QED BY <1>3, <2>1
<1> QED BY <1>2, <1>4

(* Together: a commit keeps all of the invariant but IInv.                 *)
LEMMA CommitConsistent ==
  ASSUME RInv, NEW o \in Objects, Committing(o)
  PROVE  Rules' /\ Consistent'
<1>1. Effects(o)
  BY CommitEffects
<1> QED BY <1>1, CommitRules, CommitShape, CommitProgramInv, CommitVertexArrayInv,
           CommitBufferInv, CommitNodeInv DEF Consistent

----------------------------------------------------------------------------
(* A session that comes up is told everything                              *)
CommittedObjects == {o \in Objects : Live(o) /\ committed[o]}

LEMMA EstablishShows ==
  ASSUME RInv, UNCHANGED clientVars
  PROVE  /\ ShownOf(CommittedObjects) = {o \in Objects : committed[o]}
         /\ TechniquesShown(CommittedObjects) = {t \in Techniques : committed[t]}
         /\ ProgramsShown(CommittedObjects) = {p \in Programs : DrawsWith(p)}
         /\ VertexArraysShown(CommittedObjects) =
              {v \in VertexArrays : Live(v) /\ \E t \in Techniques : cur[t].vertexArray = v}
         /\ BuffersShown(CommittedObjects) = {b \in Buffers : Live(b) /\ InUse(b)}
<1>0. TypeOK /\ Tree /\ Shape /\ AppFirst
  BY DEF RInv, Consistent, IInv, Rules
<1>1. UNCHANGED <<committed, technique, cur, attrC>>
  BY DEF clientVars
<1>2. Nil \notin Techniques \cup Programs \cup VertexArrays \cup Buffers
      /\ Programs \cap Buffers = {}
  BY SceneSyncAssumption, SceneRefinementAssumption DEF Things, Nodes, Resources
<1> DEFINE O == CommittedObjects
<1>3. ShownOf(O) = {o \in Objects : committed[o]}
  BY <1>0 DEF ShownOf, CommittedObjects, AppFirst, Shape, Nodes
<1>4. UnitsShown(O) = {u \in Units : Live(u) /\ committed[u] /\ owner[u] \in ShownOf(O)}
  BY <1>1 DEF UnitsShown
<1>5. TechniquesShown(O) = {t \in Techniques : \E u \in UnitsShown(O) : technique[u] = t}
  BY <1>1 DEF TechniquesShown
<1>6. ASSUME NEW t \in TechniquesShown(O) PROVE t \in Techniques /\ committed[t]
  BY <1>0, <1>2, <1>4, <1>5 DEF Shape
<1>7. ASSUME NEW t \in Techniques, committed[t] PROVE t \in TechniquesShown(O)
  <2>1. /\ owner[t] \in Units /\ committed[owner[t]] /\ technique[owner[t]] = t
        /\ Live(owner[t]) /\ owner[owner[t]] \in Objects /\ committed[owner[owner[t]]]
    BY <1>0, <1>7 DEF Shape, Nodes
  <2> QED BY <1>3, <1>4, <1>5, <2>1
<1>8. TechniquesShown(O) = {t \in Techniques : committed[t]}
  BY <1>6, <1>7
<1>9. \A t \in Techniques : ~committed[t] =>
        cur[t].program = Nil /\ cur[t].vertexArray = Nil /\ cur[t].draw = Nil
  BY <1>0 DEF Shape, NoBinding
<1>10. ProgramsShown(O) = {p \in Programs : DrawsWith(p)}
  BY <1>1, <1>2, <1>8, <1>9 DEF ProgramsShown, DrawsWith
<1>11. VertexArraysShown(O) =
         {v \in VertexArrays : Live(v) /\ \E t \in Techniques : cur[t].vertexArray = v}
  BY <1>1, <1>2, <1>8, <1>9 DEF VertexArraysShown
<1>12. BuffersShown(O) = {b \in Buffers : Live(b) /\ InUse(b)}
  <2>1. \A t \in Techniques : \A b \in Buffers : b # cur[t].program
    BY <1>0, <1>2 DEF TypeOK, Binding
  <2>2. ASSUME NEW b \in Buffers, Live(b)
        PROVE  InUse(b) <=> \/ \E v \in VertexArraysShown(O) : attrC[v] = b
                            \/ \E t \in TechniquesShown(O) : cur[t].draw = b
    BY <2>1, <1>2, <1>8, <1>9, <1>11 DEF InUse
  <2> QED BY <1>1, <2>2 DEF BuffersShown
<1> QED BY <1>3, <1>8, <1>10, <1>11, <1>12

(* What a step into a new session sends, and leaves of programs and buffers *)
Told ==
  /\ session = 0 /\ session' # 0 /\ UNCHANGED <<clientVars, pos>>
  /\ \A p \in Programs :
       /\ LinkedLike(prog'[p], prog[p])
       /\ DrawsWith(p) => ~prog'[p].shouldLink
                          /\ peer'.shaders[p] = {s \in prog[p].shaders : Live(s)}
       /\ ~DrawsWith(p) => prog'[p].shouldLink = prog[p].shouldLink
                           /\ peer'.shaders[p] = {}
  /\ \A b \in Buffers :
       /\ buf'[b].data = buf[b].data /\ buf'[b].pData = buf[b].pData
       /\ Live(b) /\ InUse(b) => ~buf'[b].damaged /\ peer'.data[b] = buf[b].data
       /\ ~(Live(b) /\ InUse(b)) => buf'[b].damaged = buf[b].damaged /\ peer'.data[b] = Nil
  /\ \A o \in Objects : proxy'[o] # 0 <=> committed[o]
  /\ \A t \in Techniques : proxy'[t] # 0 <=> committed[t]
  /\ \A o \in Objects : committed[o] => peer'.pos[o] = pos[o]
  /\ \A t \in Techniques :
       /\ peer'.bind[t].program = IF IsLive(cur[t].program) THEN cur[t].program ELSE Nil
       /\ peer'.bind[t].vertexArray =
            IF IsLive(cur[t].vertexArray) THEN cur[t].vertexArray ELSE Nil
       /\ peer'.bind[t].draw = IF IsLive(cur[t].draw) \/ cur[t].draw = Arrays
                               THEN cur[t].draw ELSE Nil
  /\ \A v \in VertexArrays :
       peer'.attr[v] = IF /\ Live(v) /\ IsLive(attrC[v])
                          /\ \E t \in Techniques : cur[t].vertexArray = v
                       THEN attrC[v] ELSE Nil

LEMMA EstablishTells ==
  ASSUME RInv, EstablishSession
  PROVE  Told
<1>0. TypeOK /\ Shape /\ NoSession
  BY DEF RInv, Consistent, IInv
<1>1. session = 0 /\ session' = sessions + 1 /\ UNCHANGED <<clientVars, pos>>
  BY DEF EstablishSession
<1>2. session' # 0
  BY <1>0, <1>1 DEF TypeOK
<1> DEFINE O == CommittedObjects
<1>3. Sync(O, TRUE, prog, buf) /\ O \in SUBSET Objects
  BY DEF EstablishSession, CommittedObjects
<1>4. /\ ShownOf(O) = {o \in Objects : committed[o]}
      /\ TechniquesShown(O) = {t \in Techniques : committed[t]}
      /\ ProgramsShown(O) = {p \in Programs : DrawsWith(p)}
      /\ VertexArraysShown(O) =
           {v \in VertexArrays : Live(v) /\ \E t \in Techniques : cur[t].vertexArray = v}
      /\ BuffersShown(O) = {b \in Buffers : Live(b) /\ InUse(b)}
  BY <1>1, EstablishShows
<1>5. peer = EmptyPeer /\ \A x \in Things : proxy[x] = 0
  BY <1>0, <1>1 DEF NoSession
<1>6. prog \in [Programs -> Program] /\ buf \in [Buffers -> Buffer]
  BY <1>0 DEF TypeOK
<1> HIDE DEF O
<1>7. ASSUME NEW p \in Programs
      PROVE  /\ LinkedLike(prog'[p], prog[p])
             /\ DrawsWith(p) => ~prog'[p].shouldLink
                                /\ peer'.shaders[p] = {s \in prog[p].shaders : Live(s)}
             /\ ~DrawsWith(p) => prog'[p].shouldLink = prog[p].shouldLink
                                 /\ peer'.shaders[p] = {}
  <2>1. SentProgram(p \in ProgramsSent(O, TRUE, prog), p, prog[p])
    BY <1>3, <1>6, SyncPrograms
  <2>2. p \in ProgramsSent(O, TRUE, prog) <=> DrawsWith(p)
    BY <1>4 DEF ProgramsSent
  <2>3. peer.shaders[p] = {}
    BY <1>5 DEF EmptyPeer
  <2> QED BY <2>1, <2>2, <2>3 DEF SentProgram, LinkedLike
<1>8. ASSUME NEW b \in Buffers
      PROVE  /\ buf'[b].data = buf[b].data /\ buf'[b].pData = buf[b].pData
             /\ Live(b) /\ InUse(b) => ~buf'[b].damaged /\ peer'.data[b] = buf[b].data
             /\ ~(Live(b) /\ InUse(b)) => buf'[b].damaged = buf[b].damaged /\ peer'.data[b] = Nil
  <2>1. SentBuffer(b \in BuffersSent(O, TRUE, buf), b, buf[b])
    BY <1>3, <1>6, SyncData
  <2>2. b \in BuffersSent(O, TRUE, buf) <=> Live(b) /\ InUse(b)
    BY <1>4 DEF BuffersSent
  <2>3. peer.data[b] = Nil
    BY <1>5 DEF EmptyPeer
  <2> QED BY <2>1, <2>2, <2>3 DEF SentBuffer
<1>9. \A x \in Things : proxy'[x] # 0 <=> x \in Touched(O, prog)
  BY <1>2, <1>3, <1>5 DEF Sync
<1>10. /\ \A x \in Objects : x \in Touched(O, prog) <=> x \in ShownOf(O)
       /\ \A t \in Techniques : t \in Touched(O, prog) <=> t \in TechniquesShown(O)
  BY <1>3, NodesTouched
<1>11. /\ \A o \in Objects : proxy'[o] # 0 <=> committed[o]
       /\ \A t \in Techniques : proxy'[t] # 0 <=> committed[t]
  BY <1>4, <1>9, <1>10 DEF Things, Nodes
<1>12. \A o \in Objects : committed[o] => peer'.pos[o] = pos[o]
  BY <1>1, <1>3, <1>4 DEF Sync
<1>13. ASSUME NEW t \in Techniques
       PROVE  /\ peer'.bind[t].program = IF IsLive(cur[t].program) THEN cur[t].program ELSE Nil
              /\ peer'.bind[t].vertexArray =
                   IF IsLive(cur[t].vertexArray) THEN cur[t].vertexArray ELSE Nil
              /\ peer'.bind[t].draw = IF IsLive(cur[t].draw) \/ cur[t].draw = Arrays
                                      THEN cur[t].draw ELSE Nil
  <2>1. peer'.bind[t] = SyncTechnique(O, TRUE, t)
    BY <1>3 DEF Sync
  <2>2. /\ peer.bind[t].program = Nil /\ peer.bind[t].vertexArray = Nil
        /\ peer.bind[t].draw = Nil
    BY <1>5 DEF EmptyPeer, NoBinding
  <2>3. cur'[t] = cur[t] /\ cur[t] \in Binding
    BY <1>0, <1>1 DEF TypeOK, clientVars
  <2>4. Nil \notin Resources /\ Nil # Arrays /\ Arrays \notin Resources
    BY SceneSyncAssumption DEF Things
  <2>5. /\ cur[t].program \in Programs \cup {Nil}
        /\ cur[t].vertexArray \in VertexArrays \cup {Nil}
        /\ cur[t].draw \in Buffers \cup {Arrays, Nil}
    BY <2>3 DEF Binding, Draws
  <2>6. /\ cur[t].program \in ProgramsShown(O) <=> IsLive(cur[t].program)
        /\ cur[t].vertexArray \in VertexArraysShown(O) <=> IsLive(cur[t].vertexArray)
        /\ cur[t].draw \in BuffersShown(O) <=> IsLive(cur[t].draw)
    BY <1>4, <2>4, <2>5 DEF IsLive, Resources, DrawsWith, InUse
  <2>7. CASE committed[t]
    <3>1. t \in TechniquesShown(O)
      BY <1>4, <2>7
    <3> QED BY <2>1, <2>2, <2>3, <2>6, <3>1 DEF SyncTechnique
  <2>8. CASE ~committed[t]
    <3>1. t \notin TechniquesShown(O)
      BY <1>4, <2>8
    <3>2. cur[t].program = Nil /\ cur[t].vertexArray = Nil /\ cur[t].draw = Nil
      BY <1>0, <2>8 DEF Shape, NoBinding
    <3>3. /\ peer'.bind[t].program = Nil /\ peer'.bind[t].vertexArray = Nil
          /\ peer'.bind[t].draw = Nil
      BY <2>1, <2>2, <3>1 DEF SyncTechnique
    <3> QED BY <3>2, <3>3, <2>4 DEF IsLive
  <2> QED BY <2>7, <2>8
<1>14. ASSUME NEW v \in VertexArrays
       PROVE  peer'.attr[v] = IF /\ Live(v) /\ IsLive(attrC[v])
                                 /\ \E t \in Techniques : cur[t].vertexArray = v
                              THEN attrC[v] ELSE Nil
  <2>1. peer'.attr[v] = IF v \in VertexArraysSent(O) THEN attrC'[v] ELSE peer.attr[v]
    BY <1>3 DEF Sync
  <2>2. peer.attr[v] = Nil /\ attrC'[v] = attrC[v] /\ attrC[v] \in Buffers \cup {Nil}
    BY <1>0, <1>1, <1>5 DEF EmptyPeer, clientVars, TypeOK
  <2>3. Nil \notin Resources
    BY SceneSyncAssumption DEF Things
  <2>4. v \in VertexArraysSent(O) <=> /\ Live(v) /\ IsLive(attrC[v])
                                      /\ \E t \in Techniques : cur[t].vertexArray = v
    BY <1>4, <2>2, <2>3 DEF VertexArraysSent, IsLive, InUse, Resources
  <2> QED BY <2>1, <2>2, <2>4
<1> QED BY <1>1, <1>2, <1>7, <1>8, <1>11, <1>12, <1>13, <1>14 DEF Told

LEMMA EstablishConsistent ==
  ASSUME RInv, EstablishSession
  PROVE  Rules' /\ Consistent'
<1>0. /\ TypeOK /\ CommittedBorn /\ Shape /\ ProgramInv /\ BufferInv /\ Told
      /\ AppFirst /\ OneTechnique /\ ShadersKept /\ PendingKept /\ ReadyFirst /\ BindingsKept
  BY EstablishTells DEF RInv, Consistent, IInv, Rules
<1>1. /\ session = 0 /\ session' # 0 /\ pos' = pos
      /\ UNCHANGED <<stage, owner, app, committed, technique, pend, cur, attrP, attrC>>
  BY <1>0 DEF Told, clientVars
<1>2. Nil \notin Things /\ Nil # Arrays /\ Arrays \notin Things
  BY SceneSyncAssumption
<1>3. \A r : InUse(r)' <=> InUse(r)
  BY <1>1 DEF InUse, Live
<1>4. \A p \in Programs : DrawsWith(p)' <=> DrawsWith(p)
  BY <1>1 DEF DrawsWith, Live
<1>5. \A p \in Programs : LinkedLike(prog'[p], prog[p])
  BY <1>0 DEF Told
<1>6. Rules'
  <2>1. AppFirst' /\ OneTechnique' /\ PendingKept'
    BY <1>0, <1>1 DEF AppFirst, OneTechnique, PendingKept, Bindings, Live
  <2>2. ShadersKept'
    BY <1>0, <1>1, <1>5 DEF ShadersKept, Live, LinkedLike
  <2>3. ReadyFirst'
    <3>1. \A b \in Buffers : buf'[b].data = buf[b].data /\ buf'[b].pData = buf[b].pData
      BY <1>0 DEF Told
    <3> QED BY <1>0, <1>1, <1>5, <3>1 DEF ReadyFirst, Live, LinkedLike
  <2>4. BindingsKept'
    <3>1. ASSUME NEW p \in Programs, prog'[p].linked, ~prog'[p].shouldLink PROVE InUse(p)
      <4>1. CASE DrawsWith(p)
        BY <4>1 DEF DrawsWith, InUse
      <4>2. CASE ~DrawsWith(p)
        BY <1>0, <1>5, <3>1, <4>2 DEF Told, LinkedLike, BindingsKept
      <4> QED BY <4>1, <4>2
    <3>2. ASSUME NEW b \in Buffers, buf'[b].data # 0, ~buf'[b].damaged PROVE InUse(b)
      BY <1>0, <3>2 DEF Told, BindingsKept
    <3> QED BY <1>0, <1>1, <1>3, <3>1, <3>2 DEF BindingsKept
  <2> QED BY <2>1, <2>2, <2>3, <2>4 DEF Rules
<1>7. CommittedBorn' /\ Shape'
  BY <1>0, <1>1 DEF CommittedBorn, Born, Shape, Live
<1>8. ProgramInv'
  <2> SUFFICES ASSUME NEW p \in Programs
               PROVE  /\ prog'[p].linked => Live(p) /\ prog'[p].shaders = prog'[p].linkedWith
                      /\ DrawsWith(p) => prog'[p].linked /\ ~prog'[p].shouldLink
                      /\ peer'.shaders[p] = IF prog'[p].linked /\ ~prog'[p].shouldLink
                                            THEN prog'[p].linkedWith ELSE {}
    BY <1>1, <1>4 DEF ProgramInv, Live
  <2>1. /\ prog[p].linked => Live(p) /\ prog[p].shaders = prog[p].linkedWith
        /\ DrawsWith(p) => prog[p].linked
    BY <1>0 DEF ProgramInv
  <2>2. LinkedLike(prog'[p], prog[p])
    BY <1>5
  <2>3. CASE DrawsWith(p)
    <3>1. {s \in prog[p].shaders : Live(s)} = prog[p].shaders
      BY <1>0 DEF ShadersKept
    <3>2. ~prog'[p].shouldLink /\ peer'.shaders[p] = {s \in prog[p].shaders : Live(s)}
      BY <1>0, <2>3 DEF Told
    <3> QED BY <2>1, <2>2, <2>3, <3>1, <3>2 DEF LinkedLike
  <2>4. CASE ~DrawsWith(p)
    <3>1. prog'[p].shouldLink = prog[p].shouldLink /\ peer'.shaders[p] = {}
      BY <1>0, <2>4 DEF Told
    <3>2. ~(prog[p].linked /\ ~prog[p].shouldLink)
      <4>1. SUFFICES ASSUME prog[p].linked, ~prog[p].shouldLink PROVE FALSE
        OBVIOUS
      <4>2. InUse(p) /\ Live(p)
        BY <1>0, <2>1, <4>1 DEF BindingsKept
      <4>3. p # Nil /\ p # Arrays /\ p \notin Buffers
        BY <1>2, SceneRefinementAssumption DEF Things, Resources
      <4>4. \A t \in Techniques : cur[t].draw # p
        BY <1>0, <4>3 DEF TypeOK, Binding, Draws
      <4>5. \A v \in VertexArrays : attrC[v] # p
        BY <1>0, <4>3 DEF TypeOK
      <4> QED BY <2>4, <4>2, <4>4, <4>5 DEF InUse, DrawsWith
    <3> QED BY <2>1, <2>2, <2>4, <3>1, <3>2 DEF LinkedLike
  <2> QED BY <2>3, <2>4
<1>9. VertexArrayInv'
  BY <1>0, <1>1, <1>2 DEF VertexArrayInv, Told, IsLive, Live, Things
<1>10. BufferInv'
  <2> SUFFICES ASSUME NEW b \in Buffers
               PROVE  /\ buf'[b].data # 0 => Live(b)
                      /\ Live(b) /\ InUse(b) => buf'[b].data # 0 /\ ~buf'[b].damaged
                      /\ peer'.data[b] # 0
                      /\ buf'[b].data # 0 /\ ~buf'[b].damaged => peer'.data[b] = buf'[b].data
    BY <1>1, <1>3 DEF BufferInv, Live
  <2>1. /\ buf[b].data # 0 => Live(b)
        /\ Live(b) /\ InUse(b) => buf[b].data # 0
        /\ buf[b].data # 0 /\ ~buf[b].damaged => InUse(b)
    BY <1>0 DEF BufferInv, BindingsKept
  <2>2. Nil # 0
    BY SceneSyncAssumption, SceneRefinementAssumption
  <2>3. buf'[b].data = buf[b].data
    BY <1>0 DEF Told
  <2>4. CASE Live(b) /\ InUse(b)
    <3>1. ~buf'[b].damaged /\ peer'.data[b] = buf[b].data
      BY <1>0, <2>4 DEF Told
    <3> QED BY <2>1, <2>3, <2>4, <3>1
  <2>5. CASE ~(Live(b) /\ InUse(b))
    <3>1. buf'[b].damaged = buf[b].damaged /\ peer'.data[b] = Nil
      BY <1>0, <2>5 DEF Told
    <3> QED BY <2>1, <2>2, <2>3, <2>5, <3>1
  <2> QED BY <2>4, <2>5
<1>11. NodeInv'
  <2>1. \A o \in Objects : (proxy'[o] # 0 <=> committed[o]) /\ (committed[o] => peer'.pos[o] = pos[o])
    BY <1>0 DEF Told
  <2>2. ASSUME NEW t \in Techniques
        PROVE  /\ proxy'[t] # 0 <=> committed[t]
               /\ Agree(peer'.bind[t].program, cur[t].program)
               /\ Agree(peer'.bind[t].vertexArray, cur[t].vertexArray)
               /\ Agree(peer'.bind[t].draw, cur[t].draw)
    <3>1. ~IsLive(Nil)
      BY <1>2 DEF IsLive, Things
    <3>2. cur[t] \in Binding
      BY <1>0 DEF TypeOK
    <3>3. cur[t].program # Arrays /\ cur[t].vertexArray # Arrays
      BY <1>2, <3>2 DEF Binding, Things, Resources
    <3>4. /\ proxy'[t] # 0 <=> committed[t]
          /\ peer'.bind[t].program = IF IsLive(cur[t].program) THEN cur[t].program ELSE Nil
          /\ peer'.bind[t].vertexArray =
               IF IsLive(cur[t].vertexArray) THEN cur[t].vertexArray ELSE Nil
          /\ peer'.bind[t].draw = IF IsLive(cur[t].draw) \/ cur[t].draw = Arrays
                                  THEN cur[t].draw ELSE Nil
      BY <1>0 DEF Told
    <3> QED BY <1>2, <3>1, <3>3, <3>4 DEF Agree
  <2> QED BY <1>1, <2>1, <2>2 DEF NodeInv, Agree, IsLive, Live
<1>12. NoSession'
  BY <1>1 DEF NoSession
<1> QED BY <1>6, <1>7, <1>8, <1>9, <1>10, <1>11, <1>12 DEF Consistent

----------------------------------------------------------------------------
(* The session, or the client, goes                                        *)
LEMMA DisconnectConsistent ==
  ASSUME RInv, DisconnectSession
  PROVE  Rules' /\ Consistent'
<1>0. Rules /\ Consistent
  BY DEF RInv
<1>1. /\ session' = 0 /\ peer' = EmptyPeer /\ (\A x \in Things : proxy'[x] = 0)
      /\ UNCHANGED <<stage, owner, app, committed, technique, pend, cur, attrP, attrC, prog, buf>>
  BY DEF DisconnectSession, clientVars
<1>2. Rules'
  BY <1>0, <1>1 DEF Rules, AppFirst, OneTechnique, ShadersKept, PendingKept, Bindings, ReadyFirst,
                    BindingsKept, InUse, Live
<1>3. CommittedBorn' /\ Shape'
  BY <1>0, <1>1 DEF Consistent, CommittedBorn, Born, Shape, Live
<1>4. \A b \in Buffers : peer'.data[b] # 0
  BY <1>1, SceneSyncAssumption, SceneRefinementAssumption DEF EmptyPeer
<1>5. ProgramInv' /\ VertexArrayInv' /\ NodeInv' /\ NoSession'
  BY <1>0, <1>1 DEF Consistent, ProgramInv, VertexArrayInv, NodeInv, NoSession, DrawsWith, Live
<1>6. BufferInv'
  BY <1>0, <1>1, <1>4 DEF Consistent, BufferInv, InUse, Live
<1> QED BY <1>2, <1>3, <1>5, <1>6 DEF Consistent

(* All is as at the start, but for the ids that were used.                 *)
Empty ==
  /\ \A x \in Nodes : ~committed[x]
  /\ \A x \in Units \cup Techniques : ~Live(x)
  /\ \A u \in Units : technique[u] = Nil
  /\ \A t \in Techniques : pend[t] = NoBinding /\ cur[t] = NoBinding
  /\ \A p \in Programs : prog[p] = NewProgram
  /\ \A v \in VertexArrays : attrP[v] = Nil /\ attrC[v] = Nil
  /\ \A b \in Buffers : buf[b].data = 0
  /\ peer = EmptyPeer /\ \A x \in Things : proxy[x] = 0

LEMMA EmptyConsistent == Empty => Rules /\ Consistent
<1> SUFFICES ASSUME Empty PROVE Rules /\ Consistent
  OBVIOUS
<1>0. Objects \subseteq Nodes /\ Units \subseteq Nodes /\ Techniques \subseteq Nodes
      /\ Nodes \subseteq Things
  BY DEF Nodes, Things
<1>1. Nil \notin Resources /\ Nil # Arrays /\ Nil # 0 /\ Arrays \notin Resources
  BY SceneSyncAssumption, SceneRefinementAssumption DEF Things
<1>2. \A t \in Techniques :
        /\ cur[t].program = Nil /\ cur[t].vertexArray = Nil /\ cur[t].draw = Nil
        /\ pend[t].program = Nil /\ pend[t].vertexArray = Nil /\ pend[t].draw = Nil
  BY DEF Empty, NoBinding
<1>3. \A p \in Programs : ~prog[p].linked /\ prog[p].shaders = {} /\ prog[p].pShaders = {}
  BY DEF Empty, NewProgram
<1>4. \A r \in Resources : ~InUse(r)
  BY <1>1, <1>2 DEF InUse, Empty, Resources
<1>5. \A p \in Programs : ~DrawsWith(p)
  BY <1>1, <1>2 DEF DrawsWith, Resources
<1>6. Rules
  <2>1. AppFirst /\ OneTechnique /\ ShadersKept
    BY <1>0, <1>3 DEF AppFirst, OneTechnique, ShadersKept, Empty
  <2>2. PendingKept
    BY <1>2 DEF PendingKept, Bindings, Empty
  <2>3. ReadyFirst
    BY <1>1, <1>2, <1>3 DEF ReadyFirst, Empty, Resources
  <2>4. BindingsKept
    BY <1>2, <1>3 DEF BindingsKept, Empty
  <2> QED BY <2>1, <2>2, <2>3, <2>4 DEF Rules
<1>7. CommittedBorn /\ Shape
  BY <1>0, <1>2 DEF CommittedBorn, Born, Shape, Empty
<1>8. ProgramInv
  BY <1>3, <1>5 DEF ProgramInv, Empty, EmptyPeer
<1>9. VertexArrayInv
  BY <1>1 DEF VertexArrayInv, IsLive, Empty, EmptyPeer
<1>10. BufferInv
  BY <1>1, <1>4 DEF BufferInv, Empty, EmptyPeer, Resources
<1>11. NodeInv
  <2>1. \A t \in Techniques : /\ peer.bind[t].program = Nil /\ peer.bind[t].vertexArray = Nil
                              /\ peer.bind[t].draw = Nil
    BY DEF Empty, EmptyPeer, NoBinding
  <2> QED BY <1>0, <1>2, <2>1 DEF NodeInv, Agree, Empty
<1>12. NoSession
  BY DEF NoSession, Empty
<1> QED BY <1>6, <1>7, <1>8, <1>9, <1>10, <1>11, <1>12 DEF Consistent

LEMMA EmptyAfter == Empty' => Rules' /\ Consistent'
BY EmptyConsistent, PTL

LEMMA InitConsistent ==
  ASSUME Init
  PROVE  Rules /\ Consistent
<1>1. \A x \in Nodes : stage[x] # "live"
  BY SceneSyncAssumption DEF Init, Things
<1>2. \A b \in Buffers : buf[b].data = 0
  BY DEF Init, NewBuffer
<1>3. Empty
  BY <1>1, <1>2 DEF Init, Empty, Live, Nodes
<1> QED BY <1>3, EmptyConsistent

LEMMA GoneConsistent ==
  ASSUME ClientGone
  PROVE  Rules' /\ Consistent'
<1>1. \A x \in Units \cup Techniques : stage'[x] = "gone"
  BY DEF ClientGone, Things, Nodes
<1>2. \A b \in Buffers : buf'[b].data = 0
  BY DEF ClientGone, NewBuffer
<1>3. Empty'
  BY <1>1, <1>2 DEF ClientGone, Empty, Live
<1> QED BY <1>3, EmptyAfter

----------------------------------------------------------------------------
(* Requests                                                                *)

(* A request that changes neither what is committed nor what is sent.      *)
Quiet ==
  /\ UNCHANGED <<session, stage, owner, committed, technique, cur, attrC, proxy, peer>>
  /\ \A p \in Programs :
       /\ prog'[p].linked = prog[p].linked /\ prog'[p].shaders = prog[p].shaders
       /\ prog'[p].linkedWith = prog[p].linkedWith /\ prog'[p].shouldLink = prog[p].shouldLink
  /\ \A b \in Buffers : buf'[b].data = buf[b].data /\ buf'[b].damaged = buf[b].damaged
  /\ \A o \in Objects : committed[o] => pos'[o] = pos[o]

LEMMA QuietConsistent ==
  ASSUME RInv, Quiet
  PROVE  Consistent'
<1>0. Consistent
  BY DEF RInv
<1>1. UNCHANGED <<session, stage, owner, committed, technique, cur, attrC, proxy, peer>>
  BY DEF Quiet
<1>2. CommittedBorn' /\ Shape' /\ VertexArrayInv' /\ NoSession'
  BY <1>0, <1>1 DEF Consistent, CommittedBorn, Born, Shape, Live, VertexArrayInv, IsLive, NoSession,
                    EmptyPeer
<1>3. ProgramInv'
  <2>1. \A p \in Programs : (DrawsWith(p)' <=> DrawsWith(p)) /\ (Live(p)' <=> Live(p))
    BY <1>1 DEF DrawsWith, Live
  <2> QED BY <1>0, <1>1, <2>1 DEF Quiet, Consistent, ProgramInv
<1>4. BufferInv'
  <2>1. \A b \in Buffers : (InUse(b)' <=> InUse(b)) /\ (Live(b)' <=> Live(b))
    BY <1>1 DEF InUse, Live
  <2> QED BY <1>0, <1>1, <2>1 DEF Quiet, Consistent, BufferInv
<1>5. NodeInv'
  BY <1>0, <1>1 DEF Quiet, Consistent, NodeInv, Agree, IsLive, Live
<1> QED BY <1>2, <1>3, <1>4, <1>5 DEF Consistent

(* A request that creates x: nothing refers to it yet.                     *)
Creates(x) ==
  /\ Create(x)
  /\ UNCHANGED <<session, committed, technique, cur, attrC, pos, prog, proxy, peer>>
  /\ \/ x \notin Units \cup Techniques /\ UNCHANGED owner
     \/ x \in Units /\ \E o \in Objects : owner' = [owner EXCEPT ![x] = o]
     \/ x \in Techniques /\ \E u \in Units : owner' = [owner EXCEPT ![x] = u]
  /\ \A b \in Buffers : IF b = x THEN buf'[b].data = 0 ELSE buf'[b] = buf[b]

LEMMA CreatesConsistent ==
  ASSUME RInv, NEW x \in Things, Creates(x)
  PROVE  Consistent'
<1>0. TypeOK /\ Consistent /\ RefsBorn
  BY DEF RInv, IInv, Mirrored
<1>1. stage[x] = "unborn" /\ stage' = [stage EXCEPT ![x] = "live"]
      /\ UNCHANGED <<session, committed, technique, cur, attrC, pos, prog, proxy, peer>>
  BY DEF Creates, Create
<1>2. ASSUME NEW y PROVE stage[y] # "unborn" => y # x /\ (y \in Things => stage'[y] = stage[y])
  BY <1>0, <1>1 DEF TypeOK
<1>3. ASSUME NEW y \in Things PROVE y # x => (Live(y)' <=> Live(y))
  BY <1>0, <1>1 DEF TypeOK, Live
<1>4. Nil \notin Things /\ Nil # Arrays /\ Arrays \notin Things
  BY SceneSyncAssumption
<1>5. ASSUME NEW t \in Techniques
      PROVE  /\ x # cur[t].program /\ x # cur[t].vertexArray /\ x # cur[t].draw
             /\ x # peer.bind[t].program /\ x # peer.bind[t].vertexArray /\ x # peer.bind[t].draw
  <2>1. Born(cur[t].program) /\ Born(cur[t].vertexArray) /\ Born(cur[t].draw)
    BY <1>0 DEF Consistent, CommittedBorn
  <2>2. \A y \in PeerRefs(t) : stage[y] # "unborn"
    BY <1>0 DEF RefsBorn
  <2>3. x # Nil /\ x # Arrays
    BY <1>4
  <2> QED BY <1>1, <2>1, <2>2, <2>3 DEF Born, PeerRefs
<1>6. ASSUME NEW v \in VertexArrays PROVE x # attrC[v] /\ x # peer.attr[v]
  <2>1. Born(attrC[v]) /\ (peer.attr[v] # Nil => stage[peer.attr[v]] # "unborn")
    BY <1>0 DEF Consistent, CommittedBorn, RefsBorn
  <2>2. x # Nil /\ x # Arrays
    BY <1>4
  <2> QED BY <1>1, <2>1, <2>2 DEF Born
<1>7. \A y : y # x => (IsLive(y)' <=> IsLive(y))
  BY <1>3 DEF IsLive, Things
<1>8. ~Live(x)
  BY <1>1 DEF Live
<1>9. CommittedBorn'
  <2>1. \A y \in Resources \cup {Nil, Arrays} : Born(y) => Born(y)'
    BY <1>0, <1>1 DEF Born, TypeOK, Things
  <2>2. \A t \in Techniques : /\ cur[t].program \in Resources \cup {Nil, Arrays}
                              /\ cur[t].vertexArray \in Resources \cup {Nil, Arrays}
                              /\ cur[t].draw \in Resources \cup {Nil, Arrays}
    BY <1>0 DEF TypeOK, Binding, Draws, Resources
  <2>3. \A v \in VertexArrays : attrC[v] \in Resources \cup {Nil, Arrays}
    BY <1>0 DEF TypeOK, Resources
  <2> QED BY <1>0, <1>1, <2>1, <2>2, <2>3 DEF Consistent, CommittedBorn, Born
<1>10. Shape'
  <2>1. Shape
    BY <1>0 DEF Consistent
  <2>2. \A y \in Nodes : committed[y] => y # x /\ Live(y)
    BY <1>8, <2>1 DEF Shape
  <2>3. \A y \in (Units \cup Techniques) \ {x} : owner'[y] = owner[y]
    BY <1>0 DEF Creates, TypeOK
  <2>4. /\ x \in Units => owner'[x] \in Objects
        /\ x \in Techniques => owner'[x] \in Units
    BY <1>0, SceneSyncAssumption DEF Creates, TypeOK
  <2>5. \A y \in Nodes : committed[y] => Live(y)'
    BY <1>3, <2>2 DEF Things
  <2>6. ASSUME NEW u \in Units
        PROVE  /\ Live(u)' => owner'[u] \in Objects
               /\ committed[u] => committed[owner'[u]]
               /\ technique[u] # Nil => committed[technique[u]]
    <3>1. u \in Nodes /\ u \in Things
      BY DEF Things, Nodes
    <3> QED BY <1>3, <2>1, <2>2, <2>3, <2>4, <3>1 DEF Shape
  <2>7. ASSUME NEW t \in Techniques
        PROVE  /\ Live(t)' => owner'[t] \in Units
               /\ committed[t] => committed[owner'[t]] /\ technique[owner'[t]] = t
               /\ ~committed[t] => cur[t] = NoBinding
    <3>1. t \in Nodes /\ t \in Things
      BY DEF Things, Nodes
    <3> QED BY <1>3, <2>1, <2>2, <2>3, <2>4, <3>1 DEF Shape
  <2> QED BY <1>1, <2>5, <2>6, <2>7 DEF Shape
<1>11. ProgramInv'
  <2>1. ASSUME NEW p \in Programs
        PROVE  (DrawsWith(p)' <=> DrawsWith(p)) /\ (Live(p) => Live(p)')
    <3>1. p \in Things /\ p # x => (Live(p)' <=> Live(p))
      BY <1>3
    <3>2. p \in Things
      BY DEF Things, Resources
    <3> QED BY <1>1, <1>5, <1>8, <3>1, <3>2 DEF DrawsWith
  <2> QED BY <1>0, <1>1, <2>1 DEF Consistent, ProgramInv
<1>12. VertexArrayInv'
  <2> SUFFICES ASSUME session # 0, NEW v \in VertexArrays
               PROVE  /\ IsLive(peer.attr[v])' => peer.attr[v] = attrC[v]
                      /\ Live(v)' /\ IsLive(attrC[v])'
                           /\ (\E t \in Techniques : cur[t].vertexArray = v)
                           => peer.attr[v] = attrC[v]
    BY <1>1 DEF VertexArrayInv
  <2>1. (IsLive(peer.attr[v])' <=> IsLive(peer.attr[v])) /\ (IsLive(attrC[v])' <=> IsLive(attrC[v]))
    BY <1>1, <1>6, <1>7 DEF IsLive, Live
  <2>2. (\E t \in Techniques : cur[t].vertexArray = v) => (Live(v)' <=> Live(v))
    BY <1>3, <1>5 DEF Things, Resources
  <2> QED BY <1>0, <2>1, <2>2 DEF Consistent, VertexArrayInv
<1>13. BufferInv'
  <2> SUFFICES ASSUME NEW b \in Buffers
               PROVE  /\ buf'[b].data # 0 => Live(b)'
                      /\ Live(b)' /\ InUse(b)' => buf'[b].data # 0
                      /\ peer.data[b] # 0
                      /\ session # 0 =>
                           /\ Live(b)' /\ InUse(b)' => ~buf'[b].damaged
                           /\ buf'[b].data # 0 /\ ~buf'[b].damaged => peer.data[b] = buf'[b].data
    BY <1>1 DEF BufferInv
  <2>1. InUse(b)' <=> InUse(b)
    <3>1. \A t \in Techniques, v \in VertexArrays :
            cur[t].vertexArray = v => (Live(v)' <=> Live(v))
      BY <1>3, <1>5 DEF Things, Resources
    <3> QED BY <1>1, <3>1 DEF InUse
  <2>2. CASE b = x
    <3>1. ~InUse(b)
      BY <1>5, <1>6, <2>2 DEF InUse
    <3>2. buf'[b].data = 0
      BY <2>2 DEF Creates
    <3> QED BY <1>0, <2>1, <3>1, <3>2 DEF Consistent, BufferInv
  <2>3. CASE b # x
    <3>1. buf'[b] = buf[b] /\ (Live(b)' <=> Live(b))
      BY <1>3, <2>3 DEF Creates, Things, Resources
    <3> QED BY <1>0, <2>1, <3>1 DEF Consistent, BufferInv
  <2> QED BY <2>2, <2>3
<1>14. NodeInv'
  <2>1. ASSUME NEW t \in Techniques
        PROVE  /\ Agree(peer.bind[t].program, cur[t].program) =>
                    Agree(peer.bind[t].program, cur[t].program)'
               /\ Agree(peer.bind[t].vertexArray, cur[t].vertexArray) =>
                    Agree(peer.bind[t].vertexArray, cur[t].vertexArray)'
               /\ Agree(peer.bind[t].draw, cur[t].draw) =>
                    Agree(peer.bind[t].draw, cur[t].draw)'
    BY <1>1, <1>5, <1>7 DEF Agree, IsLive, Live
  <2> QED BY <1>0, <1>1, <2>1 DEF Consistent, NodeInv
<1>15. NoSession'
  BY <1>0, <1>1 DEF Consistent, NoSession, EmptyPeer
<1> QED BY <1>9, <1>10, <1>11, <1>12, <1>13, <1>14, <1>15 DEF Consistent

(* A resource destroyed takes with it what the peer had of it; what still  *)
(* refers to it is taken for unbound on both sides.                        *)
LEMMA DestroyResourceConsistent ==
  ASSUME RInv, NEW r \in Resources, DestroyResource(r)
  PROVE  Consistent'
<1>0. TypeOK /\ Consistent
  BY DEF RInv, IInv
<1>1. /\ stage' = [stage EXCEPT ![r] = "gone"] /\ proxy' = [proxy EXCEPT ![r] = 0]
      /\ UNCHANGED <<session, owner, committed, technique, cur, pos>>
  BY DEF DestroyResource
<1>2. peer \in Peer
  BY <1>0 DEF TypeOK
<1>3. /\ peer'.bind = peer.bind /\ peer'.pos = peer.pos
      /\ \A p \in Programs : peer'.shaders[p] = IF p = r THEN {} ELSE peer.shaders[p]
      /\ \A v \in VertexArrays : peer'.attr[v] = IF v = r THEN Nil ELSE peer.attr[v]
      /\ \A b \in Buffers : peer'.data[b] = IF b = r THEN Nil ELSE peer.data[b]
  BY <1>2 DEF DestroyResource, Peer
<1>4. ASSUME NEW x \in Things
      PROVE  /\ Live(x)' <=> Live(x) /\ x # r
             /\ stage[x] # "unborn" => stage'[x] # "unborn"
             /\ proxy'[x] = IF x = r THEN 0 ELSE proxy[x]
  BY <1>0, <1>1 DEF Live, TypeOK
<1>5. r \notin Nodes /\ \A x \in Nodes : x \in Things /\ (Live(x)' <=> Live(x)) /\ proxy'[x] = proxy[x]
  BY <1>4, SceneSyncAssumption DEF Things
<1>6. \A x : IsLive(x)' <=> IsLive(x) /\ x # r
  BY <1>4 DEF IsLive, Things
<1>7. \A v \in VertexArrays : attrC'[v] = IF v = r THEN Nil ELSE attrC[v]
  BY DEF DestroyResource
<1>8. Programs \cup VertexArrays \cup Buffers \subseteq Things /\ ~IsLive(Nil)'
  BY SceneSyncAssumption DEF Things, Resources, IsLive
<1>9. CommittedBorn'
  <2>1. \A x \in Resources \cup {Nil, Arrays} : Born(x) => Born(x)'
    BY <1>4 DEF Born, Things
  <2>2. \A t \in Techniques : /\ cur[t].program \in Resources \cup {Nil, Arrays}
                              /\ cur[t].vertexArray \in Resources \cup {Nil, Arrays}
                              /\ cur[t].draw \in Resources \cup {Nil, Arrays}
    BY <1>0 DEF TypeOK, Binding, Draws, Resources
  <2>3. \A v \in VertexArrays : attrC[v] \in Resources \cup {Nil, Arrays}
    BY <1>0 DEF TypeOK, Resources
  <2>4. \A v \in VertexArrays : Born(attrC[v]) => Born(attrC[v])'
    BY <1>7, <2>1, <2>3 DEF Born
  <2> QED BY <1>0, <1>1, <2>1, <2>2, <2>4 DEF Consistent, CommittedBorn, Born
<1>10. Shape'
  BY <1>0, <1>1, <1>5 DEF Consistent, Shape, Nodes
<1>11. ProgramInv'
  <2> SUFFICES ASSUME NEW p \in Programs
               PROVE  /\ prog'[p].linked => Live(p)' /\ prog'[p].shaders = prog'[p].linkedWith
                      /\ DrawsWith(p)' => prog'[p].linked
                      /\ session # 0 =>
                           /\ DrawsWith(p)' => ~prog'[p].shouldLink
                           /\ peer'.shaders[p] = IF prog'[p].linked /\ ~prog'[p].shouldLink
                                                 THEN prog'[p].linkedWith ELSE {}
    BY <1>1 DEF ProgramInv
  <2>1. DrawsWith(p)' <=> DrawsWith(p) /\ p # r
    BY <1>1, <1>4, <1>8 DEF DrawsWith
  <2>2. CASE p = r
    <3>1. prog'[p] = NewProgram
      BY <2>2 DEF DestroyResource
    <3> QED BY <1>3, <2>1, <2>2, <3>1 DEF NewProgram
  <2>3. CASE p # r
    <3>1. prog'[p] = prog[p] /\ peer'.shaders[p] = peer.shaders[p] /\ (Live(p)' <=> Live(p))
      BY <1>3, <1>4, <1>8, <2>3 DEF DestroyResource
    <3> QED BY <1>0, <2>1, <3>1 DEF Consistent, ProgramInv
  <2> QED BY <2>2, <2>3
<1>12. VertexArrayInv'
  <2> SUFFICES ASSUME session # 0, NEW v \in VertexArrays
               PROVE  /\ IsLive(peer.attr[v])' => peer'.attr[v] = attrC'[v]
                      /\ Live(v)' /\ IsLive(attrC[v])'
                           /\ (\E t \in Techniques : cur'[t].vertexArray = v)
                           => peer'.attr[v] = attrC'[v]
    BY <1>1 DEF VertexArrayInv
  <2>1. CASE v = r
    BY <1>3, <1>4, <1>7, <1>8, <2>1 DEF IsLive
  <2>2. CASE v # r
    <3>1. peer'.attr[v] = peer.attr[v] /\ attrC'[v] = attrC[v] /\ (Live(v)' <=> Live(v))
      BY <1>3, <1>4, <1>7, <1>8, <2>2
    <3>2. /\ IsLive(peer.attr[v])' => IsLive(peer.attr[v])
          /\ IsLive(attrC[v])' => IsLive(attrC[v])
      BY <1>6, <3>1 DEF IsLive
    <3> QED BY <1>0, <1>1, <3>1, <3>2 DEF Consistent, VertexArrayInv
  <2> QED BY <2>1, <2>2
<1>13. BufferInv'
  <2> SUFFICES ASSUME NEW b \in Buffers
               PROVE  /\ buf'[b].data # 0 => Live(b)'
                      /\ Live(b)' /\ InUse(b)' => buf'[b].data # 0
                      /\ peer'.data[b] # 0
                      /\ session # 0 =>
                           /\ Live(b)' /\ InUse(b)' => ~buf'[b].damaged
                           /\ buf'[b].data # 0 /\ ~buf'[b].damaged => peer'.data[b] = buf'[b].data
    BY <1>1 DEF BufferInv
  <2>1. InUse(b)' => InUse(b)
    <3>1. \A v \in VertexArrays : Live(v)' => Live(v) /\ attrC'[v] = attrC[v]
      BY <1>4, <1>7, <1>8
    <3> QED BY <1>1, <3>1 DEF InUse
  <2>2. CASE b = r
    <3>1. buf'[b] = NewBuffer(FALSE) /\ ~Live(b)'
      BY <1>4, <1>8, <2>2 DEF DestroyResource
    <3>2. peer'.data[b] # 0
      BY <1>3, <2>2, SceneSyncAssumption, SceneRefinementAssumption
    <3> QED BY <3>1, <3>2 DEF NewBuffer
  <2>3. CASE b # r
    <3>1. buf'[b] = buf[b] /\ peer'.data[b] = peer.data[b] /\ (Live(b)' <=> Live(b))
      BY <1>3, <1>4, <1>8, <2>3 DEF DestroyResource
    <3> QED BY <1>0, <2>1, <3>1 DEF Consistent, BufferInv
  <2> QED BY <2>2, <2>3
<1>14. NodeInv'
  <2>2. ASSUME NEW t \in Techniques
        PROVE  /\ Agree(peer.bind[t].program, cur[t].program) =>
                    Agree(peer.bind[t].program, cur[t].program)'
               /\ Agree(peer.bind[t].vertexArray, cur[t].vertexArray) =>
                    Agree(peer.bind[t].vertexArray, cur[t].vertexArray)'
               /\ Agree(peer.bind[t].draw, cur[t].draw) =>
                    Agree(peer.bind[t].draw, cur[t].draw)'
    BY <1>1, <1>3, <1>6 DEF Agree, IsLive, Live
  <2> QED BY <1>0, <1>1, <1>3, <1>5, <2>2 DEF Consistent, NodeInv, Nodes
<1>15. NoSession'
  <2> SUFFICES ASSUME session = 0 PROVE peer' = EmptyPeer /\ \A x \in Things : proxy'[x] = 0
    BY <1>1 DEF NoSession
  <2>1. peer = EmptyPeer /\ \A x \in Things : proxy'[x] = 0
    BY <1>0, <1>4 DEF Consistent, NoSession
  <2>2. /\ peer'.shaders = [p \in Programs |-> {}]
        /\ peer'.attr = [v \in VertexArrays |-> Nil]
        /\ peer'.data = [b \in Buffers |-> Nil]
    BY <1>2, <2>1 DEF DestroyResource, Peer, EmptyPeer
  <2>3. peer' = [pos |-> peer'.pos, bind |-> peer'.bind, shaders |-> peer'.shaders,
                 attr |-> peer'.attr, data |-> peer'.data]
    BY <1>2 DEF DestroyResource, Peer
  <2> QED BY <1>3, <2>1, <2>2, <2>3 DEF EmptyPeer
<1> QED BY <1>9, <1>10, <1>11, <1>12, <1>13, <1>14, <1>15 DEF Consistent

(* So do nodes.  What is committed never loses the node it is under, and a *)
(* unit loses no technique but one that goes.                              *)
NodesGo(D) ==
  /\ DestroyNodes(D)
  /\ \A u \in Units : technique'[u] # Nil =>
       technique'[u] = technique[u] /\ technique[u] \notin D
  /\ \A x \in (Units \cup Techniques) \ D : committed[x] => owner[x] \notin D
  /\ \A t \in Techniques \ D : committed[t] => technique'[owner[t]] = t

LEMMA DestroyNodesConsistent ==
  ASSUME RInv, NEW D \in SUBSET Nodes, NodesGo(D)
  PROVE  Consistent'
<1>0. TypeOK /\ Consistent /\ DestroyNodes(D)
  BY DEF RInv, IInv, NodesGo
<1>1. /\ stage' = [x \in Things |-> IF x \in D THEN "gone" ELSE stage[x]]
      /\ proxy' = [x \in Things |-> IF x \in D THEN 0 ELSE proxy[x]]
      /\ owner' = [x \in Units \cup Techniques |-> IF x \in D THEN Nil ELSE owner[x]]
      /\ pos' = [o \in Objects |-> IF o \in D THEN Start ELSE pos[o]]
      /\ committed' = [x \in Nodes |-> committed[x] /\ x \notin D]
      /\ cur' = [t \in Techniques |-> IF t \in D THEN NoBinding ELSE cur[t]]
      /\ UNCHANGED <<session, attrC, prog, buf>>
  BY <1>0 DEF DestroyNodes
<1>2. peer \in Peer
  BY <1>0 DEF TypeOK
<1>3. /\ peer'.shaders = peer.shaders /\ peer'.attr = peer.attr /\ peer'.data = peer.data
      /\ \A o \in Objects : peer'.pos[o] = IF o \in D THEN Nil ELSE peer.pos[o]
      /\ \A t \in Techniques : peer'.bind[t] = IF t \in D THEN NoBinding ELSE peer.bind[t]
  BY <1>0, <1>2 DEF DestroyNodes, Peer
<1>4. ASSUME NEW x \in Things
      PROVE  /\ Live(x)' <=> Live(x) /\ x \notin D
             /\ x \notin D => stage'[x] = stage[x]
  BY <1>1 DEF Live
<1>5. \A r \in Resources : r \in Things /\ r \notin D /\ (Live(r)' <=> Live(r))
  BY <1>4, SceneSyncAssumption DEF Things
<1>6. \A x : IsLive(x)' <=> IsLive(x)
  BY <1>5 DEF IsLive
<1>7. Nil \notin Things /\ Arrays # Nil
  BY SceneSyncAssumption
<1>8. \A t \in Techniques : cur'[t] = NoBinding \/ cur'[t] = cur[t]
  BY <1>1
<1>9. CommittedBorn'
  <2>1. \A x \in Resources \cup {Nil, Arrays} : Born(x) => Born(x)'
    BY <1>4, <1>5 DEF Born
  <2>2. \A t \in Techniques : /\ cur[t].program \in Resources \cup {Nil, Arrays}
                              /\ cur[t].vertexArray \in Resources \cup {Nil, Arrays}
                              /\ cur[t].draw \in Resources \cup {Nil, Arrays}
    BY <1>0 DEF TypeOK, Binding, Draws, Resources
  <2>3. \A v \in VertexArrays : attrC[v] \in Resources \cup {Nil, Arrays}
    BY <1>0 DEF TypeOK, Resources
  <2>4. \A v \in VertexArrays : Born(attrC[v])'
    BY <1>0, <1>1, <2>1, <2>3 DEF Consistent, CommittedBorn, Born
  <2>5. ASSUME NEW t \in Techniques
        PROVE  Born(cur[t].program)' /\ Born(cur[t].vertexArray)' /\ Born(cur[t].draw)'
    <3>1. CASE cur'[t] = NoBinding
      BY <3>1 DEF Born, NoBinding
    <3>2. CASE cur'[t] = cur[t]
      <4>1. Born(cur[t].program) /\ Born(cur[t].vertexArray) /\ Born(cur[t].draw)
        BY <1>0 DEF Consistent, CommittedBorn
      <4> QED BY <2>1, <2>2, <3>2, <4>1 DEF Born
    <3> QED BY <1>8, <3>1, <3>2
  <2> QED BY <2>4, <2>5 DEF CommittedBorn
<1>10. Shape'
  <2>1. Shape
    BY <1>0 DEF Consistent
  <2>2. \A x \in Nodes : committed'[x] <=> committed[x] /\ x \notin D
    BY <1>1
  <2>3. \A x \in Nodes : Live(x)' <=> Live(x) /\ x \notin D
    BY <1>4 DEF Things
  <2>4. \A x \in Units \cup Techniques : owner'[x] = IF x \in D THEN Nil ELSE owner[x]
    BY <1>1
  <2>5. ASSUME NEW u \in Units
        PROVE  /\ Live(u)' => owner'[u] \in Objects
               /\ committed'[u] => committed'[owner'[u]]
               /\ technique'[u] # Nil => committed'[technique'[u]]
    <3>0. u \in Nodes
      BY DEF Nodes
    <3>1. Live(u)' => owner'[u] \in Objects
      BY <2>1, <2>3, <2>4, <3>0 DEF Shape
    <3>2. ASSUME committed'[u] PROVE committed'[owner'[u]]
      <4>1. u \notin D /\ committed[u] /\ Live(u) /\ owner'[u] = owner[u]
        BY <2>1, <2>2, <2>4, <3>0, <3>2 DEF Shape
      <4>2. owner[u] \in Nodes /\ committed[owner[u]] /\ owner[u] \notin D
        BY <2>1, <4>1 DEF Shape, Nodes, NodesGo
      <4> QED BY <2>2, <4>1, <4>2
    <3>3. ASSUME technique'[u] # Nil PROVE committed'[technique'[u]]
      <4>1. technique'[u] = technique[u] /\ technique[u] \notin D
        BY <3>3 DEF NodesGo
      <4>2. technique[u] \in Nodes /\ committed[technique[u]]
        BY <1>0, <2>1, <3>3, <4>1 DEF Shape, TypeOK, Nodes
      <4> QED BY <2>2, <4>1, <4>2
    <3> QED BY <3>1, <3>2, <3>3
  <2>6. ASSUME NEW t \in Techniques
        PROVE  /\ Live(t)' => owner'[t] \in Units
               /\ committed'[t] => committed'[owner'[t]] /\ technique'[owner'[t]] = t
               /\ ~committed'[t] => cur'[t] = NoBinding
    <3>0. t \in Nodes
      BY DEF Nodes
    <3>1. Live(t)' => owner'[t] \in Units
      BY <2>1, <2>3, <2>4, <3>0 DEF Shape
    <3>2. ASSUME committed'[t] PROVE committed'[owner'[t]] /\ technique'[owner'[t]] = t
      <4>1. t \notin D /\ committed[t] /\ Live(t) /\ owner'[t] = owner[t]
        BY <2>1, <2>2, <2>4, <3>0, <3>2 DEF Shape
      <4>2. owner[t] \in Nodes /\ committed[owner[t]] /\ owner[t] \notin D
            /\ technique'[owner[t]] = t
        BY <2>1, <4>1 DEF Shape, Nodes, NodesGo
      <4> QED BY <2>2, <4>1, <4>2
    <3>3. ASSUME ~committed'[t] PROVE cur'[t] = NoBinding
      BY <1>1, <2>1, <2>2, <3>0, <3>3 DEF Shape
    <3> QED BY <3>1, <3>2, <3>3
  <2>7. \A x \in Nodes : committed'[x] => Live(x)'
    BY <2>1, <2>2, <2>3 DEF Shape
  <2> QED BY <2>5, <2>6, <2>7 DEF Shape
<1>11. ProgramInv'
  <2>1. ASSUME NEW p \in Programs PROVE (DrawsWith(p)' => DrawsWith(p)) /\ (Live(p)' <=> Live(p))
    <3>1. p # Nil /\ (Live(p)' <=> Live(p))
      BY <1>5, <1>7 DEF Resources
    <3> QED BY <1>8, <3>1 DEF DrawsWith, NoBinding
  <2> QED BY <1>0, <1>1, <1>3, <2>1 DEF Consistent, ProgramInv
<1>12. VertexArrayInv'
  <2> SUFFICES ASSUME session # 0, NEW v \in VertexArrays
               PROVE  /\ IsLive(peer.attr[v])' => peer'.attr[v] = attrC[v]
                      /\ Live(v)' /\ IsLive(attrC[v])'
                           /\ (\E t \in Techniques : cur'[t].vertexArray = v)
                           => peer'.attr[v] = attrC[v]
    BY <1>1 DEF VertexArrayInv
  <2>1. v # Nil /\ (Live(v)' <=> Live(v))
    BY <1>5, <1>7 DEF Resources
  <2>2. (\E t \in Techniques : cur'[t].vertexArray = v) => \E t \in Techniques : cur[t].vertexArray = v
    BY <1>8, <2>1 DEF NoBinding
  <2>3. (IsLive(peer.attr[v])' <=> IsLive(peer.attr[v])) /\ (IsLive(attrC[v])' <=> IsLive(attrC[v]))
    BY <1>1, <1>3, <1>6 DEF IsLive
  <2> QED BY <1>0, <1>3, <2>1, <2>2, <2>3 DEF Consistent, VertexArrayInv
<1>13. BufferInv'
  <2>1. ASSUME NEW b \in Buffers PROVE (InUse(b)' => InUse(b)) /\ (Live(b)' <=> Live(b))
    <3>1. b # Nil /\ (Live(b)' <=> Live(b))
      BY <1>5, <1>7 DEF Resources
    <3>2. \A v \in VertexArrays : v # Nil /\ (Live(v)' <=> Live(v))
      BY <1>5, <1>7 DEF Resources
    <3> QED BY <1>1, <1>8, <3>1, <3>2 DEF InUse, NoBinding
  <2> QED BY <1>0, <1>1, <1>3, <2>1 DEF Consistent, BufferInv
<1>14. NodeInv'
  <2> SUFFICES ASSUME session # 0 PROVE NodeInv'
    BY <1>1 DEF NodeInv
  <2>1. ASSUME NEW o \in Objects
        PROVE  /\ proxy'[o] # 0 <=> committed'[o]
               /\ committed'[o] => peer'.pos[o] = pos'[o]
    <3>1. o \in Nodes /\ o \in Things
      BY DEF Nodes, Things
    <3> QED BY <1>0, <1>1, <1>3, <3>1 DEF Consistent, NodeInv
  <2>2. ASSUME NEW t \in Techniques
        PROVE  /\ proxy'[t] # 0 <=> committed'[t]
               /\ Agree(peer.bind[t].program, cur[t].program)'
               /\ Agree(peer.bind[t].vertexArray, cur[t].vertexArray)'
               /\ Agree(peer.bind[t].draw, cur[t].draw)'
    <3>1. t \in Nodes /\ t \in Things
      BY DEF Nodes, Things
    <3>2. proxy'[t] # 0 <=> committed'[t]
      BY <1>0, <1>1, <3>1 DEF Consistent, NodeInv
    <3>3. CASE t \in D
      BY <1>1, <1>3, <3>2, <3>3 DEF Agree
    <3>4. CASE t \notin D
      <4>1. cur'[t] = cur[t] /\ peer'.bind[t] = peer.bind[t]
        BY <1>1, <1>3, <3>4
      <4> QED BY <1>0, <1>6, <3>2, <4>1 DEF Consistent, NodeInv, Agree, IsLive
    <3> QED BY <3>3, <3>4
  <2> QED BY <2>1, <2>2 DEF NodeInv
<1>15. NoSession'
  <2> SUFFICES ASSUME session = 0 PROVE peer' = EmptyPeer /\ \A x \in Things : proxy'[x] = 0
    BY <1>1 DEF NoSession
  <2>1. peer = EmptyPeer /\ \A x \in Things : proxy'[x] = 0
    BY <1>0, <1>1 DEF Consistent, NoSession
  <2>2. /\ peer'.pos = [o \in Objects |-> Nil]
        /\ peer'.bind = [t \in Techniques |-> NoBinding]
    BY <1>0, <1>2, <2>1 DEF DestroyNodes, Peer, EmptyPeer
  <2>3. peer' = [pos |-> peer'.pos, bind |-> peer'.bind, shaders |-> peer'.shaders,
                 attr |-> peer'.attr, data |-> peer'.data]
    BY <1>0, <1>2 DEF DestroyNodes, Peer
  <2> QED BY <1>3, <2>1, <2>2, <2>3 DEF EmptyPeer
<1> QED BY <1>9, <1>10, <1>11, <1>12, <1>13, <1>14, <1>15 DEF Consistent

LEMMA DestroysConsistent ==
  ASSUME RInv,
         \/ \E o \in Objects : DestroyObject(o)
         \/ \E u \in Units : DestroyUnit(u)
         \/ \E t \in Techniques : DestroyTechnique(t)
  PROVE  Consistent'
<1>0. TypeOK /\ Tree /\ Shape /\ OneTechnique
  BY DEF RInv, Consistent, IInv, Rules
<1>1. ASSUME NEW U \in SUBSET Units, NEW D \in SUBSET Nodes, D \cap Techniques = {},
             technique' = WithoutTechniques(U), DestroyNodes(D \cup WithTechniques(U)),
             D \cap Units \subseteq U,
             \A u \in Units : committed[u] /\ owner[u] \in D => u \in U
      PROVE  Consistent'
  <2> DEFINE E == D \cup WithTechniques(U)
  <2>1. E \in SUBSET Nodes
    BY DEF WithTechniques, Nodes
  <2>2. \A u \in Units : technique'[u] # Nil => technique'[u] = technique[u] /\ technique[u] \notin E
    BY <1>0, <1>1, TechniquesGo
  <2>3. \A u \in Units : u \in E <=> u \in U
    BY <1>1, SceneSyncAssumption DEF WithTechniques
  <2>4. ASSUME NEW u \in Units \ E, committed[u] PROVE owner[u] \notin E
    <3>1. owner[u] \in Objects /\ owner[u] \notin D
      BY <1>0, <1>1, <2>3, <2>4 DEF Shape, Nodes
    <3> QED BY <3>1, SceneSyncAssumption DEF WithTechniques
  <2>5. ASSUME NEW t \in Techniques \ E, committed[t]
        PROVE  owner[t] \notin E /\ technique'[owner[t]] = t
    <3>1. owner[t] \in Units /\ technique[owner[t]] = t
      BY <1>0, <2>5 DEF Shape, Nodes
    <3>2. owner[t] \notin U
      BY <2>5, <3>1 DEF WithTechniques
    <3> QED BY <1>1, <2>3, <3>1, <3>2 DEF WithoutTechniques
  <2>6. NodesGo(E)
    BY <1>1, <2>2, <2>4, <2>5 DEF NodesGo
  <2> HIDE DEF E
  <2> QED BY <2>1, <2>6, DestroyNodesConsistent
<1>2. ASSUME NEW o \in Objects, DestroyObject(o) PROVE Consistent'
  <2> DEFINE U == {u \in UnitsOf(o) : committed[u]}
  <2>1. /\ U \in SUBSET Units /\ {o} \in SUBSET Nodes /\ {o} \cap Techniques = {}
        /\ {o} \cap Units = {}
    BY SceneSyncAssumption DEF UnitsOf, Nodes
  <2>2. technique' = WithoutTechniques(U) /\ DestroyNodes({o} \cup WithTechniques(U))
    BY <1>2 DEF DestroyObject
  <2>3. \A u \in Units : committed[u] /\ owner[u] \in {o} => u \in U
    BY <1>0 DEF Shape, UnitsOf, Nodes
  <2> HIDE DEF U
  <2> QED BY <1>1, <2>1, <2>2, <2>3
<1>3. ASSUME NEW u \in Units, DestroyUnit(u) PROVE Consistent'
  <2>1. technique' = WithoutTechniques({u}) /\ DestroyNodes({} \cup WithTechniques({u}))
    BY <1>3 DEF DestroyUnit
  <2>2. {u} \in SUBSET Units /\ {} \in SUBSET Nodes /\ {} \cap Techniques = {}
        /\ {} \cap Units \subseteq {u} /\ \A w \in Units : committed[w] /\ owner[w] \in {} => w \in {u}
    OBVIOUS
  <2> QED BY <1>1, <2>1, <2>2
<1>4. ASSUME NEW t \in Techniques, DestroyTechnique(t) PROVE Consistent'
  <2>1. Live(t) /\ owner[t] \in Units /\ t # Nil
    BY <1>0, <1>4, SceneSyncAssumption DEF DestroyTechnique, Shape, Things, Nodes
  <2>2. technique' = [technique EXCEPT ![owner[t]] = Nil] /\ DestroyNodes({t})
    BY <1>4 DEF DestroyTechnique
  <2>3. {t} \in SUBSET Nodes
    BY DEF Nodes
  <2>4. \A u \in Units : technique'[u] # Nil => technique'[u] = technique[u] /\ technique[u] \notin {t}
    BY <1>0, <2>1, <2>2 DEF TypeOK, Tree
  <2>5. ASSUME NEW x \in (Units \cup Techniques) \ {t}, committed[x] PROVE owner[x] \notin {t}
    BY <1>0, <2>5, SceneSyncAssumption DEF Shape, Nodes
  <2>6. ASSUME NEW s \in Techniques \ {t}, committed[s] PROVE technique'[owner[s]] = s
    <3>1. Live(s) /\ owner[s] \in Units /\ technique[owner[s]] = s
      BY <1>0, <2>6 DEF Shape, Nodes
    <3>2. owner[s] # owner[t]
      BY <1>0, <2>1, <3>1 DEF OneTechnique
    <3> QED BY <1>0, <2>2, <3>1, <3>2 DEF TypeOK
  <2>7. NodesGo({t})
    BY <2>2, <2>4, <2>5, <2>6 DEF NodesGo
  <2> QED BY <2>3, <2>7, DestroyNodesConsistent
<1> QED BY <1>2, <1>3, <1>4

(* Every request keeps the peer consistent, if it keeps the rules.         *)
LEMMA RequestConsistent ==
  ASSUME RInv, ClientStep, OneApp, Rules'
  PROVE  Consistent'
<1>0. TypeOK /\ Rules
  BY DEF RInv, IInv
<1>1. ASSUME NEW o \in Objects, CreateObject(o) PROVE Consistent'
  <2>1. o \in Things /\ o \notin Units \cup Techniques /\ o \notin Buffers
    BY SceneSyncAssumption DEF Things, Nodes, Resources
  <2>2. Creates(o)
    BY <1>1, <2>1 DEF CreateObject, Creates
  <2> QED BY <2>1, <2>2, CreatesConsistent
<1>2. ASSUME NEW u \in Units, NEW o \in Objects, CreateUnit(u, o) PROVE Consistent'
  <2>1. u \in Things /\ u \notin Buffers
    BY SceneSyncAssumption DEF Things, Nodes, Resources
  <2>2. Creates(u)
    BY <1>2, <2>1 DEF CreateUnit, Creates
  <2> QED BY <2>1, <2>2, CreatesConsistent
<1>3. ASSUME NEW t \in Techniques, NEW u \in Units, CreateTechnique(t, u) PROVE Consistent'
  <2>1. t \in Things /\ t \notin Buffers
    BY SceneSyncAssumption DEF Things, Nodes, Resources
  <2>2. Creates(t)
    BY <1>3, <2>1 DEF CreateTechnique, Creates
  <2> QED BY <2>1, <2>2, CreatesConsistent
<1>4. ASSUME NEW r \in Resources, CreateResource(r) PROVE Consistent'
  <2>1. r \in Things /\ r \notin Units \cup Techniques
    BY SceneSyncAssumption DEF Things, Nodes
  <2>2. \A b \in Buffers : IF b = r THEN buf'[b].data = 0 ELSE buf'[b] = buf[b]
    <3>1. CASE r \in Buffers
      <4>1. PICK d \in BOOLEAN : buf' = [buf EXCEPT ![r] = NewBuffer(d)]
        BY <1>4, <3>1 DEF CreateResource
      <4>2. NewBuffer(d).data = 0
        BY DEF NewBuffer
      <4> QED BY <1>0, <4>1, <4>2 DEF TypeOK
    <3>2. CASE r \notin Buffers
      BY <1>4, <3>2 DEF CreateResource
    <3> QED BY <3>1, <3>2
  <2>3. Creates(r)
    BY <1>4, <2>1, <2>2 DEF CreateResource, Creates
  <2> QED BY <2>1, <2>3, CreatesConsistent
<1>5. ASSUME NEW o \in Objects, CommitObject(o) PROVE Consistent'
  <2>1. app' = app /\ committed'[o]
    BY <1>5 DEF CommitObject, Commit, CommitTree, Nodes
  <2>2. app[o]
    BY <2>1 DEF Rules, AppFirst
  <2>3. pos[o] \in Positions /\ pos' = [pos EXCEPT ![o] = pos[o]]
    BY <1>0, <1>5 DEF CommitObject, TypeOK
  <2>4. Committing(o)
    BY <1>5, <2>2, <2>3 DEF CommitObject, Committing
  <2> QED BY <2>4, CommitConsistent
<1>6. ASSUME NEW r \in Resources, DestroyResource(r) PROVE Consistent'
  BY <1>6, DestroyResourceConsistent
<1>7. ASSUME NEW o \in Objects, GetBounded(o) PROVE Consistent'
  <2>1. ~app[o] /\ ~committed[o]
    BY <1>0, <1>7 DEF OneApp, Rules, AppFirst
  <2>2. \A x \in Objects : committed[x] => pos'[x] = pos[x]
    BY <1>0, <1>7, <2>1 DEF GetBounded, TypeOK
  <2>3. Quiet
    BY <1>7, <2>2 DEF GetBounded, Quiet
  <2> QED BY <2>3, QuietConsistent
<1>8. ASSUME NEW t \in Techniques, NEW bind, SetPending(t, bind) PROVE Consistent'
  <2>1. Quiet
    BY <1>8 DEF SetPending, Quiet
  <2> QED BY <2>1, QuietConsistent
<1>9. ASSUME NEW p \in Programs, NEW new \in Program, SetProgram(p, new),
             /\ new.linked = prog[p].linked /\ new.shaders = prog[p].shaders
             /\ new.linkedWith = prog[p].linkedWith /\ new.shouldLink = prog[p].shouldLink
      PROVE  Consistent'
  <2>1. \A q \in Programs : prog'[q] = IF q = p THEN new ELSE prog[q]
    BY <1>0, <1>9 DEF SetProgram, TypeOK
  <2>2. \A q \in Programs :
          /\ prog'[q].linked = prog[q].linked /\ prog'[q].shaders = prog[q].shaders
          /\ prog'[q].linkedWith = prog[q].linkedWith /\ prog'[q].shouldLink = prog[q].shouldLink
    BY <1>9, <2>1
  <2>3. Quiet
    BY <1>9, <2>2 DEF SetProgram, clientVars, Quiet
  <2> QED BY <2>3, QuietConsistent
<1>10. ASSUME NEW p \in Programs, NEW s \in Shaders, AttachShader(p, s) PROVE Consistent'
  <2> DEFINE old == prog[p]
             new == [old EXCEPT !.pShaders = old.pShaders \cup {s}]
  <2>1. old \in Program /\ SetProgram(p, new)
    BY <1>0, <1>10 DEF AttachShader, TypeOK
  <2>2. /\ new \in Program /\ new.linked = old.linked /\ new.shaders = old.shaders
        /\ new.linkedWith = old.linkedWith /\ new.shouldLink = old.shouldLink
    <3> HIDE DEF old
    <3> QED BY <2>1 DEF Program
  <2> HIDE DEF new
  <2> QED BY <1>9, <2>1, <2>2
<1>11. ASSUME NEW p \in Programs, LinkProgram(p) PROVE Consistent'
  <2> DEFINE old == prog[p]
             new == [old EXCEPT !.pLink = TRUE]
  <2>1. old \in Program /\ SetProgram(p, new)
    BY <1>0, <1>11 DEF LinkProgram, TypeOK
  <2>2. /\ new \in Program /\ new.linked = old.linked /\ new.shaders = old.shaders
        /\ new.linkedWith = old.linkedWith /\ new.shouldLink = old.shouldLink
    <3> HIDE DEF old
    <3> QED BY <2>1 DEF Program
  <2> HIDE DEF new
  <2> QED BY <1>9, <2>1, <2>2
<1>12. ASSUME NEW v \in VertexArrays, NEW b \in Buffers, VertexAttribPointer(v, b)
       PROVE  Consistent'
  <2>1. Quiet
    BY <1>12 DEF VertexAttribPointer, Quiet
  <2> QED BY <2>1, QuietConsistent
<1>13. ASSUME NEW b \in Buffers, NEW k \in 0..MaxVersion, BufferData(b, k) PROVE Consistent'
  <2>1. \A c \in Buffers : buf[c] \in Buffer
    BY <1>0 DEF TypeOK
  <2>2. \A c \in Buffers : buf'[c].data = buf[c].data /\ buf'[c].damaged = buf[c].damaged
    BY <1>0, <1>13, <2>1 DEF BufferData, TypeOK, Buffer
  <2>3. Quiet
    BY <1>13, <2>2 DEF BufferData, clientVars, Quiet
  <2> QED BY <2>3, QuietConsistent
<1>14. ASSUME NEW t \in Techniques,
              \/ \E p \in Programs : BindProgram(t, p)
              \/ \E v \in VertexArrays : BindVertexArray(t, v)
              \/ DrawArrays(t)
              \/ \E b \in Buffers : DrawElements(t, b)
       PROVE  Consistent'
  BY <1>8, <1>14 DEF BindProgram, BindVertexArray, DrawArrays, DrawElements
<1> QED
  BY <1>1, <1>2, <1>3, <1>4, <1>5, <1>6, <1>7, <1>10, <1>11, <1>12, <1>13, <1>14,
     DestroysConsistent DEF ClientStep

----------------------------------------------------------------------------
LEMMA RulesFollowed ==
  ASSUME AllRules \subseteq Discipline, Disciplined'
  PROVE  Rules'
BY DEF AllRules, Disciplined, Rules

LEMMA RefinementInit == Init => RInv
BY InvInit, InitConsistent DEF RInv

LEMMA RefinementStep ==
  ASSUME AllRules \subseteq Discipline, RInv, [DisciplinedNext]_vars
  PROVE  RInv'
<1>0. TypeOK /\ Rules
  BY DEF RInv, IInv
<1>1. IInv'
  BY InvStep DEF RInv, DisciplinedNext, Next
<1>2. ASSUME ClientStep, Disciplined', OneApp PROVE Rules' /\ Consistent'
  BY <1>2, RulesFollowed, RequestConsistent
<1>3. ASSUME NEW o \in Objects, MoveApp(o) PROVE Rules' /\ Consistent'
  <2>1. Committing(o)
    BY <1>3 DEF MoveApp, Committing
  <2> QED BY <2>1, CommitConsistent
<1>4. ASSUME UNCHANGED vars PROVE Rules' /\ Consistent'
  <2>1. Quiet
    BY <1>4 DEF vars, clientVars, Quiet
  <2>2. AppFirst' /\ OneTechnique' /\ ShadersKept' /\ PendingKept'
    BY <1>0, <1>4 DEF vars, clientVars, Rules, AppFirst, OneTechnique, ShadersKept, PendingKept,
                      Bindings, Live
  <2>3. ReadyFirst' /\ BindingsKept'
    BY <1>0, <1>4 DEF vars, clientVars, Rules, ReadyFirst, BindingsKept, InUse, Live
  <2> QED BY <2>1, <2>2, <2>3, QuietConsistent DEF Rules
<1>5. OneApp \/ ~("one" \in Discipline => OneApp)
  BY DEF AllRules
<1> QED
  BY <1>1, <1>2, <1>3, <1>4, <1>5, EstablishConsistent, DisconnectConsistent, GoneConsistent
  DEF DisciplinedNext, SystemStep, RInv

LEMMA RefinementInvariant ==
  ASSUME AllRules \subseteq Discipline
  PROVE  DisciplinedSpec => []RInv
<1>1. RInv /\ [DisciplinedNext]_vars => RInv'
  BY RefinementStep
<1> QED BY <1>1, RefinementInit, PTL DEF DisciplinedSpec

(* Of clients that follow the rules, no buffer is sent before it has data  *)
(* (GlBuffer::sync, whose length would be uninitialised)                   *)
THEOREM UploadsFilled ==
  ASSUME AllRules \subseteq Discipline
  PROVE  DisciplinedSpec => []NoEmptyUpload
<1>1. RInv => NoEmptyUpload
  BY DEF RInv, Consistent, BufferInv, NoEmptyUpload
<1> QED BY <1>1, RefinementInvariant, PTL

----------------------------------------------------------------------------
(* The two scenes, told apart by what they are made of                     *)
Content(data, b) == IF IsLive(b) THEN <<b, data[b]>> ELSE Nil
DataHere == [b \in Buffers |-> buf[b].data]
ShadersHere == [p \in Programs |-> prog[p].linkedWith]

LEMMA ContentSame ==
  ASSUME RInv, session # 0, NEW b \in Buffers, InUse(b)
  PROVE  Content(DataHere, b) = Content(peer.data, b)
<1>1. BufferInv
  BY DEF RInv, Consistent
<1>2. Live(b) => peer.data[b] = buf[b].data
  BY <1>1 DEF BufferInv
<1> QED BY <1>2 DEF Content, DataHere, IsLive

LEMMA LookSame ==
  ASSUME RInv, session # 0, NEW t \in Techniques
  PROVE  Look(cur[t], ShadersHere, attrC, DataHere) =
           Look(peer.bind[t], peer.shaders, peer.attr, peer.data)
<1>0. TypeOK /\ ProgramInv /\ VertexArrayInv /\ BufferInv /\ NodeInv
  BY DEF RInv, Consistent, IInv
<1> DEFINE c == cur[t]
           q == peer.bind[t]
<1>1. c \in Binding /\ q \in Binding
  BY <1>0 DEF TypeOK, Peer
<1>2. Agree(q.program, c.program) /\ Agree(q.vertexArray, c.vertexArray) /\ Agree(q.draw, c.draw)
  BY <1>0 DEF NodeInv
<1>3. Nil \notin Resources /\ Arrays \notin Resources /\ Nil # Arrays
  BY SceneSyncAssumption DEF Things
<1>4. (IF IsLive(c.program) THEN <<c.program, ShadersHere[c.program]>> ELSE Nil)
        = (IF IsLive(q.program) THEN <<q.program, peer.shaders[q.program]>> ELSE Nil)
  <2>1. ASSUME IsLive(c.program), q.program = c.program
        PROVE  ShadersHere[c.program] = peer.shaders[q.program]
    <3>1. c.program \in Programs /\ DrawsWith(c.program)
      BY <1>1, <1>3, <2>1 DEF Binding, IsLive, DrawsWith
    <3> QED BY <1>0, <2>1, <3>1 DEF ProgramInv, ShadersHere
  <2> QED BY <1>2, <2>1 DEF Agree
<1>5. (IF IsLive(c.vertexArray)
       THEN <<c.vertexArray, Content(DataHere, attrC[c.vertexArray])>> ELSE Nil)
        = (IF IsLive(q.vertexArray)
           THEN <<q.vertexArray, Content(peer.data, peer.attr[q.vertexArray])>> ELSE Nil)
  <2>1. ASSUME IsLive(c.vertexArray), q.vertexArray = c.vertexArray
        PROVE  Content(DataHere, attrC[c.vertexArray])
                 = Content(peer.data, peer.attr[q.vertexArray])
    <3> DEFINE v == c.vertexArray
    <3>1. v \in VertexArrays /\ Live(v)
      BY <1>1, <1>3, <2>1 DEF Binding, IsLive
    <3>2. CASE peer.attr[v] = attrC[v] /\ attrC[v] \in Buffers
      <4>1. InUse(attrC[v])
        BY <3>1 DEF InUse
      <4>2. Content(DataHere, attrC[v]) = Content(peer.data, attrC[v])
        BY <3>2, <4>1, ContentSame
      <4> QED BY <2>1, <3>2, <4>2
    <3>3. CASE ~IsLive(peer.attr[v]) /\ ~IsLive(attrC[v])
      BY <2>1, <3>3 DEF Content
    <3>4. attrC[v] \in Buffers \cup {Nil} /\ ~IsLive(Nil)
      BY <1>0, <1>3, <3>1 DEF TypeOK, IsLive
    <3>5. /\ IsLive(peer.attr[v]) => peer.attr[v] = attrC[v]
          /\ IsLive(attrC[v]) => peer.attr[v] = attrC[v]
      BY <1>0, <3>1 DEF VertexArrayInv
    <3> QED BY <3>2, <3>3, <3>4, <3>5
  <2> QED BY <1>2, <2>1 DEF Agree
<1>6. (IF c.draw = Arrays THEN Arrays ELSE Content(DataHere, c.draw))
        = (IF q.draw = Arrays THEN Arrays ELSE Content(peer.data, q.draw))
  <2>1. CASE c.draw = Arrays \/ q.draw = Arrays
    BY <1>2, <2>1 DEF Agree
  <2>2. CASE c.draw # Arrays /\ q.draw # Arrays /\ IsLive(c.draw)
    <3>1. q.draw = c.draw /\ c.draw \in Buffers
      BY <1>1, <1>2, <1>3, <2>2 DEF Agree, Binding, Draws, IsLive
    <3>2. InUse(c.draw)
      BY DEF InUse
    <3> QED BY <2>2, <3>1, <3>2, ContentSame
  <2>3. CASE c.draw # Arrays /\ q.draw # Arrays /\ ~IsLive(c.draw)
    BY <1>2, <2>3 DEF Agree, Content
  <2> QED BY <2>1, <2>2, <2>3
<1> QED BY <1>4, <1>5, <1>6 DEF Look, Content, IsLive

(* While a session is up, the peer shows the committed scene               *)
SceneShown == session # 0 => PeerScene = LocalScene

LEMMA ShownWhole == RInv => SceneShown
<1> SUFFICES ASSUME RInv, session # 0 PROVE PeerScene = LocalScene
  BY DEF SceneShown
<1>0. TypeOK /\ Shape /\ NodeInv
  BY DEF RInv, Consistent, IInv
<1>1. \A o \in Objects : /\ Live(o) /\ committed[o] <=> proxy[o] # 0
                         /\ committed[o] => peer.pos[o] = pos[o]
  BY <1>0 DEF Shape, NodeInv, Nodes
<1>2. [o \in {x \in Objects : proxy[x] # 0} |-> peer.pos[o]]
        = [o \in {x \in Objects : Live(x) /\ committed[x]} |-> pos[o]]
  <2>1. {x \in Objects : proxy[x] # 0} = {x \in Objects : Live(x) /\ committed[x]}
    BY <1>1
  <2>2. \A o \in {x \in Objects : Live(x) /\ committed[x]} : peer.pos[o] = pos[o]
    BY <1>1
  <2> QED BY <2>1, <2>2
<1>3. ASSUME NEW t \in Techniques PROVE proxy[t] # 0 <=> t \in CommittedTechniques
  <2>1. proxy[t] # 0 <=> committed[t]
    BY <1>0 DEF NodeInv
  <2>2. t # Nil
    BY SceneSyncAssumption DEF Things, Nodes
  <2>3. ASSUME committed[t] PROVE t \in CommittedTechniques
    <3>1. owner[t] \in Units /\ committed[owner[t]] /\ technique[owner[t]] = t
      BY <1>0, <2>3 DEF Shape, Nodes
    <3>2. Live(owner[t]) /\ Live(owner[owner[t]])
      BY <1>0, <3>1 DEF Shape, Nodes
    <3> QED BY <3>1, <3>2 DEF CommittedTechniques
  <2>4. ASSUME t \in CommittedTechniques PROVE committed[t]
    BY <1>0, <2>2, <2>4 DEF CommittedTechniques, Shape
  <2> QED BY <2>1, <2>3, <2>4
<1>4. [t \in {x \in Techniques : proxy[x] # 0} |->
         Look(peer.bind[t], peer.shaders, peer.attr, peer.data)]
        = [t \in CommittedTechniques |-> Look(cur[t], ShadersHere, attrC, DataHere)]
  <2> DEFINE f(t) == Look(peer.bind[t], peer.shaders, peer.attr, peer.data)
             g(t) == Look(cur[t], ShadersHere, attrC, DataHere)
  <2>1. {x \in Techniques : proxy[x] # 0} = CommittedTechniques
    BY <1>3 DEF CommittedTechniques
  <2>2. \A t \in CommittedTechniques : g(t) = f(t)
    BY LookSame DEF CommittedTechniques
  <2> HIDE DEF f, g
  <2>3. [t \in {x \in Techniques : proxy[x] # 0} |-> f(t)] = [t \in CommittedTechniques |-> g(t)]
    BY <2>1, <2>2
  <2> QED BY <2>3 DEF f, g
<1> QED BY <1>2, <1>4 DEF PeerScene, LocalScene, ShadersHere, DataHere

(* Without one, it shows nothing                                           *)
NothingShown == session = 0 => PeerScene = EmptyScene

LEMMA NoneShown == RInv => NothingShown
<1> SUFFICES ASSUME RInv, session = 0 PROVE PeerScene = EmptyScene
  BY DEF NothingShown
<1>1. \A x \in Things : proxy[x] = 0
  BY DEF RInv, Consistent, NoSession
<1>2. {x \in Objects : proxy[x] # 0} = {} /\ {x \in Techniques : proxy[x] # 0} = {}
  BY <1>1 DEF Things, Nodes
<1>3. [o \in {x \in Objects : proxy[x] # 0} |-> peer.pos[o]] = [o \in {} |-> Nil]
  BY <1>2
<1>4. [t \in {x \in Techniques : proxy[x] # 0} |->
         Look(peer.bind[t], peer.shaders, peer.attr, peer.data)] = [t \in {} |-> Nil]
  <2> DEFINE f(t) == Look(peer.bind[t], peer.shaders, peer.attr, peer.data)
  <2> HIDE DEF f
  <2>1. [t \in {x \in Techniques : proxy[x] # 0} |-> f(t)] = [t \in {} |-> Nil]
    BY <1>2
  <2> QED BY <2>1 DEF f
<1> QED BY <1>3, <1>4 DEF PeerScene, EmptyScene

(* The session changes nothing of what is committed here                   *)
LEMMA SceneKept ==
  ASSUME UNCHANGED <<clientVars, pos>>,
         \A p \in Programs : prog'[p].linkedWith = prog[p].linkedWith,
         \A b \in Buffers : buf'[b].data = buf[b].data
  PROVE  LocalScene' = LocalScene
<1>1. ShadersHere' = ShadersHere /\ DataHere' = DataHere
  BY DEF ShadersHere, DataHere
<1>2. UNCHANGED <<stage, owner, committed, technique, cur, attrC, pos>>
  BY DEF clientVars
<1>3. CommittedTechniques' = CommittedTechniques
  BY <1>2 DEF CommittedTechniques, Live
<1>4. {x \in Objects : Live(x) /\ committed[x]}' = {x \in Objects : Live(x) /\ committed[x]}
  BY <1>2 DEF Live
<1>5. ASSUME NEW t
      PROVE  Look(cur[t], ShadersHere, attrC, DataHere)' = Look(cur[t], ShadersHere, attrC, DataHere)
  BY <1>1, <1>2 DEF Look, Live
<1>6. LocalScene =
        [at |-> [o \in {x \in Objects : Live(x) /\ committed[x]} |-> pos[o]],
         looks |-> [t \in CommittedTechniques |-> Look(cur[t], ShadersHere, attrC, DataHere)]]
  BY DEF LocalScene, ShadersHere, DataHere
<1>7. LocalScene' =
        [at |-> [o \in {x \in Objects : Live(x) /\ committed[x]} |-> pos[o]],
         looks |-> [t \in CommittedTechniques |-> Look(cur[t], ShadersHere, attrC, DataHere)]]'
  BY DEF LocalScene, ShadersHere, DataHere
<1> QED BY <1>2, <1>3, <1>4, <1>5, <1>6, <1>7

----------------------------------------------------------------------------
(* Every step is one of SceneMirror's: the session comes up, it goes, or   *)
(* both scenes change alike.                                               *)
LEMMA MirrorInit == Init => Mirror!Init
<1> SUFFICES ASSUME Init PROVE Mirror!Init
  OBVIOUS
<1>1. session = 0 /\ PeerScene = EmptyScene
  BY RefinementInit, NoneShown DEF Init, NothingShown
<1>2. {x \in Objects : Live(x) /\ committed[x]} = {} /\ CommittedTechniques = {}
  BY SceneSyncAssumption DEF Init, CommittedTechniques, Nodes, Things
<1>3. [o \in {x \in Objects : Live(x) /\ committed[x]} |-> pos[o]] = [o \in {} |-> Nil]
  BY <1>2
<1>4. [t \in CommittedTechniques |-> Look(cur[t], ShadersHere, attrC, DataHere)]
        = [t \in {} |-> Nil]
  <2> DEFINE f(t) == Look(cur[t], ShadersHere, attrC, DataHere)
  <2> HIDE DEF f
  <2>1. [t \in CommittedTechniques |-> f(t)] = [t \in {} |-> Nil]
    BY <1>2
  <2> QED BY <2>1 DEF f
<1>5. LocalScene = EmptyScene
  BY <1>3, <1>4 DEF LocalScene, EmptyScene, ShadersHere, DataHere
<1> QED BY <1>1, <1>5 DEF Mirror!Init

LEMMA ShownAfter == RInv' => (SceneShown /\ NothingShown)'
<1>1. RInv => SceneShown /\ NothingShown
  BY ShownWhole, NoneShown
<1> QED BY <1>1, PTL

LEMMA MirrorStep ==
  ASSUME RInv, RInv', [DisciplinedNext]_vars
  PROVE  [Mirror!Next]_<<session # 0, LocalScene, PeerScene>>
<1>1. (SceneShown /\ NothingShown) /\ (SceneShown /\ NothingShown)'
  BY ShownWhole, NoneShown, ShownAfter
<1>2. CASE session' = session
  <2>1. PeerScene' = IF session # 0 THEN LocalScene' ELSE EmptyScene
    BY <1>1, <1>2 DEF SceneShown, NothingShown
  <2>2. (session # 0)' = (session # 0)
    BY <1>2
  <2>3. Mirror!Change
    BY <2>1, <2>2 DEF Mirror!Change
  <2> QED BY <2>3 DEF Mirror!Next
<1>3. CASE EstablishSession
  <2>1. Told
    BY <1>3, EstablishTells
  <2>2. LocalScene' = LocalScene
    BY <2>1, SceneKept DEF Told, LinkedLike
  <2>3. PeerScene' = LocalScene'
    BY <1>1, <2>1 DEF Told, SceneShown
  <2>4. Mirror!Connect
    BY <2>1, <2>2, <2>3 DEF Told, Mirror!Connect
  <2> QED BY <2>4 DEF Mirror!Next
<1>4. CASE DisconnectSession
  <2>1. session # 0 /\ session' = 0 /\ UNCHANGED <<clientVars, pos, prog, buf>>
    BY <1>4 DEF DisconnectSession
  <2>2. LocalScene' = LocalScene
    BY <2>1, SceneKept
  <2>3. PeerScene' = EmptyScene
    BY <1>1, <2>1 DEF NothingShown, EmptyScene
  <2>4. Mirror!Disconnect
    BY <2>1, <2>2, <2>3 DEF Mirror!Disconnect
  <2> QED BY <2>4 DEF Mirror!Next
<1>5. ASSUME NEW o \in Objects, Commit(o) PROVE session' = session
  BY <1>5 DEF Commit, CommitTree
<1>6. ASSUME ClientStep PROVE session' = session
  BY <1>5, <1>6
  DEF ClientStep, CreateObject, GetBounded, CommitObject, DestroyObject, DestroyUnit, CreateUnit,
      CreateTechnique, CreateResource, DestroyResource, BindProgram, BindVertexArray, DrawArrays,
      DestroyTechnique, DrawElements, SetPending, AttachShader, LinkProgram, SetProgram,
      VertexAttribPointer, BufferData, DestroyNodes
<1>7. ASSUME SystemStep PROVE session' = session \/ EstablishSession \/ DisconnectSession
  BY <1>5, <1>7 DEF SystemStep, MoveApp, ClientGone
<1> QED BY <1>2, <1>3, <1>4, <1>6, <1>7 DEF DisciplinedNext, vars

(* Of clients that follow the rules the scene is mirrored: SceneSync       *)
(* implements SceneMirror (VirtualObject's session_established handler,    *)
(* commit, sync and the destruction of everything that has a proxy)        *)
THEOREM SceneSyncMirrors ==
  ASSUME AllRules \subseteq Discipline
  PROVE  DisciplinedSpec => MirrorsScene
<1>1. RInv /\ RInv' /\ [DisciplinedNext]_vars
        => [Mirror!Next]_<<session # 0, LocalScene, PeerScene>>
  BY MirrorStep
<1>2. DisciplinedSpec => []RInv
  BY RefinementInvariant
<1> QED BY <1>1, <1>2, MirrorInit, PTL DEF DisciplinedSpec, MirrorsScene, Mirror!Spec

(* The comment in the session_established handler is right of clients that *)
(* follow the rules: a session that has come up has everything synced      *)
THEOREM EstablishedWhole ==
  ASSUME AllRules \subseteq Discipline
  PROVE  DisciplinedSpec => EverythingSyncedOnEstablish
<1>1. RInv' => [session = 0 /\ session' # 0 => PeerScene' = LocalScene']_vars
  BY ShownAfter DEF SceneShown
<1> QED BY <1>1, RefinementInvariant, PTL DEF EverythingSyncedOnEstablish
=============================================================================

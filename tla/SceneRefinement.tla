--------------------------- MODULE SceneRefinement ---------------------------
(***************************************************************************)
(* SceneSync implements SceneMirror for clients that follow a discipline.  *)
(* The discipline binds the requests of a client only: sessions come and   *)
(* go and the user moves apps (which commits what is pending) at any time. *)
(***************************************************************************)
EXTENDS SceneSync

CONSTANT Discipline   \* which of the rules below clients follow

AllRules == {"app", "one", "shaders", "pending", "ready", "bound"}

ASSUME SceneRefinementAssumption ==
  /\ Programs \cap Buffers = {}
  /\ Nil \notin 0..MaxVersion

Bindings(t) == {pend[t].program, pend[t].vertexArray, pend[t].draw}
InUse(r) ==
  \/ \E t \in Techniques : r \in {cur[t].program, cur[t].draw}
  \/ \E t \in Techniques, v \in VertexArrays :
       cur[t].vertexArray = v /\ Live(v) /\ attrC[v] = r

(* the app is attached before the first commit *)
AppFirst == \A o \in Objects : committed[o] => app[o]

(* an object gets one app only, and a unit has one technique at a time     *)
OneApp == \A o \in Objects : GetBounded(o) => ~app[o]
OneTechnique ==
  \A t1, t2 \in Techniques :
    Live(t1) /\ Live(t2) /\ owner[t1] = owner[t2] => t1 = t2

(* shaders outlive the programs they are attached to *)
ShadersKept ==
  \A p \in Programs : prog[p].shaders \cup prog[p].pShaders \subseteq {s \in Shaders : Live(s)}

(* nothing is destroyed between being bound and the commit of the binding *)
PendingKept ==
  /\ \A t \in Techniques : \A r \in Bindings(t) \ {Nil, Arrays} : Live(r)
  /\ \A v \in VertexArrays :
       attrP[v] # Nil /\ attrP[v] # attrC[v] => Live(attrP[v])

(* buffers are filled and programs linked before they are bound, and a     *)
(* linked program is left as it is                                         *)
ReadyFirst ==
  /\ \A b \in Buffers : \/ buf[b].data # 0 \/ buf[b].pData # 0
                        \/ /\ \A t \in Techniques : b \notin {pend[t].draw, cur[t].draw}
                           /\ \A v \in VertexArrays : attrP[v] # b
                        \/ ~Live(b)
  /\ \A t \in Techniques, p \in Programs :
       Live(p) /\ p \in {pend[t].program, cur[t].program}
         => prog[p].linked \/ prog[p].pLink
  /\ \A p \in Programs : prog[p].linked => prog[p].pShaders = {}

(* what the peer was given once stays in use: a binding is never replaced  *)
BindingsKept ==
  /\ \A p \in Programs : prog[p].linked /\ ~prog[p].shouldLink => InUse(p)
  /\ \A b \in Buffers : buf[b].data # 0 /\ ~buf[b].damaged => InUse(b)
  /\ \A t \in Techniques :
       /\ pend[t].program # Nil /\ cur[t].program # Nil => pend[t].program = cur[t].program
       /\ pend[t].vertexArray # Nil /\ cur[t].vertexArray # Nil
            => pend[t].vertexArray = cur[t].vertexArray
       /\ pend[t].draw # Nil /\ cur[t].draw \in Buffers => pend[t].draw = cur[t].draw
  /\ \A v \in VertexArrays : attrC[v] # Nil => attrP[v] = attrC[v]

Disciplined ==
  /\ "app"     \in Discipline => AppFirst
  /\ "one"     \in Discipline => OneTechnique
  /\ "shaders" \in Discipline => ShadersKept
  /\ "pending" \in Discipline => PendingKept
  /\ "ready"   \in Discipline => ReadyFirst
  /\ "bound"   \in Discipline => BindingsKept

DisciplinedNext ==
  \/ ClientStep /\ Disciplined' /\ ("one" \in Discipline => OneApp)
  \/ SystemStep
DisciplinedSpec == Init /\ [][DisciplinedNext]_vars

----------------------------------------------------------------------------
(* A technique as it looks given its binding, the shaders of programs, the *)
(* attributes of vertex arrays and the contents of buffers                 *)
Look(bind, shaders, attr, data) ==
  LET live(x) == x \in Resources /\ Live(x)
      content(b) == IF live(b) THEN <<b, data[b]>> ELSE Nil
  IN [program |-> IF live(bind.program)
                  THEN <<bind.program, shaders[bind.program]>> ELSE Nil,
      vertexArray |-> IF live(bind.vertexArray)
                      THEN <<bind.vertexArray, content(attr[bind.vertexArray])>> ELSE Nil,
      draw |-> IF bind.draw = Arrays THEN Arrays ELSE content(bind.draw)]

CommittedTechniques ==
  {t \in Techniques : \E u \in Units :
     technique[u] = t /\ Live(u) /\ committed[u] /\ Live(owner[u])}

(* the committed scene, here *)
LocalScene ==
  [at |-> [o \in {x \in Objects : Live(x) /\ committed[x]} |-> pos[o]],
   looks |-> [t \in CommittedTechniques |->
                Look(cur[t], [p \in Programs |-> prog[p].linkedWith], attrC,
                     [b \in Buffers |-> buf[b].data])]]

(* the scene the peer shows *)
PeerScene ==
  [at |-> [o \in {x \in Objects : proxy[x] # 0} |-> peer.pos[o]],
   looks |-> [t \in {x \in Techniques : proxy[x] # 0} |->
                Look(peer.bind[t], peer.shaders, peer.attr, peer.data)]]

EmptyScene == [at |-> [o \in {} |-> Nil], looks |-> [t \in {} |-> Nil]]

Mirror == INSTANCE SceneMirror WITH
            Nothing <- EmptyScene, connected <- session # 0,
            scene <- LocalScene, shown <- PeerScene

(* The peer of the session shows the committed scene at all times: the     *)
(* forced sync when the session comes up is complete, and so is every      *)
(* later sync of the damaged data (VirtualObject's session_established     *)
(* handler and commit)                                                     *)
MirrorsScene == Mirror!Spec

(* No buffer is sent before it has data: its length would be uninitialised *)
NoEmptyUpload == \A b \in Buffers : peer.data[b] # 0

(* As the comment in the session_established handler has it: when a        *)
(* session has come up, all of the committed scene has been synced         *)
EverythingSyncedOnEstablish ==
  [][session = 0 /\ session' # 0 => PeerScene' = LocalScene']_vars
=============================================================================

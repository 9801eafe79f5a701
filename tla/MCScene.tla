------------------------------- MODULE MCScene -------------------------------
(* SceneSync and SceneRefinement on small sets of ids, for TLC             *)
EXTENDS SceneRefinement, FiniteSets, TLC

LooseShaders == AllRules \ {"shaders"}

(* Bounds: what a client has is one of the following.                      *)
NoProgram == \A p \in Programs : prog[p] = NewProgram
NoArrays  == \A v \in VertexArrays : attrP[v] = Nil
Unmoved   == \A o \in Objects : pos[o] = Start
(* One object with one unit and one technique, and contents of one         *)
(* version; and it is moved, or draws with programs and vertex arrays      *)
Alone ==
  /\ \A S \in {Objects, Units, Techniques} : Cardinality({x \in S : stage[x] # "unborn"}) <= 1
  /\ \A b \in Buffers : buf[b].pData <= 1
  /\ Unmoved \/ (NoProgram /\ NoArrays)
(* Objects, units and techniques that have the buffers in common, and      *)
(* nothing else                                                            *)
BindingsOf(t) == {pend[t], cur[t]}
Shared ==
  /\ NoProgram /\ NoArrays /\ Unmoved /\ \A r \in Resources : Live(r)
  /\ \A B \in UNION {BindingsOf(t) : t \in Techniques} :
       B.program = Nil /\ B.vertexArray = Nil /\ B.draw # Arrays

Bounds == Alone \/ Shared

(* ids of a kind are alike, and MirrorsScene is a safety property          *)
Twins == Permutations(Objects) \cup Permutations(Units) \cup Permutations(Techniques)
=============================================================================

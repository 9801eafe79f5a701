----------------------------- MODULE MCMaterials -----------------------------
(* Two textures that take turns at one binding point, and one uniform that *)
(* can be set by its name or by its location.                              *)
EXTENDS Materials, TLC

BorderColor == [border |-> 16]
AtLocation  == [n \in Names |-> CHOOSE l \in Locations : TRUE]
(* Bound: a client uses uniforms, or images, or mipmaps, or parameters: a  *)
(* commit and a sync treat each by itself, and only bindings affect more   *)
(* than one of them.  With uniforms there is one technique.                *)
OneConcern ==
  LET uniforms == \E t \in Techniques : uniP[t] # <<>> \/ uniC[t] # <<>>
      images   == \E x \in Textures : tex[x].pImage # 0 \/ tex[x].image # 0
      mipmaps  == \E x \in Textures : tex[x].pMip \/ tex[x].mip
      params   == \E s \in Samplers : {paramP[s], paramC[s]} # {NoParams}
      binds    == \E t \in Techniques : bindP[t] # Unbound
  IN \/ ~uniforms /\ ~images /\ ~mipmaps
     \/ ~uniforms /\ ~images /\ ~params
     \/ ~uniforms /\ ~mipmaps /\ ~params
     \/ /\ \E u \in Techniques : \A t \in Techniques \ {u} :
             uniP[t] = <<>> /\ uniC[t] = <<>> /\ t \notin app \cup committed
        /\ ~binds /\ ~images /\ ~mipmaps /\ ~params /\ live = Things

(* Bound: two techniques share a texture, or one is there alone           *)
ShareOrChange ==
  LET users == {t \in Techniques : bindP[t] # Unbound \/ t \in app \cup committed}
      used  == {x \in Textures : tex[x] # NewTexture \/ x \notin live
                                 \/ \E t \in Techniques : x \in TexturesIn(bindP[t])}
  IN \A t, u \in users, x, y \in used : t = u \/ x = y

(* Bound: a client in error is not followed.  Whatever happens then, as    *)
(* drags and sessions, happens without the error, which no property sees.  *)
Correct == client # "failed"

Bounds == OneConcern /\ ShareOrChange /\ Correct

Twins == Permutations(Techniques) \cup Permutations(Textures)
=============================================================================

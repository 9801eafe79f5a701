-------------------------- MODULE SurfaceStackProofs --------------------------
(***************************************************************************)
(* The invariants of SurfaceStack, for any surfaces, textures, directions  *)
(* and offsets.                                                            *)
(*                                                                         *)
(* What is drawn and how windows are stacked are independent: every action *)
(* does to a surface and its renderer what one of the lemmas on Redraw,    *)
(* DrawLayer, InitRenderer or commits says, and layers change only with a  *)
(* reorder, which counts the windows in front.                             *)
(***************************************************************************)
EXTENDS SurfaceStack, TLAPS, FiniteSetTheorems

(* A renderer q has what its surface r has, and if r has a texture, shows  *)
(* it.                                                                     *)
Agrees(q, r) ==
  q # Nil => /\ q.model = ModelOf(r)
             /\ r.hasData => /\ q.texture = r.size
                             /\ q.shown = [model |-> ModelOf(r), texture |-> r.size]

RenderersAgree ==
  \A s \in Surfaces : /\ renderer[s] # Nil <=> connected /\ s \in live
                      /\ Agrees(renderer[s], surface[s])

(* Surfaces that never were the cursor have no such role, and stand where  *)
(* their direction and layer have them; the cursor is one that was.        *)
Stands(r) == r.role # "cursor" /\ r.at = Sphere(r.dir, r.layer)
Standing ==
  /\ cursor \in cursors \cup {Nil}
  /\ \A s \in live \ cursors : Stands(surface[s])

(* No two surfaces have one place in the list.                             *)
OwnPlaces == \A s, t \in live : place[s] = place[t] => s = t

(* A pending offset leaves the offset within its bound.                    *)
Fits(r) == r.pendingOffset # Nil => r.offset + r.pendingOffset <= MaxOffset
OffsetsFit == \A s \in Surfaces : Fits(surface[s])

IInv == TypeOK /\ OffsetsFit /\ RenderersAgree /\ Standing /\ OwnPlaces /\ LayersFollowOrder

----------------------------------------------------------------------------
(* Operations on one surface and its renderer                              *)

Renderers == Renderer \cup {Nil}

(* What each operation on a renderer leaves there.                         *)
LEMMA RendererOps ==
  ASSUME NEW q \in Renderer, NEW r \in Surface
  PROVE  /\ q # Nil /\ ModelOf(r) \in Model
         /\ SyncGeom(q, r) \in Renderer /\ SetTexture(q, r) \in Renderer
         /\ CommitRenderer(q) \in Renderer
         /\ SyncGeom(q, r).model = ModelOf(r) /\ SyncGeom(q, r).texture = q.texture
         /\ SetTexture(q, r).model = q.model /\ SetTexture(q, r).texture = r.size
         /\ CommitRenderer(q).model = q.model /\ CommitRenderer(q).texture = q.texture
         /\ CommitRenderer(q).shown = [model |-> q.model, texture |-> q.texture]
<1>1. q # Nil
  BY NilAssumption
<1>2. ModelOf(r) \in Model
  BY DEF ModelOf, Model, Surface
<1>3. /\ SyncGeom(q, r) \in Renderer
      /\ SyncGeom(q, r).model = ModelOf(r) /\ SyncGeom(q, r).texture = q.texture
  BY <1>1, <1>2 DEF SyncGeom, Renderer
<1>4. /\ SetTexture(q, r) \in Renderer
      /\ SetTexture(q, r).model = q.model /\ SetTexture(q, r).texture = r.size
  BY <1>1 DEF SetTexture, Renderer, Surface
<1>5. [model |-> q.model, texture |-> q.texture] \in Look
  BY DEF Renderer, Look
<1>6. /\ CommitRenderer(q) \in Renderer
      /\ CommitRenderer(q).model = q.model /\ CommitRenderer(q).texture = q.texture
      /\ CommitRenderer(q).shown = [model |-> q.model, texture |-> q.texture]
  BY <1>1, <1>5 DEF CommitRenderer, Renderer
<1> QED BY <1>1, <1>2, <1>3, <1>4, <1>6

(* A surface that was changed otherwise than in its texture and is drawn   *)
(* again agrees with its renderer, whichever of the two ways it is drawn.  *)
LEMMA RedrawAgrees ==
  ASSUME NEW q \in Renderers, NEW r \in Surface, NEW old \in Surface, Agrees(q, old),
         r.hasData = old.hasData, r.size = old.size
  PROVE  /\ Redraw(q, r) \in Renderers /\ Agrees(Redraw(q, r), r)
         /\ DrawLayer(q, r) \in Renderers /\ Agrees(DrawLayer(q, r), r)
         /\ Redraw(q, r) = Nil <=> q = Nil
         /\ DrawLayer(q, r) = Nil <=> q = Nil
<1>1. CASE q = Nil
  BY <1>1 DEF Redraw, DrawLayer, SyncGeom, CommitRenderer, Agrees, Renderers
<1>2. CASE q # Nil
  <2>1. q \in Renderer
    BY <1>2 DEF Renderers
  <2>2. /\ SyncGeom(q, r) \in Renderer /\ SyncGeom(q, r) # Nil
        /\ ~r.hasData => Agrees(SyncGeom(q, r), r)
    BY <2>1, RendererOps, NilAssumption DEF Agrees
  <2>3. Redraw(q, r) \in Renderer /\ Redraw(q, r) # Nil
    BY <2>1, RendererOps, NilAssumption DEF Redraw
  <2>4. r.hasData => q.texture = r.size
    BY <1>2 DEF Agrees
  <2> DEFINE p == SyncGeom(q, r)
  <2>5. p \in Renderer /\ p.model = ModelOf(r) /\ p.texture = q.texture
    BY <2>1, RendererOps
  <2>6. /\ CommitRenderer(p).model = p.model /\ CommitRenderer(p).texture = p.texture
        /\ CommitRenderer(p).shown = [model |-> p.model, texture |-> p.texture]
    BY <2>5, RendererOps
  <2>7. Agrees(CommitRenderer(p), r)
    BY <2>4, <2>5, <2>6 DEF Agrees
  <2> QED BY <1>2, <2>2, <2>3, <2>7, NilAssumption DEF DrawLayer, Redraw, Renderers
<1> QED BY <1>1, <1>2

(* init_renderer leaves nothing out.                                       *)
LEMMA InitAgrees ==
  ASSUME NEW r \in Surface
  PROVE  InitRenderer(r) \in Renderer /\ InitRenderer(r) # Nil /\ Agrees(InitRenderer(r), r)
<1> DEFINE p == [model |-> ModelOf(r), texture |-> Nil, shown |-> Nil]
           c == CommitRenderer(SetTexture(p, r))
<1>1. ModelOf(r) \in Model
  BY DEF ModelOf, Model, Surface
<1>2. p \in Renderer /\ p.model = ModelOf(r)
  BY <1>1 DEF Renderer
<1>3. InitRenderer(r) = IF r.hasData THEN c ELSE p
  BY DEF InitRenderer
<1> HIDE DEF p
<1>4. SetTexture(p, r) \in Renderer /\ SetTexture(p, r).model = ModelOf(r)
      /\ SetTexture(p, r).texture = r.size
  BY <1>2, RendererOps
<1>5. c \in Renderer /\ c.model = ModelOf(r) /\ c.texture = r.size
      /\ c.shown = [model |-> ModelOf(r), texture |-> r.size]
  BY <1>4, RendererOps
<1> QED BY <1>2, <1>3, <1>5, NilAssumption DEF Agrees

(* Nor does a commit, of a new texture, of none, or of an offset.          *)
LEMMA CommitAgrees ==
  ASSUME NEW q \in Renderers, NEW r \in Surface, NEW t \in Textures \cup {Nil}, Fits(r),
         Agrees(q, r), t # Nil => r.pendingBuffer,
         NEW f, f = Filled(Moved(r), t),
         NEW c, c = SyncCommitted(q, r, t),
         NEW p, p = IF f.hasData THEN CommitRenderer(SetTexture(c, f)) ELSE c
  PROVE  /\ f \in Surface /\ Fits(f)
         /\ f.role = r.role /\ f.layer = r.layer /\ f.dir = r.dir /\ f.at = r.at
         /\ p \in Renderers /\ Agrees(p, f) /\ (p = Nil <=> q = Nil)
<1> DEFINE m == Moved(r)
<1>1. /\ m \in Surface /\ m.pendingOffset = Nil
      /\ m.role = r.role /\ m.layer = r.layer /\ m.dir = r.dir /\ m.at = r.at
      /\ m.hasData = r.hasData /\ m.size = r.size /\ m.pendingBuffer = r.pendingBuffer
      /\ m.active = r.active /\ (r.pendingOffset = Nil => m = r)
  <2>1. CASE r.pendingOffset = Nil
    BY <2>1 DEF Moved
  <2>2. CASE r.pendingOffset # Nil
    <3> DEFINE o == [r EXCEPT !.offset = r.offset + r.pendingOffset]
    <3>1. m = [o EXCEPT !.pendingOffset = Nil]
      BY <2>2, Zenon DEF Moved
    <3> HIDE DEF m
    <3>2. r.pendingOffset \in Offsets /\ r.offset \in 0..MaxOffset
      BY <2>2 DEF Surface
    <3>3. r.offset + r.pendingOffset \in 0..MaxOffset
      <4>1. MaxOffset \in Nat /\ Offsets \subseteq Nat
        BY SurfaceStackAssumption
      <4>2. r.offset \in Nat
        BY <3>2, <4>1
      <4>3. r.pendingOffset \in Nat
        BY <3>2, <4>1
      <4>4. r.offset + r.pendingOffset <= MaxOffset
        BY <2>2 DEF Fits
      <4> QED BY <4>1, <4>2, <4>3, <4>4
    <3>4. /\ o \in Surface
          /\ o.role = r.role /\ o.layer = r.layer /\ o.dir = r.dir /\ o.at = r.at
          /\ o.hasData = r.hasData /\ o.size = r.size /\ o.pendingBuffer = r.pendingBuffer
          /\ o.active = r.active
      BY <3>3 DEF Surface
    <3> HIDE DEF o
    <3> QED BY <2>2, <3>1, <3>4 DEF Surface
  <2> QED BY <2>1, <2>2
<1> HIDE DEF m
<1>2. f = Filled(m, t)
  BY DEF m
<1>3. /\ f \in Surface /\ Fits(f)
      /\ f.role = r.role /\ f.layer = r.layer /\ f.dir = r.dir /\ f.at = r.at
      /\ ModelOf(f) = [at |-> m.at, offset |-> m.offset, active |-> m.active, size |-> f.size]
      /\ (t = Nil => ModelOf(f) = ModelOf(m) /\ f.size = m.size /\ (f.hasData => m.hasData))
      /\ (t # Nil => f.hasData)
  <2>1. CASE ~m.pendingBuffer
    BY <1>1, <1>2, <2>1 DEF Filled, ModelOf, Fits
  <2>2. CASE m.pendingBuffer
    <3> DEFINE z == IF t = Nil THEN m.size ELSE t
               u == [m EXCEPT !.pendingBuffer = FALSE]
               has == t # Nil
               v == [u EXCEPT !.hasData = has]
    <3>1. f = [v EXCEPT !.size = z]
      BY <1>2, <2>2, Zenon DEF Filled
    <3>2. z \in Textures \cup {Nil}
      BY <1>1 DEF Surface
    <3> HIDE DEF z, v
    <3>3. v = [u EXCEPT !.hasData = has] /\ has \in BOOLEAN
      BY Zenon DEF v
    <3> HIDE DEF u, has
    <3>4. u = [m EXCEPT !.pendingBuffer = FALSE]
      BY Zenon DEF u
    <3>5. /\ u \in Surface /\ u.size = m.size /\ u.pendingOffset = Nil
          /\ u.role = r.role /\ u.layer = r.layer /\ u.dir = r.dir /\ u.at = r.at
          /\ u.at = m.at /\ u.offset = m.offset /\ u.active = m.active
      BY <1>1, <3>4 DEF Surface
    <3>6. /\ v \in Surface /\ v.size = m.size /\ v.pendingOffset = Nil
          /\ v.role = r.role /\ v.layer = r.layer /\ v.dir = r.dir /\ v.at = r.at
          /\ v.at = m.at /\ v.offset = m.offset /\ v.active = m.active
          /\ v.hasData = has
      <4>1. v \in Surface
        BY <3>3, <3>5 DEF Surface
      <4>2. v.hasData = has /\ v.size = m.size /\ v.pendingOffset = Nil
        BY <3>3, <3>5 DEF Surface
      <4>3. /\ v.role = r.role /\ v.layer = r.layer /\ v.dir = r.dir /\ v.at = r.at
            /\ v.at = m.at /\ v.offset = m.offset /\ v.active = m.active
        BY <3>3, <3>5 DEF Surface
      <4> QED BY <4>1, <4>2, <4>3
    <3>7. /\ f \in Surface /\ f.size = z /\ f.pendingOffset = Nil
          /\ f.role = r.role /\ f.layer = r.layer /\ f.dir = r.dir /\ f.at = r.at
          /\ f.at = m.at /\ f.offset = m.offset /\ f.active = m.active
          /\ f.hasData = has
      BY <3>1, <3>2, <3>6 DEF Surface
    <3> QED BY <1>1, <3>7 DEF ModelOf, Fits, z, has
  <2> QED BY <2>1, <2>2
<1>4. CASE q = Nil
  <2>1. c = Nil
    BY <1>4 DEF SyncCommitted, SyncMoved, SyncGeom
  <2> QED BY <1>3, <1>4, <2>1 DEF SetTexture, CommitRenderer, Agrees, Renderers
<1>5. CASE q # Nil
  <2>1. q \in Renderer /\ q.model = ModelOf(r)
    BY <1>5 DEF Renderers, Agrees
  <2>2. SyncMoved(q, r) \in Renderer /\ SyncMoved(q, r).model = ModelOf(m)
    BY <2>1, <1>1, RendererOps DEF SyncMoved, m
  <2>3. c \in Renderer /\ c.model = ModelOf(f)
    <3>1. c = IF t = Nil THEN SyncMoved(q, r) ELSE SyncGeom(SyncMoved(q, r), f)
      BY <1>2 DEF SyncCommitted, m
    <3>2. CASE t = Nil
      BY <2>2, <1>3, <3>1, <3>2
    <3>3. CASE t # Nil
      <4>1. c = SyncGeom(SyncMoved(q, r), f)
        BY <3>1, <3>3
      <4>2. f \in Surface
        BY <1>3
      <4>3. /\ SyncGeom(SyncMoved(q, r), f) \in Renderer
            /\ SyncGeom(SyncMoved(q, r), f).model = ModelOf(f)
        BY <2>2, <4>2, RendererOps
      <4> QED BY <4>1, <4>3
    <3> QED BY <3>2, <3>3
  <2>4. CASE ~f.hasData
    BY <1>3, <1>5, <2>3, <2>4, NilAssumption DEF Agrees, Renderers
  <2>5. CASE f.hasData
    <3>1. SetTexture(c, f) \in Renderer /\ SetTexture(c, f).model = ModelOf(f)
          /\ SetTexture(c, f).texture = f.size
      BY <2>3, <1>3, RendererOps
    <3>2. /\ p \in Renderer /\ p.model = ModelOf(f) /\ p.texture = f.size
          /\ p.shown = [model |-> ModelOf(f), texture |-> f.size]
      BY <2>5, <3>1, <1>3, RendererOps
    <3> QED BY <3>2, <1>3, <1>5, NilAssumption DEF Agrees, Renderers
  <2> QED BY <2>4, <2>5
<1> QED BY <1>4, <1>5

----------------------------------------------------------------------------
(* Layers                                                                  *)

(* The more places before a window, the more windows: a window further     *)
(* back is in a higher layer.                                              *)
LEMMA LayersInOrder ==
  ASSUME NEW W \in SUBSET Surfaces, NEW p \in [Surfaces -> Nat]
  PROVE  /\ \A s \in W : Cardinality({x \in W : p[x] < p[s]}) \in Nat
         /\ \A s, t \in W : p[s] < p[t] =>
              Cardinality({x \in W : p[x] < p[s]}) < Cardinality({x \in W : p[x] < p[t]})
<1> DEFINE before(s) == {x \in W : p[x] < p[s]}
<1>1. \A s \in W : IsFiniteSet(before(s)) /\ Cardinality(before(s)) \in Nat
  <2> TAKE s \in W
  <2>1. before(s) \in SUBSET Surfaces
    OBVIOUS
  <2>2. IsFiniteSet(before(s))
    BY <2>1, FS_Subset, SurfaceStackAssumption
  <2> QED BY <2>2, FS_CardinalityType
<1>2. ASSUME NEW s \in W, NEW t \in W, p[s] < p[t]
      PROVE  Cardinality(before(s)) < Cardinality(before(t))
  <2>1. before(s) \in SUBSET before(t) /\ s \in before(t) /\ s \notin before(s)
    <3>1. \A x \in W : p[x] \in Nat
      OBVIOUS
    <3>2. \A x \in W : p[x] < p[s] => p[x] < p[t]
      BY <3>1, <1>2
    <3>3. ~(p[s] < p[s])
      BY <3>1
    <3> QED BY <3>2, <3>3, <1>2
  <2>2. /\ Cardinality(before(s)) <= Cardinality(before(t))
        /\ Cardinality(before(t)) # Cardinality(before(s))
    <3>1. before(s) # before(t)
      BY <2>1
    <3> HIDE DEF before
    <3>2. IsFiniteSet(before(t))
      BY <1>1
    <3> QED BY <2>1, <3>1, <3>2, FS_Subset
  <2>3. Cardinality(before(s)) \in Nat /\ Cardinality(before(t)) \in Nat
    BY <1>1
  <2> HIDE DEF before
  <2> QED BY <2>2, <2>3
<1> QED BY <1>1, <1>2

(* update_pos_and_rot changes only where the surface is.                   *)
LEMMA SphereWorks ==
  ASSUME NEW r \in Surface
  PROVE  /\ OnSphere(r) \in Surface /\ OnSphere(r).at = Sphere(r.dir, r.layer)
         /\ OnSphere(r).dir = r.dir /\ OnSphere(r).layer = r.layer
         /\ OnSphere(r).role = r.role /\ OnSphere(r).hasData = r.hasData
         /\ OnSphere(r).size = r.size
         /\ OnSphere(r).offset = r.offset /\ OnSphere(r).active = r.active
         /\ Fits(r) => Fits(OnSphere(r))
<1>1. Sphere(r.dir, r.layer) \in At
  BY DEF Sphere, At, Surface
<1>2. OnSphere(r) = [r EXCEPT !.at = Sphere(r.dir, r.layer)]
  BY DEF OnSphere
<1> QED BY <1>1, <1>2 DEF Surface, Fits

(* A reorder puts every window in the layer of its place and draws it      *)
(* there; it leaves the rest as it was.                                    *)
LEMMA ReorderWorks ==
  ASSUME NEW L \in SUBSET Surfaces, NEW p \in [Surfaces -> Nat],
         NEW r \in [Surfaces -> Surface], NEW q \in [Surfaces -> Renderers],
         \A s \in Surfaces : Agrees(q[s], r[s]) /\ Fits(r[s]),
         Reorder(L, p, r, q)
  PROVE  /\ surface' \in [Surfaces -> Surface] /\ renderer' \in [Surfaces -> Renderers]
         /\ \A s \in Surfaces : /\ Agrees(renderer'[s], surface'[s]) /\ Fits(surface'[s])
                                /\ renderer'[s] = Nil <=> q[s] = Nil
                                /\ surface'[s].role = r[s].role
         /\ \A s \in Windows(L, r) : surface'[s].at = Sphere(surface'[s].dir, surface'[s].layer)
         /\ \A s, t \in Windows(L, r) : p[s] < p[t] => surface'[s].layer < surface'[t].layer
<1> DEFINE W == Windows(L, r)
           n(s) == Cardinality({x \in W : p[x] < p[s]})
           new(s) == OnSphere([r[s] EXCEPT !.layer = n(s)])
<1>1. W \in SUBSET Surfaces
  BY DEF Windows
<1>2. /\ surface' = [s \in Surfaces |-> IF s \in W THEN new(s) ELSE r[s]]
      /\ renderer' = [s \in Surfaces |-> IF s \in W THEN DrawLayer(q[s], surface'[s]) ELSE q[s]]
  <2>1. Layered(W, p, r) = [s \in Surfaces |-> IF s \in W THEN new(s) ELSE r[s]]
    BY DEF Layered
  <2> QED BY <2>1 DEF Reorder
<1>3. \A s \in W : n(s) \in Nat
  BY <1>1, LayersInOrder
<1>4. \A s, t \in W : p[s] < p[t] => n(s) < n(t)
  BY <1>1, LayersInOrder
<1> HIDE DEF n
<1>5. \A s \in W : /\ new(s) \in Surface /\ new(s).layer = n(s)
                   /\ new(s).at = Sphere(new(s).dir, new(s).layer)
                   /\ new(s).role = r[s].role /\ new(s).hasData = r[s].hasData
                   /\ new(s).size = r[s].size /\ Fits(new(s))
  <2> TAKE s \in W
  <2> DEFINE o == [r[s] EXCEPT !.layer = n(s)]
  <2>1. r[s] \in Surface /\ Fits(r[s]) /\ n(s) \in Nat
    BY <1>1, <1>3
  <2>2. /\ o \in Surface /\ o.layer = n(s) /\ o.role = r[s].role /\ o.hasData = r[s].hasData
        /\ o.size = r[s].size /\ Fits(o)
    BY <2>1 DEF Surface, Fits
  <2> HIDE DEF o
  <2>3. /\ OnSphere(o) \in Surface /\ OnSphere(o).layer = o.layer
        /\ OnSphere(o).at = Sphere(OnSphere(o).dir, OnSphere(o).layer)
        /\ OnSphere(o).role = o.role /\ OnSphere(o).hasData = o.hasData
        /\ OnSphere(o).size = o.size /\ Fits(OnSphere(o))
    BY <2>2, SphereWorks
  <2>4. new(s) = OnSphere(o)
    BY DEF o
  <2> QED BY <2>2, <2>3, <2>4
<1> HIDE DEF W, new
<1>6. \A s \in W : surface'[s] = new(s) /\ renderer'[s] = DrawLayer(q[s], new(s))
  BY <1>1, <1>2
<1>7. \A s \in Surfaces \ W : surface'[s] = r[s] /\ renderer'[s] = q[s]
  BY <1>2
<1>8. \A s \in W : /\ DrawLayer(q[s], new(s)) \in Renderers /\ Agrees(DrawLayer(q[s], new(s)), new(s))
                   /\ DrawLayer(q[s], new(s)) = Nil <=> q[s] = Nil
  BY <1>1, <1>5, RedrawAgrees
<1>9. \A s \in Surfaces : surface'[s] \in Surface /\ renderer'[s] \in Renderers
  BY <1>5, <1>6, <1>7, <1>8
<1>10. surface' \in [Surfaces -> Surface] /\ renderer' \in [Surfaces -> Renderers]
  BY <1>2, <1>9
<1>11. \A s \in W : surface'[s].at = Sphere(surface'[s].dir, surface'[s].layer)
  BY <1>5, <1>6
<1>12. \A s, t \in W : p[s] < p[t] => surface'[s].layer < surface'[t].layer
  BY <1>4, <1>5, <1>6
<1> QED BY <1>5, <1>6, <1>7, <1>8, <1>10, <1>11, <1>12 DEF W

----------------------------------------------------------------------------
(* Steps that leave the list of surfaces alone                             *)

(* A surface r with the renderer q became new with p, in the same layer.   *)
Becomes(r, q, new, p) ==
  /\ new \in Surface /\ p \in Renderers
  /\ Fits(new) /\ Agrees(p, new)
  /\ p = Nil <=> q = Nil
  /\ new.layer = r.layer

(* It does when it is changed otherwise than in its texture and drawn      *)
(* again.                                                                  *)
LEMMA RedrawBecomes ==
  ASSUME NEW q \in Renderers, NEW r \in Surface, NEW new \in Surface, Agrees(q, r), Fits(new),
         new.hasData = r.hasData, new.size = r.size, new.layer = r.layer
  PROVE  Becomes(r, q, new, Redraw(q, new))
BY RedrawAgrees DEF Becomes

(* And when only what is pending, or its role, is changed.                 *)
LEMMA ModelBecomes ==
  ASSUME NEW q \in Renderers, NEW r \in Surface, NEW new \in Surface, Agrees(q, r), Fits(new),
         new.hasData = r.hasData, new.size = r.size, new.layer = r.layer,
         ModelOf(new) = ModelOf(r)
  PROVE  Becomes(r, q, new, q)
BY DEF Becomes, Agrees

(* A step in which every surface does so, and in which surfaces that never *)
(* were the cursor keep standing, preserves the invariant.                 *)
LEMMA EachSurface ==
  ASSUME IInv, UNCHANGED <<live, place, connected>>,
         cursors \subseteq cursors', cursors' \subseteq live,
         cursor' \in cursors' \cup {Nil}, ray' \in Directions,
         surface' = [x \in Surfaces |-> surface'[x]],
         renderer' = [x \in Surfaces |-> renderer'[x]],
         \A x \in Surfaces : Becomes(surface[x], renderer[x], surface'[x], renderer'[x]),
         \A x \in live \ cursors' : Stands(surface'[x])
  PROVE  IInv'
<1>1. TypeOK'
  <2>1. surface' \in [Surfaces -> Surface] /\ renderer' \in [Surfaces -> Renderer \cup {Nil}]
    BY DEF Becomes, Renderers
  <2> QED BY <2>1 DEF IInv, TypeOK
<1>2. OffsetsFit' /\ RenderersAgree'
  BY DEF IInv, OffsetsFit, RenderersAgree, Becomes
<1>3. Standing' /\ OwnPlaces'
  BY DEF IInv, Standing, OwnPlaces
<1>4. LayersFollowOrder'
  <2>1. \A x \in live : surface'[x].layer = surface[x].layer
    BY DEF IInv, TypeOK, Becomes
  <2> QED BY <2>1 DEF IInv, LayersFollowOrder
<1> QED BY <1>1, <1>2, <1>3, <1>4 DEF IInv

(* What the invariant says of one surface.                                 *)
LEMMA OfSurface ==
  ASSUME IInv, NEW s \in Surfaces
  PROVE  /\ surface[s] \in Surface /\ renderer[s] \in Renderers
         /\ Fits(surface[s]) /\ Agrees(renderer[s], surface[s])
         /\ Becomes(surface[s], renderer[s], surface[s], renderer[s])
         /\ s \in live \ cursors => Stands(surface[s])
<1>1. surface[s] \in Surface /\ renderer[s] \in Renderers
  BY DEF IInv, TypeOK, Renderers
<1>2. Fits(surface[s]) /\ Agrees(renderer[s], surface[s])
  BY DEF IInv, OffsetsFit, RenderersAgree
<1>3. s \in live \ cursors => Stands(surface[s])
  BY DEF IInv, Standing
<1> QED BY <1>1, <1>2, <1>3 DEF Becomes

(* A step of one surface.                                                  *)
LEMMA OneSurface ==
  ASSUME IInv, NEW s \in live, NEW r, NEW q,
         UNCHANGED <<live, place, cursor, ray, connected, cursors>>,
         surface' = [surface EXCEPT ![s] = r], renderer' = [renderer EXCEPT ![s] = q],
         Becomes(surface[s], renderer[s], r, q),
         Stands(surface[s]) /\ s \notin cursors => Stands(r)
  PROVE  IInv'
<1>1. surface \in [Surfaces -> Surface] /\ renderer \in [Surfaces -> Renderers] /\ s \in Surfaces
  BY DEF IInv, TypeOK, Renderers
<1>2. /\ surface'[s] = r /\ renderer'[s] = q
      /\ \A x \in Surfaces \ {s} : surface'[x] = surface[x] /\ renderer'[x] = renderer[x]
  BY <1>1
<1>3. \A x \in Surfaces : Becomes(surface[x], renderer[x], surface'[x], renderer'[x])
  BY <1>2, OfSurface
<1>4. \A x \in live \ cursors' : Stands(surface'[x])
  <2>1. \A x \in live \ cursors : Stands(surface[x])
    BY DEF IInv, Standing
  <2>2. live \subseteq Surfaces
    BY DEF IInv, TypeOK
  <2> QED BY <1>2, <2>1, <2>2
<1>5. /\ surface' = [x \in Surfaces |-> surface'[x]] /\ renderer' = [x \in Surfaces |-> renderer'[x]]
      /\ cursors' \subseteq live /\ cursor' \in cursors' \cup {Nil} /\ ray' \in Directions
  BY <1>1 DEF IInv, TypeOK, Standing
<1> QED BY <1>3, <1>4, <1>5, EachSurface

(* What is pending shows nowhere, and a role of a window neither.          *)
LEMMA PendingKeeps ==
  ASSUME IInv, NEW s \in Surfaces, NEW d, NEW isBuffer \in BOOLEAN,
         \/ d \in Offsets /\ (Attach(s, isBuffer, d) \/ SetOffset(s, d))
         \/ GetToplevel(s)
  PROVE  IInv'
<1> DEFINE old == surface[s]
           a == [old EXCEPT !.pendingBuffer = isBuffer]
<1>1. s \in live /\ UNCHANGED <<live, place, cursor, ray, connected, renderer, cursors>>
  BY DEF Attach, SetOffset, GetToplevel
<1>2. /\ old \in Surface /\ Fits(old) /\ renderer[s] \in Renderers /\ Agrees(renderer[s], old)
      /\ s \notin cursors => Stands(old)
  BY <1>1, OfSurface
<1>3. renderer' = [renderer EXCEPT ![s] = renderer[s]]
  BY <1>1 DEF IInv, TypeOK
<1>4. SUFFICES ASSUME NEW r, surface' = [surface EXCEPT ![s] = r],
                      r \in Surface, Fits(r), r.hasData = old.hasData, r.size = old.size,
                      r.layer = old.layer, ModelOf(r) = ModelOf(old), Stands(old) => Stands(r)
               PROVE  IInv'
  <2>1. CASE d \in Offsets /\ Attach(s, isBuffer, d)
    <3> DEFINE r == [old EXCEPT !.pendingBuffer = isBuffer, !.pendingOffset = d]
    <3>1. surface' = [surface EXCEPT ![s] = r]
      BY <2>1, Zenon DEF Attach
    <3>2. r = [a EXCEPT !.pendingOffset = d]
      BY Zenon
    <3> HIDE DEF r
    <3>3. /\ a \in Surface /\ a.hasData = old.hasData /\ a.size = old.size /\ a.layer = old.layer
          /\ a.at = old.at /\ a.offset = old.offset /\ a.active = old.active
          /\ a.dir = old.dir /\ a.role = old.role
      BY <1>2 DEF Surface
    <3>4. a.offset + d <= MaxOffset
      BY <2>1, <3>3 DEF Attach
    <3> HIDE DEF a, old
    <3>5. /\ r \in Surface /\ r.hasData = old.hasData /\ r.size = old.size /\ r.layer = old.layer
          /\ r.at = old.at /\ r.offset = old.offset /\ r.active = old.active
          /\ r.dir = old.dir /\ r.role = old.role /\ r.pendingOffset = d /\ r.offset = a.offset
      BY <2>1, <3>2, <3>3 DEF Surface
    <3>6. Fits(r)
      BY <3>4, <3>5 DEF Fits
    <3> QED BY <1>4, <3>1, <3>5, <3>6 DEF ModelOf, Stands
  <2>2. CASE d \in Offsets /\ SetOffset(s, d)
    <3> DEFINE r == [old EXCEPT !.pendingOffset = d]
    <3>1. surface' = [surface EXCEPT ![s] = r] /\ old.offset + d <= MaxOffset
      BY <2>2, Zenon DEF SetOffset
    <3> HIDE DEF old
    <3>2. /\ r \in Surface /\ r.hasData = old.hasData /\ r.size = old.size /\ r.layer = old.layer
          /\ r.at = old.at /\ r.offset = old.offset /\ r.active = old.active
          /\ r.dir = old.dir /\ r.role = old.role /\ r.pendingOffset = d
      BY <1>2, <2>2 DEF Surface
    <3> HIDE DEF r
    <3>3. Fits(r)
      BY <3>1, <3>2 DEF Fits
    <3> QED BY <1>4, <3>1, <3>2, <3>3 DEF ModelOf, Stands
  <2>3. CASE GetToplevel(s)
    <3> DEFINE r == [old EXCEPT !.role = "toplevel"]
    <3>1. surface' = [surface EXCEPT ![s] = r]
      BY <2>3, Zenon DEF GetToplevel
    <3> HIDE DEF old
    <3>2. /\ r \in Surface /\ r.hasData = old.hasData /\ r.size = old.size /\ r.layer = old.layer
          /\ r.at = old.at /\ r.offset = old.offset /\ r.active = old.active
          /\ r.dir = old.dir /\ r.role = "toplevel" /\ r.pendingOffset = old.pendingOffset
      BY <1>2 DEF Surface
    <3> HIDE DEF r
    <3>3. Fits(r)
      BY <1>2, <3>2 DEF Fits
    <3> QED BY <1>4, <3>1, <3>2, <3>3 DEF ModelOf, Stands
  <2> QED BY <2>1, <2>2, <2>3
<1>5. Becomes(old, renderer[s], r, renderer[s])
  BY <1>2, <1>4, ModelBecomes
<1> HIDE DEF a
<1> QED BY <1>1, <1>2, <1>3, <1>4, <1>5, OneSurface

(* commit, of the surface and of its renderer.                             *)
LEMMA CommitKeeps ==
  ASSUME IInv, NEW s \in Surfaces, NEW t \in Textures \cup {Nil}, Commit(s, t)
  PROVE  IInv'
<1> DEFINE old == surface[s]
           r == Filled(Moved(old), t)
           c == SyncCommitted(renderer[s], old, t)
           p == IF r.hasData THEN CommitRenderer(SetTexture(c, r)) ELSE c
<1>1. /\ s \in live /\ (t # Nil => old.pendingBuffer)
      /\ surface' = [surface EXCEPT ![s] = r] /\ renderer' = [renderer EXCEPT ![s] = p]
      /\ UNCHANGED <<live, place, cursor, ray, connected, cursors>>
  BY DEF Commit
<1>2. /\ old \in Surface /\ Fits(old) /\ renderer[s] \in Renderers /\ Agrees(renderer[s], old)
      /\ s \notin cursors => Stands(old)
  BY <1>1, OfSurface
<1> HIDE DEF old
<1>3. /\ r \in Surface /\ Fits(r)
      /\ r.role = old.role /\ r.layer = old.layer /\ r.dir = old.dir /\ r.at = old.at
      /\ p \in Renderers /\ Agrees(p, r) /\ (p = Nil <=> renderer[s] = Nil)
  BY <1>1, <1>2, CommitAgrees
<1> HIDE DEF r, p
<1>4. Becomes(old, renderer[s], r, p) /\ (Stands(old) => Stands(r))
  BY <1>3 DEF Becomes, Stands
<1> QED BY <1>1, <1>4, OneSurface DEF old

----------------------------------------------------------------------------
(* Steps that change the list or the session                               *)

(* A reorder re-establishes the invariant whatever the list became.        *)
LEMMA ReorderKeeps ==
  ASSUME IInv, NEW r \in [Surfaces -> Surface], NEW q \in [Surfaces -> Renderers],
         Reorder(live', place', r, q),
         live' \in SUBSET Surfaces, place' \in [Surfaces -> Nat],
         cursors \subseteq live', UNCHANGED <<cursor, ray, connected, cursors>>,
         \A s, t \in live' : place'[s] = place'[t] => s = t,
         \A s \in Surfaces : /\ Agrees(q[s], r[s]) /\ Fits(r[s])
                             /\ q[s] # Nil <=> connected /\ s \in live',
         \A s \in live' \ cursors : r[s].role # "cursor"
  PROVE  IInv'
<1> DEFINE W == Windows(live', r)
<1>1. /\ surface' \in [Surfaces -> Surface] /\ renderer' \in [Surfaces -> Renderers]
      /\ \A s \in Surfaces : /\ Agrees(renderer'[s], surface'[s]) /\ Fits(surface'[s])
                             /\ renderer'[s] = Nil <=> q[s] = Nil
                             /\ surface'[s].role = r[s].role
      /\ \A s \in W : surface'[s].at = Sphere(surface'[s].dir, surface'[s].layer)
      /\ \A s, t \in W : place'[s] < place'[t] => surface'[s].layer < surface'[t].layer
  <2> DEFINE L == live'
             p == place'
  <2>1. L \in SUBSET Surfaces /\ p \in [Surfaces -> Nat] /\ Reorder(L, p, r, q)
    OBVIOUS
  <2>2. \A s \in Surfaces : Agrees(q[s], r[s]) /\ Fits(r[s])
    OBVIOUS
  <2> HIDE DEF L, p
  <2>3. /\ surface' \in [Surfaces -> Surface] /\ renderer' \in [Surfaces -> Renderers]
        /\ \A s \in Surfaces : /\ Agrees(renderer'[s], surface'[s]) /\ Fits(surface'[s])
                               /\ renderer'[s] = Nil <=> q[s] = Nil
                               /\ surface'[s].role = r[s].role
        /\ \A s \in Windows(L, r) : surface'[s].at = Sphere(surface'[s].dir, surface'[s].layer)
        /\ \A s, t \in Windows(L, r) : p[s] < p[t] => surface'[s].layer < surface'[t].layer
    BY <2>1, <2>2, ReorderWorks
  <2> QED BY <2>3 DEF L, p
<1>2. live' \ cursors' \subseteq W
  BY DEF Windows
<1> HIDE DEF W
<1>3. TypeOK'
  BY <1>1 DEF IInv, TypeOK, Standing, Renderers
<1>4. OffsetsFit' /\ RenderersAgree'
  BY <1>1 DEF OffsetsFit, RenderersAgree
<1>5. Standing'
  <2>1. cursor' \in cursors' \cup {Nil}
    BY DEF IInv, Standing
  <2>2. ASSUME NEW s \in live' \ cursors' PROVE Stands(surface'[s])
    BY <1>1, <1>2 DEF Stands
  <2> QED BY <2>1, <2>2 DEF Standing
<1>6. OwnPlaces' /\ LayersFollowOrder'
  BY <1>1, <1>2 DEF OwnPlaces, LayersFollowOrder
<1> QED BY <1>3, <1>4, <1>5, <1>6 DEF IInv

(* A surface that was just created, or that is gone.                       *)
LEMMA NewIsSurface ==
  /\ NewSurface \in Surface /\ Fits(NewSurface) /\ NewSurface.role = "default"
  /\ OnSphere(NewSurface) = NewSurface
<1>1. NewSurface \in Surface
  BY SurfaceStackAssumption DEF NewSurface, Surface, Sphere, At
<1>2. Fits(NewSurface) /\ NewSurface.role = "default"
  BY DEF NewSurface, Fits
<1>3. NewSurface.at = Sphere(NewSurface.dir, NewSurface.layer)
  BY DEF NewSurface
<1>4. OnSphere(NewSurface) = [NewSurface EXCEPT !.at = Sphere(NewSurface.dir, NewSurface.layer)]
  BY DEF OnSphere
<1>5. OnSphere(NewSurface) = NewSurface
  BY <1>1, <1>3, <1>4 DEF Surface
<1> QED BY <1>1, <1>2, <1>5

(* The first thing a surface does is to be in front.                       *)
LEMMA CreateKeeps ==
  ASSUME IInv, NEW s \in Surfaces, Create(s)
  PROVE  IInv'
<1> DEFINE new == OnSphere(NewSurface)
           r == [surface EXCEPT ![s] = new]
           q == [renderer EXCEPT ![s] = IF connected THEN InitRenderer(new) ELSE Nil]
<1>1. /\ s \notin live /\ live' = live \cup {s}
      /\ place' = [x \in Surfaces |-> IF x \in live THEN place[x] + 1 ELSE 0]
      /\ Reorder(live', place', r, q)
      /\ UNCHANGED <<cursor, ray, connected, cursors>>
  BY DEF Create
<1>2. new \in Surface /\ Fits(new) /\ new.role = "default"
  BY NewIsSurface
<1>3. InitRenderer(new) \in Renderer /\ InitRenderer(new) # Nil /\ Agrees(InitRenderer(new), new)
  BY <1>2, InitAgrees
<1>4. Agrees(Nil, new)
  BY DEF Agrees
<1> HIDE DEF new
<1>5. /\ surface \in [Surfaces -> Surface] /\ renderer \in [Surfaces -> Renderers]
      /\ live \in SUBSET Surfaces /\ cursors \subseteq live /\ place \in [Surfaces -> Nat]
      /\ connected \in BOOLEAN
  BY DEF IInv, TypeOK, Renderers
<1>6. r \in [Surfaces -> Surface] /\ q \in [Surfaces -> Renderers]
  BY <1>2, <1>3, <1>5 DEF Renderers
<1>7. /\ \A x \in Surfaces : /\ Agrees(q[x], r[x]) /\ Fits(r[x])
                             /\ q[x] # Nil <=> connected /\ x \in live'
      /\ \A x \in live' \ cursors : r[x].role # "cursor"
  <2>1. \A x \in Surfaces \ {s} : r[x] = surface[x] /\ q[x] = renderer[x]
    BY <1>5
  <2>2. r[s] = new /\ q[s] = IF connected THEN InitRenderer(new) ELSE Nil
    BY <1>5
  <2> HIDE DEF r, q
  <2>3. \A x \in Surfaces \ {s} : /\ Agrees(q[x], r[x]) /\ Fits(r[x])
                                  /\ q[x] # Nil <=> connected /\ x \in live'
    BY <1>1, <2>1 DEF IInv, RenderersAgree, OffsetsFit
  <2>4. Agrees(q[s], r[s]) /\ Fits(r[s]) /\ (q[s] # Nil <=> connected /\ s \in live')
    BY <1>1, <1>2, <1>3, <1>4, <1>5, <2>2
  <2>5. \A x \in live' \ cursors : r[x].role # "cursor"
    BY <1>1, <1>2, <1>5, <2>1, <2>2 DEF IInv, Standing, Stands
  <2> QED BY <2>3, <2>4, <2>5
<1> HIDE DEF r, q
<1>8. /\ live' \in SUBSET Surfaces /\ cursors \subseteq live' /\ place' \in [Surfaces -> Nat]
      /\ \A x, y \in live' : place'[x] = place'[y] => x = y
  BY <1>1, <1>5 DEF IInv, OwnPlaces
<1>9. Reorder(live', place', r, q) /\ UNCHANGED <<cursor, ray, connected, cursors>>
  BY <1>1
<1>10. \A x \in Surfaces : /\ Agrees(q[x], r[x]) /\ Fits(r[x])
                           /\ q[x] # Nil <=> connected /\ x \in live'
  BY <1>7
<1>11. \A x \in live' \ cursors : r[x].role # "cursor"
  BY <1>7
<1> QED BY <1>6, <1>8, <1>9, <1>10, <1>11, ReorderKeeps

(* Raising moves one surface to the front and keeps the others in order.   *)
LEMMA RaiseKeeps ==
  ASSUME IInv, NEW s \in Surfaces, Raise(s)
  PROVE  IInv'
<1>1. /\ s \in live /\ place' = Raised(s) /\ Reorder(live', place', surface, renderer)
      /\ UNCHANGED <<live, cursor, ray, connected, cursors>>
  BY DEF Raise
<1>2. /\ surface \in [Surfaces -> Surface] /\ renderer \in [Surfaces -> Renderers]
      /\ live' \in SUBSET Surfaces /\ cursors \subseteq live' /\ place \in [Surfaces -> Nat]
  BY <1>1 DEF IInv, TypeOK, Renderers
<1>3. place' \in [Surfaces -> Nat]
  BY <1>1, <1>2 DEF Raised
<1>4. \A x, y \in live' : place'[x] = place'[y] => x = y
  BY <1>1, <1>2 DEF IInv, OwnPlaces, Raised
<1>5. \A x \in Surfaces : /\ Agrees(renderer[x], surface[x]) /\ Fits(surface[x])
                          /\ renderer[x] # Nil <=> connected /\ x \in live'
  BY <1>1 DEF IInv, RenderersAgree, OffsetsFit
<1>6. \A x \in live' \ cursors : surface[x].role # "cursor"
  BY <1>1 DEF IInv, Standing, Stands
<1> QED BY <1>1, <1>2, <1>3, <1>4, <1>5, <1>6, ReorderKeeps

(* Those behind a surface that goes take a place each, in order.           *)
LEMMA DestroyKeeps ==
  ASSUME IInv, NEW s \in Surfaces, Destroy(s)
  PROVE  IInv'
<1>1. /\ s \in live /\ live' = live \ {s} /\ cursors' = cursors \ {s}
      /\ surface' = [surface EXCEPT ![s] = NewSurface] /\ renderer' = [renderer EXCEPT ![s] = Nil]
      /\ cursor' = Unless(cursor, s) /\ UNCHANGED <<ray, connected>>
  BY DEF Destroy
<1>2. /\ surface \in [Surfaces -> Surface] /\ renderer \in [Surfaces -> Renderers]
      /\ live \in SUBSET Surfaces /\ cursors \subseteq live /\ place \in [Surfaces -> Nat]
      /\ cursor \in live \cup {Nil}
  BY DEF IInv, TypeOK, Renderers
<1>3. /\ surface'[s] = NewSurface /\ renderer'[s] = Nil
      /\ \A x \in Surfaces \ {s} : surface'[x] = surface[x] /\ renderer'[x] = renderer[x]
  BY <1>1, <1>2
<1>4. \A x \in live' : place[x] \in Nat /\ place[x] # place[s]
                       /\ place'[x] = IF place[x] > place[s] THEN place[x] - 1 ELSE place[x]
  <2>1. \A x \in live' : x \in live /\ x # s /\ x \in Surfaces /\ place[x] \in Nat /\ place[s] \in Nat
    BY <1>1, <1>2
  <2>2. \A x \in live' : place[x] # place[s]
    BY <1>1, <2>1 DEF IInv, OwnPlaces
  <2>3. \A x \in live' : place'[x] = IF place[x] > place[s] THEN place[x] - 1 ELSE place[x]
    BY <2>1 DEF Destroy
  <2> QED BY <2>1, <2>2, <2>3
<1>5. place' \in [Surfaces -> Nat]
  <2>1. \A x \in Surfaces : place[x] \in Nat
    BY <1>2
  <2>2. place' = [x \in Surfaces |-> CASE x = s -> 0
                                       [] x # s /\ place[x] > place[s]  -> place[x] - 1
                                       [] x # s /\ place[x] <= place[s] -> place[x]]
    BY DEF Destroy
  <2>3. \A x \in Surfaces : place'[x] \in Nat
    <3> TAKE x \in Surfaces
    <3>1. CASE x = s
      BY <2>2, <3>1
    <3>2. CASE x # s /\ place[x] > place[s]
      BY <2>1, <2>2, <3>2
    <3>3. CASE x # s /\ place[x] <= place[s]
      BY <2>1, <2>2, <3>3
    <3> QED BY <2>1, <3>1, <3>2, <3>3
  <2> QED BY <2>2, <2>3
<1>6. \A x, y \in live' : place'[x] < place'[y] <=> place[x] < place[y]
  <2>1. place[s] \in Nat
    BY <1>2
  <2> QED BY <1>4, <2>1
<1>7. cursor' \in cursors' \cup {Nil} /\ cursors' \subseteq live'
  BY <1>1, <1>2 DEF IInv, Standing, Unless
<1>8. TypeOK'
  BY <1>1, <1>2, <1>5, <1>7, NewIsSurface DEF IInv, TypeOK, Renderers
<1>9. OffsetsFit' /\ RenderersAgree'
  <2>1. Agrees(Nil, NewSurface) /\ Fits(NewSurface)
    BY NewIsSurface DEF Agrees
  <2>2. \A x \in Surfaces \ {s} : /\ Agrees(renderer'[x], surface'[x]) /\ Fits(surface'[x])
                                  /\ renderer'[x] # Nil <=> connected' /\ x \in live'
    BY <1>1, <1>3 DEF IInv, OffsetsFit, RenderersAgree
  <2> QED BY <1>1, <1>3, <2>1, <2>2 DEF OffsetsFit, RenderersAgree
<1>10. Standing'
  BY <1>1, <1>2, <1>3, <1>7 DEF IInv, Standing
<1>11. OwnPlaces'
  <2>1. \A x, y \in live' : place[x] = place[y] => x = y
    BY <1>1 DEF IInv, OwnPlaces
  <2>2. \A x \in live' : place[x] \in Nat /\ place'[x] \in Nat
    BY <1>1, <1>2, <1>5
  <2>3. \A x, y \in live' : place'[x] = place'[y] => place[x] = place[y]
    BY <1>6, <2>2
  <2> QED BY <2>1, <2>3 DEF OwnPlaces
<1>12. LayersFollowOrder'
  BY <1>1, <1>2, <1>3, <1>6 DEF IInv, LayersFollowOrder
<1> QED BY <1>8, <1>9, <1>10, <1>11, <1>12 DEF IInv

(* With a session every renderer is new, and without one there is none.    *)
LEMMA SessionKeeps ==
  ASSUME IInv, Establish \/ Disconnect
  PROVE  /\ IInv'
         /\ \A s \in live \ cursors : surface'[s] = surface[s]
<1>1. /\ surface \in [Surfaces -> Surface] /\ live \in SUBSET Surfaces
      /\ UNCHANGED <<live, place, cursor, ray, cursors>>
  BY DEF IInv, TypeOK, Establish, Disconnect
<1>2. SUFFICES /\ connected' \in BOOLEAN /\ surface' = [s \in Surfaces |-> surface'[s]]
               /\ renderer' = [s \in Surfaces |-> renderer'[s]]
               /\ \A s \in Surfaces : /\ surface'[s] \in Surface /\ renderer'[s] \in Renderers
                                      /\ Agrees(renderer'[s], surface'[s]) /\ Fits(surface'[s])
                                      /\ renderer'[s] # Nil <=> connected' /\ s \in live
                                      /\ surface'[s].layer = surface[s].layer
               /\ \A s \in live \ cursors : surface'[s] = surface[s]
  <2>1. TypeOK'
    <3>1. surface' \in [Surfaces -> Surface] /\ renderer' \in [Surfaces -> Renderer \cup {Nil}]
      BY <1>2 DEF Renderers
    <3> QED BY <1>1, <1>2, <3>1 DEF IInv, TypeOK
  <2>2. OffsetsFit' /\ RenderersAgree'
    BY <1>1, <1>2 DEF OffsetsFit, RenderersAgree
  <2>3. Standing' /\ OwnPlaces' /\ LayersFollowOrder'
    BY <1>1, <1>2 DEF IInv, Standing, OwnPlaces, LayersFollowOrder
  <2> QED BY <1>2, <2>1, <2>2, <2>3 DEF IInv
<1>3. CASE Establish
  <2> DEFINE new(s) == OnSphere(surface[s])
  <2>1. /\ connected' = TRUE
        /\ surface' = [s \in Surfaces |-> IF s \in live THEN new(s) ELSE surface[s]]
        /\ renderer' = [s \in Surfaces |-> IF s \in live THEN InitRenderer(surface'[s]) ELSE Nil]
    BY <1>3 DEF Establish
  <2>2. \A s \in Surfaces : /\ new(s) \in Surface /\ new(s).layer = surface[s].layer /\ Fits(new(s))
                            /\ new(s).at = Sphere(surface[s].dir, surface[s].layer)
    BY <1>1, SphereWorks DEF IInv, OffsetsFit
  <2>3. \A s \in live \ cursors : new(s) = surface[s]
    <3> TAKE s \in live \ cursors
    <3>1. surface[s] \in Surface /\ surface[s].at = Sphere(surface[s].dir, surface[s].layer)
      BY <1>1 DEF IInv, Standing, Stands
    <3>2. new(s) = [surface[s] EXCEPT !.at = Sphere(surface[s].dir, surface[s].layer)]
      BY DEF OnSphere
    <3> QED BY <3>1, <3>2 DEF Surface
  <2> HIDE DEF new
  <2>4. \A s \in Surfaces : /\ surface'[s] = (IF s \in live THEN new(s) ELSE surface[s])
                            /\ renderer'[s] = IF s \in live THEN InitRenderer(surface'[s]) ELSE Nil
    BY <2>1
  <2>5. \A s \in Surfaces : surface'[s] \in Surface /\ Fits(surface'[s])
                            /\ surface'[s].layer = surface[s].layer
    BY <1>1, <2>2, <2>4 DEF IInv, OffsetsFit
  <2>6. \A s \in live : /\ renderer'[s] \in Renderers /\ renderer'[s] # Nil
                        /\ Agrees(renderer'[s], surface'[s])
    BY <1>1, <2>4, <2>5, InitAgrees DEF Renderers
  <2>7. \A s \in Surfaces \ live : renderer'[s] = Nil /\ Agrees(renderer'[s], surface'[s])
    BY <2>4 DEF Agrees
  <2>8. \A s \in Surfaces : /\ renderer'[s] \in Renderers /\ Agrees(renderer'[s], surface'[s])
                            /\ renderer'[s] # Nil <=> connected' /\ s \in live
    BY <2>1, <2>6, <2>7 DEF Renderers
  <2>9. \A s \in live \ cursors : surface'[s] = surface[s]
    BY <1>1, <2>3, <2>4
  <2> QED BY <2>1, <2>5, <2>8, <2>9
<1>4. CASE Disconnect
  <2>1. connected' = FALSE /\ surface' = surface /\ renderer' = [s \in Surfaces |-> Nil]
    BY <1>4 DEF Disconnect
  <2>2. \A s \in Surfaces : renderer'[s] = Nil /\ Agrees(renderer'[s], surface'[s])
    BY <2>1 DEF Agrees
  <2> QED BY <1>1, <2>1, <2>2 DEF IInv, OffsetsFit, Renderers
<1> QED BY <1>3, <1>4

----------------------------------------------------------------------------
(* The cursor                                                              *)

(* Drawing a surface once more.                                            *)
LEMMA AgainBecomes ==
  ASSUME NEW old, NEW p, NEW r, NEW q, Becomes(old, p, r, q), r \in Surface,
         NEW new \in Surface, Fits(new),
         new.hasData = r.hasData, new.size = r.size, new.layer = r.layer
  PROVE  Becomes(old, p, new, Redraw(q, new))
<1>1. q \in Renderers /\ Agrees(q, r)
  BY DEF Becomes
<1>2. /\ Redraw(q, new) \in Renderers /\ Agrees(Redraw(q, new), new)
      /\ Redraw(q, new) = Nil <=> q = Nil
  BY <1>1, RedrawAgrees
<1> QED BY <1>2 DEF Becomes

(* A surface that is put where the ray leads.                              *)
LEMMA PutOnRay ==
  ASSUME NEW r \in Surface, NEW d \in Directions, Fits(r)
  PROVE  LET new == [r EXCEPT !.at = Ray(d)]
         IN /\ new \in Surface /\ Fits(new) /\ new.layer = r.layer
            /\ new.hasData = r.hasData /\ new.size = r.size
<1> DEFINE new == [r EXCEPT !.at = Ray(d)]
<1>1. Ray(d) \in At
  BY DEF Ray, At
<1>2. /\ new \in Surface /\ Fits(new) /\ new.layer = r.layer
      /\ new.hasData = r.hasData /\ new.size = r.size
  BY <1>1 DEF Surface, Fits
<1> QED BY <1>2

(* The same for one that is hidden or shown.                               *)
LEMMA SetActive ==
  ASSUME NEW r \in Surface, NEW b \in BOOLEAN, Fits(r)
  PROVE  LET new == [r EXCEPT !.active = b]
         IN /\ new \in Surface /\ Fits(new) /\ new.layer = r.layer
            /\ new.hasData = r.hasData /\ new.size = r.size
            /\ Stands(r) => Stands(new)
BY DEF Surface, Fits, Stands

(* The ray moves, and the cursor with it.                                  *)
LEMMA MoveCursorKeeps ==
  ASSUME IInv, NEW r \in [Surfaces -> Surface], NEW q \in [Surfaces -> Renderers],
         NEW d \in Directions, MoveCursor(d, r, q),
         UNCHANGED <<live, place, cursor, connected, cursors>>,
         \A x \in Surfaces : Becomes(surface[x], renderer[x], r[x], q[x]),
         \A x \in live \ cursors : Stands(r[x])
  PROVE  IInv'
<1>1. /\ cursors' \subseteq live /\ cursor' \in cursors' \cup {Nil} /\ ray' \in Directions
      /\ live \subseteq Surfaces /\ ray' = d
  BY DEF IInv, TypeOK, Standing, MoveCursor
<1>2. CASE cursor = Nil
  <2>1. surface' = r /\ renderer' = q
    BY <1>2 DEF MoveCursor
  <2> QED BY <1>1, <2>1, EachSurface
<1>3. CASE cursor # Nil
  <2> DEFINE new == [r[cursor] EXCEPT !.at = Ray(d)]
  <2>1. /\ surface' = [r EXCEPT ![cursor] = new]
        /\ renderer' = [q EXCEPT ![cursor] = Redraw(q[cursor], surface'[cursor])]
    BY <1>3, Zenon DEF MoveCursor
  <2>2. cursor \in Surfaces /\ cursor \in cursors
    BY <1>1, <1>3 DEF IInv, Standing, TypeOK
  <2>3. Fits(r[cursor]) /\ r[cursor] \in Surface
    BY <2>2 DEF Becomes
  <2>4. /\ new \in Surface /\ Fits(new) /\ new.layer = r[cursor].layer
        /\ new.hasData = r[cursor].hasData /\ new.size = r[cursor].size
    BY <2>3, PutOnRay
  <2> HIDE DEF new
  <2>5. Becomes(surface[cursor], renderer[cursor], new, Redraw(q[cursor], new))
    BY <2>2, <2>3, <2>4, AgainBecomes
  <2>6. /\ surface'[cursor] = new /\ renderer'[cursor] = Redraw(q[cursor], new)
        /\ \A x \in Surfaces \ {cursor} : surface'[x] = r[x] /\ renderer'[x] = q[x]
    BY <2>1, <2>2
  <2>7. \A x \in Surfaces : Becomes(surface[x], renderer[x], surface'[x], renderer'[x])
    BY <2>5, <2>6
  <2>8. \A x \in live \ cursors' : Stands(surface'[x])
    BY <1>1, <2>2, <2>6
  <2>9. surface' = [x \in Surfaces |-> surface'[x]] /\ renderer' = [x \in Surfaces |-> renderer'[x]]
    BY <2>1
  <2> QED BY <1>1, <2>7, <2>8, <2>9, EachSurface
<1> QED BY <1>2, <1>3

(* Whether or not something is dragged with it.                            *)
LEMMA PointKeeps ==
  ASSUME IInv, NEW d \in Directions,
         Point(d) \/ \E s \in Surfaces : Drag(s, d)
  PROVE  IInv'
<1>1. /\ surface \in [Surfaces -> Surface] /\ renderer \in [Surfaces -> Renderers]
      /\ \A x \in live \ cursors : Stands(surface[x])
      /\ live \subseteq Surfaces
  BY DEF IInv, TypeOK, Renderers, Standing
<1>2. CASE Point(d)
  <2>1. MoveCursor(d, surface, renderer) /\ UNCHANGED <<live, place, cursor, connected, cursors>>
    BY <1>2 DEF Point
  <2> QED BY <1>1, <2>1, OfSurface, MoveCursorKeeps
<1>3. ASSUME NEW s \in Surfaces, Drag(s, d)
      PROVE  IInv'
  <2> DEFINE turned == [surface[s] EXCEPT !.dir = d]
             dragged == OnSphere(turned)
             r == [surface EXCEPT ![s] = dragged]
             q == [renderer EXCEPT ![s] = Redraw(renderer[s], dragged)]
  <2>1. MoveCursor(d, r, q) /\ UNCHANGED <<live, place, cursor, connected, cursors>>
    BY <1>3, Zenon DEF Drag
  <2>2. surface[s] \in Surface /\ Fits(surface[s]) /\ Becomes(surface[s], renderer[s], surface[s], renderer[s])
    BY OfSurface
  <2>3. /\ turned \in Surface /\ Fits(turned) /\ turned.layer = surface[s].layer
        /\ turned.hasData = surface[s].hasData /\ turned.size = surface[s].size
        /\ turned.role = surface[s].role
    BY <2>2 DEF Surface, Fits
  <2> HIDE DEF turned
  <2>4. /\ dragged \in Surface /\ Fits(dragged) /\ dragged.layer = surface[s].layer
        /\ dragged.hasData = surface[s].hasData /\ dragged.size = surface[s].size
        /\ dragged.role = surface[s].role
        /\ dragged.at = Sphere(dragged.dir, dragged.layer)
    BY <2>3, SphereWorks
  <2> HIDE DEF dragged
  <2>5. Becomes(surface[s], renderer[s], dragged, Redraw(renderer[s], dragged))
    BY <2>2, <2>4, AgainBecomes
  <2>6. /\ r[s] = dragged /\ q[s] = Redraw(renderer[s], dragged)
        /\ \A x \in Surfaces \ {s} : r[x] = surface[x] /\ q[x] = renderer[x]
    BY <1>1
  <2>7. \A x \in Surfaces : Becomes(surface[x], renderer[x], r[x], q[x])
    BY <2>5, <2>6, OfSurface
  <2>8. \A x \in live \ cursors : Stands(r[x])
    BY <1>1, <2>4, <2>6 DEF Stands
  <2>9. r \in [Surfaces -> Surface] /\ q \in [Surfaces -> Renderers]
    BY <1>1, <2>4, <2>5 DEF Becomes
  <2> HIDE DEF r, q
  <2> QED BY <2>1, <2>7, <2>8, <2>9, MoveCursorKeeps
<1> QED BY <1>2, <1>3

(* A ray that hits nothing hides the cursor.                               *)
LEMMA PointNowhereKeeps ==
  ASSUME IInv, NEW d \in Directions, PointNowhere(d)
  PROVE  IInv'
<1>1. /\ ray' \in Directions /\ cursor' = Nil /\ cursors' \subseteq live
      /\ UNCHANGED <<live, place, connected, cursors>>
  BY DEF PointNowhere, IInv, TypeOK
<1>2. /\ surface' = [x \in Surfaces |-> IF x = cursor THEN [surface[x] EXCEPT !.active = FALSE]
                                        ELSE surface[x]]
      /\ renderer' = [x \in Surfaces |-> IF x = cursor THEN Redraw(renderer[x], surface'[x])
                                         ELSE renderer[x]]
  BY DEF PointNowhere
<1>3. ASSUME NEW x \in Surfaces
      PROVE  /\ Becomes(surface[x], renderer[x], surface'[x], renderer'[x])
             /\ x \in live \ cursors => Stands(surface'[x])
  <2> DEFINE new == [surface[x] EXCEPT !.active = FALSE]
  <2>1. /\ surface'[x] = IF x = cursor THEN new ELSE surface[x]
        /\ renderer'[x] = IF x = cursor THEN Redraw(renderer[x], surface'[x]) ELSE renderer[x]
    BY <1>2
  <2>2. /\ new \in Surface /\ Fits(new) /\ new.layer = surface[x].layer
        /\ new.hasData = surface[x].hasData /\ new.size = surface[x].size
        /\ Stands(surface[x]) => Stands(new)
    BY OfSurface, SetActive
  <2> HIDE DEF new
  <2>3. Becomes(surface[x], renderer[x], new, Redraw(renderer[x], new))
    BY <2>2, OfSurface, RedrawBecomes
  <2> QED BY <2>1, <2>2, <2>3, OfSurface
<1>4. surface' = [x \in Surfaces |-> surface'[x]] /\ renderer' = [x \in Surfaces |-> renderer'[x]]
  BY <1>2
<1>5. live \subseteq Surfaces
  BY DEF IInv, TypeOK
<1>6. \A x \in live \ cursors' : Stands(surface'[x])
  BY <1>1, <1>3, <1>5
<1> QED BY <1>1, <1>3, <1>4, <1>6, EachSurface

(* One cursor takes over from another, which is hidden, or from none.      *)
LEMMA SetCursorKeeps ==
  ASSUME IInv, NEW s \in live \cup {Nil}, SetCursor(s)
  PROVE  IInv'
<1> DEFINE shown(x)  == [surface[x] EXCEPT !.role = "cursor", !.active = TRUE, !.at = Ray(ray)]
           hidden(x) == [surface[x] EXCEPT !.active = FALSE]
<1>1. /\ surface' = [x \in Surfaces |-> CASE x = s -> shown(x)
                                          [] x = cursor /\ x # s -> hidden(x)
                                          [] OTHER -> surface[x]]
      /\ renderer' = [x \in Surfaces |-> IF x \in {s, cursor} THEN Redraw(renderer[x], surface'[x])
                                         ELSE renderer[x]]
      /\ cursor' = s /\ cursors' = cursors \cup ({s} \ {Nil})
      /\ UNCHANGED <<live, place, ray, connected>>
  BY Zenon DEF SetCursor
<1>2. /\ live \subseteq Surfaces /\ cursors \subseteq live /\ ray \in Directions
      /\ \A x \in live \ cursors : Stands(surface[x])
  BY DEF IInv, TypeOK, Standing
<1>3. /\ cursors \subseteq cursors' /\ cursors' \subseteq live /\ cursor' \in cursors' \cup {Nil}
      /\ ray' \in Directions
  BY <1>1, <1>2
<1>4. ASSUME NEW x \in Surfaces
      PROVE  /\ Becomes(surface[x], renderer[x], surface'[x], renderer'[x])
             /\ x \in live \ cursors' => Stands(surface'[x])
  <2>1. /\ surface[x] \in Surface /\ Fits(surface[x]) /\ renderer[x] \in Renderers
        /\ Agrees(renderer[x], surface[x])
        /\ Becomes(surface[x], renderer[x], surface[x], renderer[x])
    BY OfSurface
  <2>2. CASE x = s
    <3> DEFINE a == [surface[x] EXCEPT !.role = "cursor"]
               b == [a EXCEPT !.active = TRUE]
               new == [b EXCEPT !.at = Ray(ray)]
    <3>1. surface'[x] = new /\ renderer'[x] = Redraw(renderer[x], surface'[x])
      <4>1. surface'[x] = shown(x)
        <5> HIDE DEF shown, hidden
        <5> QED BY <1>1, <2>2
      <4>2. shown(x) = new
        BY Zenon
      <4>3. renderer'[x] = Redraw(renderer[x], surface'[x])
        BY <1>1, <2>2
      <4> HIDE DEF shown, new
      <4> QED BY <4>1, <4>2, <4>3
    <3> HIDE DEF shown, hidden
    <3>2. /\ a \in Surface /\ a.layer = surface[x].layer /\ a.hasData = surface[x].hasData
          /\ a.size = surface[x].size /\ Fits(a)
      BY <2>1 DEF Surface, Fits
    <3> HIDE DEF a
    <3>3. /\ b \in Surface /\ b.layer = surface[x].layer /\ b.hasData = surface[x].hasData
          /\ b.size = surface[x].size /\ Fits(b)
      BY <3>2, SetActive
    <3> HIDE DEF b
    <3>4. /\ new \in Surface /\ new.layer = surface[x].layer /\ new.hasData = surface[x].hasData
          /\ new.size = surface[x].size /\ Fits(new)
      BY <1>2, <3>3, PutOnRay
    <3> HIDE DEF new
    <3>5. x \notin live \ cursors'
      <4>1. cursors' = cursors \cup ({s} \ {Nil}) /\ x # Nil
        BY <1>1, SurfaceStackAssumption
      <4> QED BY <2>2, <4>1
    <3>6. Becomes(surface[x], renderer[x], new, Redraw(renderer[x], new))
      BY <2>1, <3>4, RedrawBecomes
    <3> QED BY <3>1, <3>5, <3>6
  <2>3. CASE x = cursor /\ x # s
    <3>1. surface'[x] = hidden(x) /\ renderer'[x] = Redraw(renderer[x], hidden(x))
      <4> HIDE DEF shown, hidden
      <4>1. surface'[x] = hidden(x)
        BY <1>1, <2>3
      <4>2. renderer'[x] = Redraw(renderer[x], surface'[x])
        BY <1>1, <2>3
      <4> QED BY <4>1, <4>2
    <3>2. /\ hidden(x) \in Surface /\ Fits(hidden(x)) /\ hidden(x).layer = surface[x].layer
          /\ hidden(x).hasData = surface[x].hasData /\ hidden(x).size = surface[x].size
          /\ Stands(surface[x]) => Stands(hidden(x))
      BY <2>1, SetActive
    <3> HIDE DEF shown, hidden
    <3>3. Becomes(surface[x], renderer[x], hidden(x), Redraw(renderer[x], hidden(x)))
      BY <2>1, <3>2, RedrawBecomes
    <3> QED BY <1>2, <1>3, <3>1, <3>2, <3>3
  <2>4. CASE x # s /\ x # cursor
    <3> HIDE DEF shown, hidden
    <3>1. surface'[x] = surface[x] /\ renderer'[x] = renderer[x]
      BY <1>1, <2>4
    <3> QED BY <1>2, <1>3, <2>1, <3>1
  <2> QED BY <2>2, <2>3, <2>4
<1> HIDE DEF shown, hidden
<1>5. surface' = [x \in Surfaces |-> surface'[x]] /\ renderer' = [x \in Surfaces |-> renderer'[x]]
  BY <1>1
<1>6. \A x \in live \ cursors' : Stands(surface'[x])
  BY <1>2, <1>4
<1> QED BY <1>1, <1>3, <1>4, <1>5, <1>6, EachSurface

----------------------------------------------------------------------------
(* The theorems                                                            *)

(* The inductive invariant holds at first.                                 *)
LEMMA InitIInv == Init => IInv
<1> SUFFICES ASSUME Init PROVE IInv
  OBVIOUS
<1>1. TypeOK /\ OffsetsFit
  BY SurfaceStackAssumption, NewIsSurface DEF Init, TypeOK, OffsetsFit
<1>2. RenderersAgree
  BY DEF Init, RenderersAgree, Agrees
<1>3. Standing /\ OwnPlaces /\ LayersFollowOrder
  BY DEF Init, Standing, OwnPlaces, LayersFollowOrder
<1> QED BY <1>1, <1>2, <1>3 DEF IInv

(* Every step preserves it, and one of a session leaves windows in place.  *)
LEMMA StepIInv ==
  ASSUME IInv, [Next]_vars
  PROVE  /\ IInv'
         /\ connected' # connected =>
              \A s \in live \ cursors : ModelOf(surface'[s]) = ModelOf(surface[s])
<1>1. ASSUME NEW s \in Surfaces, Create(s)
      PROVE  IInv' /\ connected' = connected
  BY <1>1, CreateKeeps DEF Create
<1>2. ASSUME NEW s \in Surfaces, Destroy(s)
      PROVE  IInv' /\ connected' = connected
  BY <1>2, DestroyKeeps DEF Destroy
<1>3. ASSUME NEW s \in Surfaces, Raise(s)
      PROVE  IInv' /\ connected' = connected
  BY <1>3, RaiseKeeps DEF Raise
<1>4. ASSUME NEW s \in Surfaces, GetToplevel(s)
      PROVE  IInv' /\ connected' = connected
  BY <1>4, PendingKeeps DEF GetToplevel
<1>5. ASSUME NEW s \in Surfaces, NEW d \in Offsets, SetOffset(s, d)
      PROVE  IInv' /\ connected' = connected
  BY <1>5, PendingKeeps DEF SetOffset
<1>6. ASSUME NEW s \in Surfaces, NEW d \in Offsets, NEW isBuffer \in BOOLEAN, Attach(s, isBuffer, d)
      PROVE  IInv' /\ connected' = connected
  BY <1>6, PendingKeeps DEF Attach
<1>7. ASSUME NEW s \in Surfaces, NEW t \in Textures \cup {Nil}, Commit(s, t)
      PROVE  IInv' /\ connected' = connected
  BY <1>7, CommitKeeps DEF Commit
<1>8. ASSUME NEW s \in Surfaces, NEW d \in Directions, Drag(s, d)
      PROVE  IInv' /\ connected' = connected
  BY <1>8, PointKeeps DEF Drag
<1>9. ASSUME NEW s \in live \cup {Nil}, SetCursor(s)
      PROVE  IInv' /\ connected' = connected
  BY <1>9, SetCursorKeeps DEF SetCursor
<1>10. ASSUME NEW d \in Directions, Point(d) \/ PointNowhere(d)
       PROVE  IInv' /\ connected' = connected
  BY <1>10, PointKeeps, PointNowhereKeeps DEF Point, PointNowhere
<1>11. ASSUME Establish \/ Disconnect
       PROVE  IInv' /\ \A s \in live \ cursors : ModelOf(surface'[s]) = ModelOf(surface[s])
  BY <1>11, SessionKeeps
<1>12. ASSUME UNCHANGED vars
       PROVE  IInv' /\ connected' = connected
  BY <1>12 DEF vars, IInv, TypeOK, OffsetsFit, RenderersAgree, Standing, OwnPlaces, LayersFollowOrder
<1>13. CASE Next
  BY <1>1, <1>2, <1>3, <1>4, <1>5, <1>6, <1>7, <1>8, <1>9, <1>10, <1>11, <1>13 DEF Next
<1> QED BY <1>12, <1>13

(* The strengthening of the invariants below: what is drawn, how windows   *)
(* stand and in which layer follows from the surfaces and their list.      *)
THEOREM Inductive == Spec => []IInv
<1>1. IInv /\ [Next]_vars => IInv'
  BY StepIInv
<1> QED BY InitIInv, <1>1, PTL DEF Spec

(* The variables keep their types: the seat points to no surface that is   *)
(* gone, and offsets stay within their bound.                              *)
THEOREM TypeCorrect == Spec => []TypeOK
<1>1. IInv => TypeOK
  BY DEF IInv
<1> QED BY <1>1, Inductive, PTL

(* While a session is up its peer shows every surface that has a texture   *)
(* as the surface is.                                                      *)
THEOREM PeerShows == Spec => []PeerShowsSurfaces
<1>1. IInv => PeerShowsSurfaces
  BY DEF IInv, TypeOK, RenderersAgree, Agrees, PeerShowsSurfaces
<1> QED BY <1>1, Inductive, PTL

(* Windows are in front of each other as the list has them.                *)
THEOREM LayersCorrect == Spec => []LayersFollowOrder
<1>1. IInv => LayersFollowOrder
  BY DEF IInv
<1> QED BY <1>1, Inductive, PTL

(* A session that comes up or goes leaves the windows where they are.      *)
THEOREM StayCorrect == Spec => WindowsStay
<1>1. IInv /\ [Next]_vars =>
        [connected' # connected =>
           \A s \in live \ cursors : ModelOf(surface'[s]) = ModelOf(surface[s])]_vars
  BY StepIInv
<1> QED BY <1>1, Inductive, PTL DEF Spec, WindowsStay
=============================================================================

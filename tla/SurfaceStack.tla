----------------------------- MODULE SurfaceStack -----------------------------
(***************************************************************************)
(* Wayland surfaces, the order they are stacked in, and what the peer of a *)
(* session shows of them.                                                  *)
(*                                                                         *)
(* A surface keeps its geometry and its texture itself and has a Renderer  *)
(* as long as a session is up.  What is set on a Renderer shows with the   *)
(* next commit() of it.  The server has the surfaces in a list, front      *)
(* first, and puts each at a distance from the viewer by its place there;  *)
(* the one that is the cursor is put where the ray leads instead.          *)
(*                                                                         *)
(* Positions are directions, textures stand for their content and size.    *)
(* Surfaces that are destroyed leave the list at once, where the code      *)
(* skips them and erases them later.  Clients are taken not to destroy a   *)
(* wl_buffer between attach and commit, which the code does not survive.   *)
(***************************************************************************)
EXTENDS Naturals, FiniteSets

CONSTANTS
  Surfaces, Textures,
  Directions,  \* where a ray, or what was dragged by it, can be
  Front,       \* the direction of a new surface
  Offsets,     \* what clients pass as dx, dy
  MaxOffset,   \* bound: the sum of the offsets of a surface
  Nil

ASSUME SurfaceStackAssumption ==
  /\ IsFiniteSet(Surfaces) /\ Nil \notin Surfaces \cup Textures
  /\ Front \in Directions
  /\ Offsets \subseteq Nat /\ MaxOffset \in Nat /\ Nil \notin Nat

VARIABLES
  live,       \* surfaces that exist
  place,      \* surfaces_: how many surfaces are before this one in the list
  surface,    \* the members of Surface
  cursor,     \* ServerSeat::cursor_
  ray,        \* where the ray leads
  connected,  \* a session is up
  renderer,   \* renderer_ of each surface, with what the peer shows of it
  cursors     \* history: live surfaces that have been the cursor

vars == <<live, place, surface, cursor, ray, connected, renderer, cursors>>

(* At: on a sphere around the viewer, whose radius is the layer; or on the *)
(* ray                                                                     *)
Sphere(d, l) == [on |-> "sphere", dir |-> d, layer |-> l]
Ray(d)       == [on |-> "ray", dir |-> d, layer |-> 0]
At == [on : {"sphere", "ray"}, dir : Directions, layer : Nat]

(* size is that of the last texture, which texture_.has_data() may be      *)
(* without; pendingOffset is Nil unless offset_changed                     *)
Surface == [dir : Directions, layer : Nat, at : At, offset : 0..MaxOffset, active : BOOLEAN,
            role : {"default", "cursor", "toplevel"},
            hasData : BOOLEAN, size : Textures \cup {Nil},
            pendingBuffer : BOOLEAN, pendingOffset : Offsets \cup {Nil}]
NewSurface == [dir |-> Front, layer |-> 0, at |-> Sphere(Front, 0), offset |-> 0, active |-> TRUE,
               role |-> "default", hasData |-> FALSE, size |-> Nil,
               pendingBuffer |-> FALSE, pendingOffset |-> Nil]

(* local_model is made of these                                            *)
Model == [at : At, offset : 0..MaxOffset, active : BOOLEAN, size : Textures \cup {Nil}]
Look == [model : Model, texture : Textures \cup {Nil}]
Renderer == [model : Model, texture : Textures \cup {Nil}, shown : Look \cup {Nil}]

ASSUME NilAssumption == Nil \notin Renderer \cup Look

TypeOK ==
  /\ live \subseteq Surfaces
  /\ place \in [Surfaces -> Nat]
  /\ surface \in [Surfaces -> Surface]
  /\ cursor \in live \cup {Nil}
  /\ ray \in Directions
  /\ connected \in BOOLEAN
  /\ renderer \in [Surfaces -> Renderer \cup {Nil}]
  /\ cursors \subseteq live

Init ==
  /\ live = {} /\ cursors = {}
  /\ place = [s \in Surfaces |-> 0]
  /\ surface = [s \in Surfaces |-> NewSurface]
  /\ cursor = Nil /\ ray = Front
  /\ connected = FALSE
  /\ renderer = [s \in Surfaces |-> Nil]

----------------------------------------------------------------------------
(* Functions of a surface r and its renderer q, which may be Nil           *)

ModelOf(r) == [at |-> r.at, offset |-> r.offset, active |-> r.active, size |-> r.size]

(* update_pos_and_rot                                                      *)
OnSphere(r) == [r EXCEPT !.at = Sphere(r.dir, r.layer)]

SyncGeom(q, r)   == IF q = Nil THEN Nil ELSE [q EXCEPT !.model = ModelOf(r)]
SetTexture(q, r) == IF q = Nil THEN Nil ELSE [q EXCEPT !.texture = r.size]
CommitRenderer(q) ==
  IF q = Nil THEN Nil
  ELSE [q EXCEPT !.shown = [model |-> q.model, texture |-> q.texture]]
Redraw(q, r) == CommitRenderer(SyncGeom(q, r))

(* init_renderer, of a surface that is OnSphere                            *)
InitRenderer(r) ==
  LET q == [model |-> ModelOf(r), texture |-> Nil, shown |-> Nil]
  IN IF r.hasData THEN CommitRenderer(SetTexture(q, r)) ELSE q

(* reorder_surfaces, of the surfaces L with the places p: those that are   *)
(* not a cursor get the next layer.  Slips: the layer is set and the       *)
(* surface stays; what is set is not committed.                            *)
Windows(L, r) == {s \in L : r[s].role # "cursor"}
LayeredInPlace(W, p, r) ==
  [s \in Surfaces |-> IF s \in W
     THEN [r[s] EXCEPT !.layer = Cardinality({x \in W : p[x] < p[s]})] ELSE r[s]]
Layered(W, p, r) ==
  [s \in Surfaces |-> IF s \in W
     THEN OnSphere([r[s] EXCEPT !.layer = Cardinality({x \in W : p[x] < p[s]})]) ELSE r[s]]
SyncLayer(q, r) == SyncGeom(q, r)
DrawLayer(q, r) == IF r.hasData THEN Redraw(q, r) ELSE SyncGeom(q, r)
Reorder(L, p, r, q) ==
  LET W == Windows(L, r)
  IN /\ surface' = Layered(W, p, r)
     /\ renderer' = [s \in Surfaces |-> IF s \in W THEN DrawLayer(q[s], surface'[s]) ELSE q[s]]

----------------------------------------------------------------------------
(* Requests                                                                *)

Create(s) ==
  LET new == OnSphere(NewSurface)
  IN /\ s \notin live
     /\ live' = live \cup {s}
     /\ place' = [x \in Surfaces |-> IF x \in live THEN place[x] + 1 ELSE 0]
     /\ Reorder(live', place', [surface EXCEPT ![s] = new],
                [renderer EXCEPT ![s] = IF connected THEN InitRenderer(new) ELSE Nil])
     /\ UNCHANGED <<cursor, ray, connected, cursors>>

Attach(s, isBuffer, d) ==
  /\ s \in live /\ surface[s].offset + d <= MaxOffset
  /\ surface' = [surface EXCEPT ![s].pendingBuffer = isBuffer, ![s].pendingOffset = d]
  /\ UNCHANGED <<live, place, cursor, ray, connected, renderer, cursors>>

SetOffset(s, d) ==
  /\ s \in live /\ surface[s].offset + d <= MaxOffset
  /\ surface' = [surface EXCEPT ![s].pendingOffset = d]
  /\ UNCHANGED <<live, place, cursor, ray, connected, renderer, cursors>>

(* The buffer that is attached has the texture t, or a format that is not  *)
(* supported (t = Nil), which leaves the surface without one               *)
Moved(r) == IF r.pendingOffset = Nil THEN r
            ELSE [r EXCEPT !.offset = @ + r.pendingOffset, !.pendingOffset = Nil]
Filled(r, t) == IF ~r.pendingBuffer THEN r
                ELSE [r EXCEPT !.pendingBuffer = FALSE, !.hasData = t # Nil,
                               !.size = IF t = Nil THEN @ ELSE t]
SyncMoved(q, r) == IF r.pendingOffset = Nil THEN q ELSE SyncGeom(q, Moved(r))
SyncCommitted(q, r, t) ==
  IF t = Nil THEN SyncMoved(q, r) ELSE SyncGeom(SyncMoved(q, r), Filled(Moved(r), t))
Commit(s, t) ==
  LET r == Filled(Moved(surface[s]), t)
      q == SyncCommitted(renderer[s], surface[s], t)
  IN /\ s \in live /\ (t # Nil => surface[s].pendingBuffer)
     /\ surface' = [surface EXCEPT ![s] = r]
     /\ renderer' = [renderer EXCEPT ![s] = IF r.hasData THEN CommitRenderer(SetTexture(q, r))
                                            ELSE q]
     /\ UNCHANGED <<live, place, cursor, ray, connected, cursors>>

GetToplevel(s) ==
  /\ s \in live
  /\ surface' = [surface EXCEPT ![s].role = "toplevel"]
  /\ UNCHANGED <<live, place, cursor, ray, connected, renderer, cursors>>

(* Slip: the seat keeps pointing to the surface                            *)
Still(x, s)  == x
Unless(x, s) == IF x = s THEN Nil ELSE x
Destroy(s) ==
  /\ s \in live
  /\ live' = live \ {s} /\ cursors' = cursors \ {s}
  /\ place' = [x \in Surfaces |-> CASE x = s -> 0
                                    [] x # s /\ place[x] > place[s]  -> place[x] - 1
                                    [] x # s /\ place[x] <= place[s] -> place[x]]
  /\ surface' = [surface EXCEPT ![s] = NewSurface]
  /\ renderer' = [renderer EXCEPT ![s] = Nil]
  /\ cursor' = Unless(cursor, s)
  /\ UNCHANGED <<ray, connected>>

----------------------------------------------------------------------------
(* The seat                                                                *)

(* set_surface_as_cursor, which does nothing for the cursor there is       *)
SetCursor(s) ==
  LET r == [x \in Surfaces |->
              CASE x = s      -> [surface[x] EXCEPT !.role = "cursor", !.active = TRUE, !.at = Ray(ray)]
                [] x = cursor /\ x # s -> [surface[x] EXCEPT !.active = FALSE]
                [] OTHER      -> surface[x]]
  IN /\ s # cursor
     /\ surface' = r
     /\ renderer' = [x \in Surfaces |-> IF x \in {s, cursor} THEN Redraw(renderer[x], r[x])
                                        ELSE renderer[x]]
     /\ cursor' = s
     /\ cursors' = cursors \cup ({s} \ {Nil})
     /\ UNCHANGED <<live, place, ray, connected>>

(* move_cursor, after the surfaces and renderers became r and q            *)
MoveCursor(d, r, q) ==
  /\ ray' = d
  /\ IF cursor = Nil THEN surface' = r /\ renderer' = q
     ELSE /\ surface' = [r EXCEPT ![cursor].at = Ray(d)]
          /\ renderer' = [q EXCEPT ![cursor] = Redraw(@, surface'[cursor])]

(* move_rel_pointing: the ray hits something, or nothing, which takes the  *)
(* cursor away                                                             *)
Point(d) ==
  /\ MoveCursor(d, surface, renderer)
  /\ UNCHANGED <<live, place, cursor, connected, cursors>>
PointNowhere(d) ==
  /\ ray' = d
  /\ cursor' = Nil
  /\ surface' = [x \in Surfaces |-> IF x = cursor THEN [surface[x] EXCEPT !.active = FALSE]
                                    ELSE surface[x]]
  /\ renderer' = [x \in Surfaces |-> IF x = cursor THEN Redraw(renderer[x], surface'[x])
                                     ELSE renderer[x]]
  /\ UNCHANGED <<live, place, connected, cursors>>

(* move_rel_pointing while a surface is dragged: one that had a texture    *)
(* for the ray to hit                                                      *)
Drag(s, d) ==
  LET dragged == OnSphere([surface[s] EXCEPT !.dir = d])
  IN /\ s \in live /\ surface[s].size # Nil
     /\ MoveCursor(d, [surface EXCEPT ![s] = dragged],
                   [renderer EXCEPT ![s] = Redraw(@, dragged)])
     /\ UNCHANGED <<live, place, cursor, connected, cursors>>

(* on_focus of a toplevel that is clicked.  Slip: no reorder_surfaces      *)
Raised(s) == [x \in Surfaces |-> IF x = s THEN 0
                                 ELSE IF x \in live /\ place[x] < place[s] THEN place[x] + 1
                                 ELSE place[x]]
RaiseUnordered(s) ==
  /\ s \in live /\ surface[s].role = "toplevel"
  /\ place' = Raised(s)
  /\ UNCHANGED <<live, surface, cursor, ray, connected, renderer, cursors>>
Raise(s) ==
  /\ s \in live /\ surface[s].role = "toplevel"
  /\ place' = Raised(s)
  /\ Reorder(live, place', surface, renderer)
  /\ UNCHANGED <<live, cursor, ray, connected, cursors>>

----------------------------------------------------------------------------
(* Sessions                                                                *)

(* Every surface makes its renderer, and forgets that it was on the ray    *)
Establish ==
  /\ ~connected /\ connected' = TRUE
  /\ surface' = [s \in Surfaces |-> IF s \in live THEN OnSphere(surface[s]) ELSE surface[s]]
  /\ renderer' = [s \in Surfaces |-> IF s \in live THEN InitRenderer(surface'[s]) ELSE Nil]
  /\ UNCHANGED <<live, place, cursor, ray, cursors>>

Disconnect ==
  /\ connected /\ connected' = FALSE
  /\ renderer' = [s \in Surfaces |-> Nil]
  /\ UNCHANGED <<live, place, surface, cursor, ray, cursors>>

Next ==
  \/ \E s \in Surfaces :
       \/ Create(s) \/ Destroy(s) \/ GetToplevel(s) \/ Raise(s)
       \/ \E d \in Offsets : SetOffset(s, d) \/ \E isBuffer \in BOOLEAN : Attach(s, isBuffer, d)
       \/ \E t \in Textures \cup {Nil} : Commit(s, t)
       \/ \E d \in Directions : Drag(s, d)
  \/ \E s \in live \cup {Nil} : SetCursor(s)
  \/ \E d \in Directions : Point(d) \/ PointNowhere(d)
  \/ Establish \/ Disconnect

Spec == Init /\ [][Next]_vars

----------------------------------------------------------------------------
(* While a session is up its peer shows every surface that has a texture   *)
(* with that texture, and where and how the surface has itself: nothing    *)
(* that changes either forgets to set it or to commit it, and a session    *)
(* that comes up starts from what is there.                                *)
PeerShowsSurfaces ==
  connected => \A s \in live : surface[s].hasData =>
    renderer[s].shown = [model |-> ModelOf(surface[s]), texture |-> surface[s].size]

(* Windows are in front of each other as the list has them, whatever was   *)
(* raised, created, destroyed or made a cursor.  Only a surface that has   *)
(* been a cursor may stand in a layer that is taken.                       *)
LayersFollowOrder ==
  \A s, t \in live \ cursors : place[s] < place[t] => surface[s].layer < surface[t].layer

(* A session that comes up or goes leaves the windows where they are,      *)
(* although every surface is placed again: where a window was put is where *)
(* its direction and its layer have it.                                    *)
WindowsStay ==
  [][connected' # connected =>
       \A s \in live \ cursors : ModelOf(surface'[s]) = ModelOf(surface[s])]_vars
=============================================================================

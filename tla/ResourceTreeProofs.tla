-------------------------- MODULE ResourceTreeProofs --------------------------
(***************************************************************************)
(* Proofs about ResourceTree, for any sets of objects, units, techniques   *)
(* and apps.  IInv is what the destructors rely on and no property says:   *)
(* which way the raw pointers lead, and who can be left behind by whom.    *)
(***************************************************************************)
EXTENDS ResourceTree, TLAPS

(* Ids are given once, objects are deleted by their own resource alone,    *)
(* and a node that exists has an owner of the kind above its own.          *)
Shape ==
  /\ \A x \in resources \cup committed : memory[x] # "none"
  /\ inert \cap Objects = {}
  /\ \A u \in Units : Alive(u) => owner[u] \in Objects
  /\ \A t \in Techniques : Alive(t) => owner[t] \in Units
  /\ \A a \in Apps : Alive(a) => owner[a] \in Objects
  /\ \A y \in Units \cup Techniques \cup Apps : Alive(y) => memory[owner[y]] # "none"

(* ObjectsMatchResources, PointersDown, for undefined states as well       *)
Matched == \A x \in Nodes : Alive(x) <=> x \in resources \ inert
Down ==
  /\ \A o \in Objects : \A u \in listed[o] : Alive(u) /\ owner[u] = o
  /\ \A u \in Units : technique[u] # Nil =>
       Alive(technique[u]) /\ owner[technique[u]] = u

(* An object's app, alive or not, was made for that object.                *)
AppsOwn ==
  \A o \in Objects : app[o] # Nil =>
    app[o] \in Apps /\ memory[app[o]] # "none" /\ owner[app[o]] = o

(* The list of an object has every unit of it that was committed.          *)
UnitsListed ==
  \A u \in Units : Alive(u) /\ Alive(owner[u]) /\ u \in committed => u \in listed[owner[u]]

(* Pointers to what is gone, and what is left behind, each have their cause *)
Caused ==
  /\ \A o \in Objects : app[o] # Nil /\ ~Alive(app[o]) => "app destroyed" \in causes
  /\ \A x \in Units \cup Techniques : Alive(x) /\ ~Alive(owner[x]) => "orphaned" \in causes
  /\ \A a \in Apps : Alive(a) /\ (~Alive(owner[a]) \/ app[owner[a]] # a) =>
       "app replaced" \in causes

IInv == TypeOK /\ Shape /\ Matched /\ Down /\ AppsOwn /\ UnitsListed /\ Caused /\ MisuseHasCause

----------------------------------------------------------------------------
(* Initial states and types                                                *)

LEMMA InitIInv == Init => IInv
BY ResourceTreeAssumption
   DEF Init, IInv, TypeOK, Shape, Matched, Down, AppsOwn, UnitsListed, Caused,
       MisuseHasCause, Alive, Nodes

(* What goes with a node are nodes.                                        *)
LEMMA NewTypes ==
  ASSUME TypeOK, NEW x \in Nodes, New(x)
  PROVE  /\ memory' \in [Nodes -> {"none", "alive", "freed"}]
         /\ resources' \subseteq Nodes /\ inert' \subseteq resources'
         /\ committed' = committed /\ listed' = listed /\ technique' = technique
         /\ session' = session /\ misuse' = misuse
BY DEF TypeOK, New

LEMMA SyncMisuseType == \A O : SyncMisuse(O) \subseteq Kinds
BY DEF SyncMisuse, Kinds

LEMMA CommitTypes ==
  ASSUME TypeOK, NEW o \in Objects, Commit(o)
  PROVE  TypeOK'
<1>1. technique' \in [Units -> Techniques \cup {Nil}] /\ client' \in {"running", "failed", "teardown"}
  BY DEF Commit, TypeOK
<1>2. listed' \in [Objects -> SUBSET Units]
  BY DEF Commit, TypeOK, UnitsOf
<1>3. committed' \subseteq Objects \cup Units \cup Techniques
  BY DEF Commit, TypeOK, UnitsOf, TechniquesOf
<1>4. misuse' \subseteq Kinds
  BY SyncMisuseType DEF Commit
<1> QED BY <1>1, <1>2, <1>3, <1>4 DEF Commit, TypeOK

LEMMA DeleteTypes ==
  ASSUME TypeOK, NEW x \in Nodes, NEW D, Delete(x, D),
         misuse' \subseteq Kinds, causes' \subseteq Causes, UNCHANGED client
  PROVE  TypeOK'
<1>1. /\ memory' \in [Nodes -> {"none", "alive", "freed"}]
      /\ resources' \subseteq Nodes /\ inert' \subseteq resources'
  BY DEF Delete, TypeOK, InertAfter
<1>2. listed' \in [Objects -> SUBSET Units]
  BY DEF Delete, TypeOK, TakeOff
<1>3. technique' \in [Units -> Techniques \cup {Nil}]
  BY DEF Delete, TypeOK, EmptyUnits
<1>4. app' \in [Objects -> Apps \cup {Nil}]
  BY DEF Delete, TypeOK
<1> QED BY <1>1, <1>2, <1>3, <1>4 DEF Delete, TypeOK

LEMMA DestroyTypes ==
  ASSUME TypeOK, NEW x \in Nodes, DestroyResource(x), UNCHANGED client
  PROVE  TypeOK'
<1>1. \A left : Orphaned(left) \subseteq Causes
  BY DEF Orphaned, Causes
<1>2. misuse' \subseteq Kinds /\ causes' \subseteq Causes
  <2>1. CASE x \in Objects \ inert /\ DeleteObject(x)
    BY <2>1, <1>1, SyncMisuseType DEF DeleteObject, TypeOK
  <2>2. CASE x \in Units \ inert /\ DeleteUnit(x)
    BY <2>2, <1>1 DEF DeleteUnit, OwnerMisuse, TypeOK, Kinds
  <2>3. CASE x \in Techniques \ inert /\ DeleteTechnique(x)
    BY <2>3, <1>1 DEF DeleteTechnique, OwnerMisuse, TypeOK, Kinds
  <2>4. CASE x \in Apps \ inert /\ DeleteApp(x)
    BY <2>4, <1>1 DEF DeleteApp, TypeOK, Causes
  <2>5. CASE x \in inert /\ DeleteInert(x)
    BY <2>5 DEF DeleteInert, TypeOK
  <2> QED BY <2>1, <2>2, <2>3, <2>4, <2>5 DEF DestroyResource
<1>3. \E D : Delete(x, D)
  BY DEF DestroyResource, DeleteObject, DeleteUnit, DeleteTechnique, DeleteApp, DeleteInert
<1> QED BY <1>2, <1>3, DeleteTypes

LEMMA TypeStep == TypeOK /\ Shape /\ [Next]_vars => TypeOK'
<1> SUFFICES ASSUME TypeOK, Shape, [Next]_vars PROVE TypeOK'
  OBVIOUS
<1>1. ASSUME NEW o \in Objects, CreateObject(o) PROVE TypeOK'
  BY <1>1, NewTypes DEF CreateObject, TypeOK, Nodes
<1>2. ASSUME NEW u \in Units, NEW o \in Objects, CreateUnit(u, o) PROVE TypeOK'
  BY <1>2, NewTypes DEF CreateUnit, TypeOK, Nodes
<1>3. ASSUME NEW t \in Techniques, NEW u \in Units, CreateTechnique(t, u) PROVE TypeOK'
  BY <1>3, NewTypes DEF CreateTechnique, TypeOK, Nodes
<1>4. ASSUME NEW a \in Apps, NEW o \in Objects, GetBounded(a, o) PROVE TypeOK'
  <2>1. causes' \subseteq Causes /\ client' \in {"running", "failed", "teardown"}
    BY <1>4 DEF GetBounded, TypeOK, Causes
  <2> QED BY <1>4, <2>1, NewTypes DEF GetBounded, TypeOK, Nodes
<1>5. ASSUME NEW o \in Objects, CommitObject(o) PROVE TypeOK'
  BY <1>5, CommitTypes DEF CommitObject
<1>6. ASSUME NEW a \in Apps, MoveApp(a) PROVE TypeOK'
  BY <1>6, CommitTypes DEF MoveApp, TypeOK, Kinds, Shape
<1>7. ASSUME NEW a \in Apps, UseApp(a) PROVE TypeOK'
  BY <1>7 DEF UseApp, TypeOK, Kinds, Causes
<1>8. ASSUME NEW x \in Nodes, DestroyRequest(x) \/ Teardown(x) PROVE TypeOK'
  BY <1>8, DestroyTypes DEF DestroyRequest, Teardown
<1>9. CASE Establish
  BY <1>9, SyncMisuseType DEF Establish, TypeOK
<1>10. CASE Disconnect \/ TeardownStarts
  BY <1>10 DEF Disconnect, TeardownStarts, TypeOK
<1>11. CASE UNCHANGED vars
  BY <1>11 DEF vars, TypeOK
<1> QED BY <1>1, <1>2, <1>3, <1>4, <1>5, <1>6, <1>7, <1>8, <1>9, <1>10, <1>11 DEF Next

----------------------------------------------------------------------------
(* What each kind of step leaves of the tree                               *)

(* A new node that is owned by one that exists disturbs none of the rest.  *)
LEMMA NewKeeps ==
  ASSUME TypeOK, Shape, Matched, Down, UnitsListed, NEW x \in Nodes, New(x),
         \A y \in Units \cup Techniques \cup Apps : y # x => owner'[y] = owner[y],
         x \in Units => owner'[x] \in Objects,
         x \in Techniques => owner'[x] \in Units,
         x \in Apps => owner'[x] \in Objects,
         x \notin Objects => memory[owner'[x]] # "none"
  PROVE  Shape' /\ Matched' /\ Down' /\ UnitsListed'
<1>1. /\ memory[x] = "none" /\ memory'[x] = "alive"
      /\ \A y \in Nodes : y # x => memory'[y] = memory[y]
      /\ resources' = resources \cup {x}
      /\ inert' = inert /\ committed' = committed /\ listed' = listed /\ technique' = technique
  BY DEF New, TypeOK
<1>2. x \notin resources /\ x \notin committed
  BY <1>1 DEF Shape
<1>3. Shape'
  <2>1. \A y \in resources' \cup committed' : memory'[y] # "none"
    BY <1>1, <1>2 DEF Shape, TypeOK, Nodes
  <2>2. /\ \A u \in Units : Alive(u)' => owner'[u] \in Objects
        /\ \A t \in Techniques : Alive(t)' => owner'[t] \in Units
        /\ \A a \in Apps : Alive(a)' => owner'[a] \in Objects
    BY <1>1 DEF Shape, Alive, Nodes
  <2>3. ASSUME NEW y \in Units \cup Techniques \cup Apps, Alive(y)'
        PROVE  memory'[owner'[y]] # "none"
    <3>1. owner'[y] \in Nodes
      BY <2>2, <2>3 DEF Nodes
    <3>2. CASE y = x
      BY <1>1, <3>1, <3>2, ResourceTreeAssumption
    <3>3. CASE y # x
      BY <1>1, <2>3, <3>1, <3>3 DEF Shape, Alive, Nodes
    <3> QED BY <3>2, <3>3
  <2> QED BY <1>1, <2>1, <2>2, <2>3 DEF Shape, Alive, Nodes
<1>4. Matched'
  BY <1>1, <1>2 DEF Matched, TypeOK, Alive
<1>5. Down'
  <2>1. ASSUME NEW o \in Objects, NEW u \in listed'[o] PROVE Alive(u)' /\ owner'[u] = o
    BY <1>1, <2>1 DEF Down, TypeOK, Alive, Nodes
  <2>2. ASSUME NEW u \in Units, technique'[u] # Nil
        PROVE  Alive(technique[u])' /\ owner'[technique'[u]] = u
    BY <1>1, <2>2 DEF Down, TypeOK, Alive, Nodes
  <2> QED BY <1>1, <2>1, <2>2 DEF Down, Alive
<1>6. UnitsListed'
  <2> SUFFICES ASSUME NEW u \in Units, Alive(u)', Alive(owner[u])', u \in committed'
               PROVE  u \in listed'[owner'[u]]
    BY DEF UnitsListed
  <2>1. u # x /\ Alive(u) /\ owner'[u] = owner[u] /\ owner[u] \in Objects
    BY <1>1, <1>2 DEF Alive, Shape, Nodes
  <2>2. owner[u] # x
    BY <1>1, <2>1 DEF Shape
  <2> QED BY <1>1, <2>1, <2>2 DEF UnitsListed, Alive, Nodes
<1> QED BY <1>3, <1>4, <1>5, <1>6

(* A commit hands techniques to their own units, and lists all that are.   *)
LEMMA CommitKeeps ==
  ASSUME TypeOK, Shape, Matched, Down, AppsOwn, UnitsListed,
         NEW o \in Objects, memory[o] # "none", Commit(o)
  PROVE  Shape' /\ Matched' /\ Down' /\ AppsOwn' /\ UnitsListed'
<1>1. /\ memory' = memory /\ resources' = resources /\ inert' = inert /\ owner' = owner
      /\ app' = app
      /\ committed' = committed \cup {o} \cup UnitsOf(o) \cup TechniquesOf(o)
  BY DEF Commit
<1>2. \A p \in Objects : listed'[p] = IF p = o THEN listed[p] \cup UnitsOf(o) ELSE listed[p]
  BY DEF Commit, TypeOK
<1>3. Shape'
  <2>1. \A y \in UnitsOf(o) \cup TechniquesOf(o) : memory[y] # "none"
    BY DEF UnitsOf, TechniquesOf, Alive
  <2> QED BY <1>1, <2>1 DEF Shape, Alive
<1>4. Matched' /\ AppsOwn'
  BY <1>1 DEF Matched, AppsOwn, Alive
<1>5. Down'
  <2>1. ASSUME NEW p \in Objects, NEW u \in listed'[p] PROVE Alive(u)' /\ owner'[u] = p
    <3>1. u \in listed[p] \/ (p = o /\ u \in UnitsOf(o))
      BY <1>2, <2>1
    <3>2. Alive(u) /\ owner[u] = p
      BY <3>1 DEF Down, UnitsOf
    <3> QED BY <1>1, <3>2 DEF Alive
  <2>2. ASSUME NEW u \in Units, technique'[u] # Nil
        PROVE  Alive(technique[u])' /\ owner'[technique'[u]] = u
    <3>1. technique'[u] \in {t \in FirstCommits(o) : owner[t] = u} \/ technique'[u] = technique[u]
      BY DEF Commit, GivenTo
    <3>2. CASE technique'[u] \in {t \in FirstCommits(o) : owner[t] = u}
      BY <1>1, <3>2 DEF FirstCommits, TechniquesOf, Alive
    <3>3. CASE technique'[u] = technique[u]
      BY <1>1, <2>2, <3>3 DEF Down, Alive
    <3> QED BY <3>1, <3>2, <3>3
  <2> QED BY <2>1, <2>2 DEF Down
<1>6. UnitsListed'
  <2> SUFFICES ASSUME NEW u \in Units, Alive(u), Alive(owner[u]), u \in committed'
               PROVE  u \in listed'[owner[u]]
    BY <1>1 DEF UnitsListed, Alive
  <2>1. owner[u] \in Objects
    BY DEF Shape
  <2>2. CASE owner[u] = o
    BY <1>2, <2>2 DEF UnitsOf
  <2>3. CASE owner[u] # o
    <3>1. u \in committed
      BY <1>1, <2>3, ResourceTreeAssumption DEF UnitsOf, TechniquesOf
    <3> QED BY <1>2, <2>1, <2>3, <3>1 DEF UnitsListed
  <2> QED BY <2>2, <2>3
<1> QED BY <1>3, <1>4, <1>5, <1>6

(* Whatever goes with a resource, the tree that is left is whole: pointers *)
(* to the nodes that went are unset, except from an object to its app.     *)
LEMMA DeleteKeeps ==
  ASSUME TypeOK, Shape, Matched, Down, AppsOwn, UnitsListed,
         NEW x \in Nodes, NEW D \in SUBSET Nodes, Delete(x, D),
         x \in D \/ (x \in inert /\ D = {}), D \cap Objects \subseteq {x}
  PROVE  Shape' /\ Matched' /\ Down' /\ AppsOwn' /\ UnitsListed'
<1>1. /\ \A y \in Nodes : memory'[y] = IF y \in D THEN "freed" ELSE memory[y]
      /\ resources' = resources \ {x}
      /\ inert' = (inert \cup (D \cap resources)) \ {x}
      /\ owner' = owner /\ committed' = committed
  BY DEF Delete, InertAfter
<1>2. /\ \A o \in Objects : listed'[o] = IF o \in D THEN {} ELSE listed[o] \ D
      /\ \A o \in Objects : app'[o] = IF o \in D THEN Nil ELSE app[o]
  BY DEF Delete, TakeOff
<1>3. \A u \in Units : technique'[u] =
        IF u \in D \/ \E t \in Techniques \cap D : owner[t] = u THEN Nil ELSE technique[u]
  BY DEF Delete, EmptyUnits
<1>4. \A y \in Nodes : Alive(y)' <=> Alive(y) /\ y \notin D
  BY <1>1 DEF Alive
<1>5. Shape'
  <2>1. \A y \in resources' \cup committed' : memory'[y] # "none"
    BY <1>1 DEF Shape, TypeOK, Nodes
  <2>2. /\ \A u \in Units : Alive(u)' => owner'[u] \in Objects
        /\ \A t \in Techniques : Alive(t)' => owner'[t] \in Units
        /\ \A a \in Apps : Alive(a)' => owner'[a] \in Objects
    BY <1>1, <1>4 DEF Shape, Nodes
  <2>3. ASSUME NEW y \in Units \cup Techniques \cup Apps, Alive(y)'
        PROVE  memory'[owner'[y]] # "none"
    BY <1>1, <1>4, <2>2, <2>3 DEF Shape, Nodes
  <2>4. inert' \cap Objects = {}
    BY <1>1 DEF Shape
  <2> QED BY <2>1, <2>2, <2>3, <2>4 DEF Shape
<1>6. Matched'
  BY <1>1, <1>4 DEF Matched
<1>7. Down'
  <2>1. ASSUME NEW o \in Objects, NEW u \in listed'[o] PROVE Alive(u)' /\ owner'[u] = o
    <3>1. u \in listed[o] /\ u \notin D /\ u \in Nodes
      BY <1>2, <2>1 DEF TypeOK, Nodes
    <3> QED BY <1>1, <1>4, <3>1 DEF Down
  <2>2. ASSUME NEW u \in Units, technique'[u] # Nil
        PROVE  Alive(technique[u])' /\ owner'[technique'[u]] = u
    <3>1. /\ technique'[u] = technique[u] /\ technique[u] \in Techniques
          /\ \A t \in Techniques \cap D : owner[t] # u
      BY <1>3, <2>2 DEF TypeOK
    <3>2. Alive(technique[u]) /\ owner[technique[u]] = u
      BY <2>2, <3>1 DEF Down
    <3> QED BY <1>1, <1>4, <3>1, <3>2 DEF Nodes, Alive
  <2> QED BY <2>1, <2>2 DEF Down
<1>8. AppsOwn'
  BY <1>1, <1>2 DEF AppsOwn, Nodes
<1>9. UnitsListed'
  <2> SUFFICES ASSUME NEW u \in Units, Alive(u)', Alive(owner[u])', u \in committed'
               PROVE  u \in listed'[owner'[u]]
    BY DEF UnitsListed
  <2>1. Alive(u) /\ u \notin D /\ owner'[u] = owner[u] /\ owner[u] \in Objects
    BY <1>1, <1>4 DEF Shape, Nodes
  <2>2. Alive(owner[u]) /\ owner[u] \notin D
    BY <1>1, <1>4, <2>1 DEF Nodes, Alive
  <2> QED BY <1>1, <1>2, <2>1, <2>2 DEF UnitsListed
<1> QED BY <1>5, <1>6, <1>7, <1>8, <1>9

----------------------------------------------------------------------------
(* The steps that create                                                   *)

(* An object that has a resource exists, as it is never left inert, and so *)
(* does whatever has one that is not.                                      *)
LEMMA ObjectsExist ==
  ASSUME Shape, Matched, NEW o \in Objects, o \in resources
  PROVE  Alive(o) /\ memory[o] # "none"
BY DEF Shape, Matched, Alive, Nodes

(* Nothing is gone after a node is made that was there before.             *)
LEMMA NewGrows ==
  ASSUME TypeOK, NEW x \in Nodes, New(x)
  PROVE  /\ Alive(x)' /\ ~Alive(x)
         /\ \A y \in Nodes : y # x => (Alive(y)' <=> Alive(y))
         /\ \A y \in Nodes : memory[y] # "none" => memory'[y] # "none" /\ y # x
BY DEF TypeOK, New, Alive

LEMMA CreateObjectStep ==
  ASSUME IInv, NEW o \in Objects, CreateObject(o)
  PROVE  Shape' /\ Matched' /\ Down' /\ AppsOwn' /\ UnitsListed' /\ Caused' /\ MisuseHasCause'
<1>1. New(o) /\ o \in Nodes /\ owner' = owner /\ app' = app /\ causes' = causes /\ misuse' = misuse
  BY DEF CreateObject, New, Nodes
<1>2. Shape' /\ Matched' /\ Down' /\ UnitsListed'
  BY <1>1, NewKeeps, ResourceTreeAssumption DEF IInv
<1>3. AppsOwn'
  BY <1>1, NewGrows DEF IInv, AppsOwn, Nodes
<1>4. Caused'
  <2>1. ASSUME NEW p \in Objects, app[p] # Nil, ~Alive(app[p])' PROVE "app destroyed" \in causes
    BY <1>1, <2>1, NewGrows DEF IInv, Caused, AppsOwn, Nodes
  <2>2. ASSUME NEW y \in Units \cup Techniques, Alive(y)', ~Alive(owner[y])'
        PROVE  "orphaned" \in causes
    <3>1. Alive(y) /\ owner[y] \in Nodes /\ memory[owner[y]] # "none"
      BY <1>1, <2>2, NewGrows, ResourceTreeAssumption DEF IInv, Shape, Nodes
    <3> QED BY <1>1, <2>2, <3>1, NewGrows DEF IInv, Caused, Nodes
  <2>3. ASSUME NEW a \in Apps, Alive(a)', ~Alive(owner[a])' \/ app[owner[a]] # a
        PROVE  "app replaced" \in causes
    <3>1. Alive(a) /\ owner[a] \in Nodes /\ memory[owner[a]] # "none"
      BY <1>1, <2>3, NewGrows, ResourceTreeAssumption DEF IInv, Shape, Nodes
    <3> QED BY <1>1, <2>3, <3>1, NewGrows DEF IInv, Caused, Nodes
  <2> QED BY <1>1, <2>1, <2>2, <2>3 DEF Caused, Alive
<1> QED BY <1>1, <1>2, <1>3, <1>4 DEF IInv, MisuseHasCause

(* A unit or technique that is made has an owner, and takes none away.     *)
LEMMA NewOrphansNone ==
  ASSUME IInv, NEW x \in Nodes, New(x), causes \subseteq causes',
         \A y \in Units \cup Techniques \cup Apps : y # x => owner'[y] = owner[y],
         x \in Units \cup Techniques => Alive(owner[x])'
  PROVE  \A y \in Units \cup Techniques : Alive(y)' /\ ~Alive(owner[y])' => "orphaned" \in causes'
<1> SUFFICES ASSUME NEW y \in Units \cup Techniques, y # x, Alive(y)', ~Alive(owner[y])'
             PROVE  "orphaned" \in causes'
  OBVIOUS
<1>1. owner'[y] = owner[y] /\ y \in Nodes
  BY DEF Nodes
<1>2. Alive(y) /\ owner[y] \in Nodes /\ memory[owner[y]] # "none"
  BY <1>1, NewGrows DEF IInv, Shape, Nodes
<1>3. ~Alive(owner[y])
  BY <1>1, <1>2, NewGrows DEF IInv, Alive
<1> QED BY <1>2, <1>3 DEF IInv, Caused

(* A unit or technique changes nothing about apps.                         *)
LEMMA NewLeavesApps ==
  ASSUME IInv, NEW x \in Units \cup Techniques, New(x), UNCHANGED <<app, causes>>,
         \A y \in Units \cup Techniques \cup Apps : y # x => owner'[y] = owner[y]
  PROVE  /\ AppsOwn'
         /\ \A p \in Objects : app'[p] # Nil /\ ~Alive(app[p])' => "app destroyed" \in causes'
         /\ \A a \in Apps : Alive(a)' /\ (~Alive(owner[a])' \/ app'[owner'[a]] # a) =>
              "app replaced" \in causes'
<1>1. x \in Nodes /\ x \notin Apps
  BY ResourceTreeAssumption DEF Nodes
<1>2. \A a \in Apps : owner'[a] = owner[a] /\ a \in Nodes
  BY <1>1 DEF Nodes
<1>3. AppsOwn'
  <2> SUFFICES ASSUME NEW p \in Objects, app[p] # Nil
               PROVE  app[p] \in Apps /\ memory'[app[p]] # "none" /\ owner'[app[p]] = p
    BY DEF AppsOwn
  <2> QED BY <1>1, <1>2, NewGrows DEF IInv, AppsOwn
<1>4. ASSUME NEW p \in Objects, app[p] # Nil, ~Alive(app[p])' PROVE "app destroyed" \in causes
  <2>1. app[p] \in Apps /\ app[p] # x
    BY <1>1, <1>4 DEF IInv, AppsOwn
  <2>2. ~Alive(app[p])
    BY <1>1, <1>2, <1>4, <2>1, NewGrows DEF IInv, Alive
  <2> QED BY <1>4, <2>2 DEF IInv, Caused
<1>5. ASSUME NEW a \in Apps, Alive(a)', ~Alive(owner[a])' \/ app[owner[a]] # a
      PROVE  "app replaced" \in causes
  <2>1. Alive(a) /\ owner[a] \in Nodes /\ memory[owner[a]] # "none"
    BY <1>1, <1>2, <1>5, NewGrows DEF IInv, Shape, Nodes
  <2>2. ~Alive(owner[a]) \/ app[owner[a]] # a
    BY <1>1, <1>2, <1>5, <2>1, NewGrows DEF IInv, Alive
  <2> QED BY <2>1, <2>2 DEF IInv, Caused
<1> QED BY <1>2, <1>3, <1>4, <1>5

LEMMA CreateUnitStep ==
  ASSUME IInv, NEW u \in Units, NEW o \in Objects, CreateUnit(u, o)
  PROVE  Shape' /\ Matched' /\ Down' /\ AppsOwn' /\ UnitsListed' /\ Caused' /\ MisuseHasCause'
<1>1. /\ New(u) /\ u \in Nodes /\ o \in Nodes
      /\ app' = app /\ causes' = causes /\ misuse' = misuse
  BY DEF CreateUnit, New, Nodes
<1>2. /\ owner'[u] = o
      /\ \A y \in Units \cup Techniques \cup Apps : y # u => owner'[y] = owner[y]
  BY DEF CreateUnit, IInv, TypeOK
<1>3. Alive(o) /\ memory[o] # "none"
  BY ObjectsExist DEF CreateUnit, IInv
<1>4. Shape' /\ Matched' /\ Down' /\ UnitsListed'
  BY <1>1, <1>2, <1>3, NewKeeps, ResourceTreeAssumption DEF IInv
<1>5. Alive(owner[u])'
  BY <1>1, <1>2, <1>3, NewGrows DEF IInv, Alive
<1>6. Caused' /\ AppsOwn'
  BY <1>1, <1>2, <1>5, NewOrphansNone, NewLeavesApps DEF Caused, Alive
<1> QED BY <1>1, <1>4, <1>6 DEF IInv, MisuseHasCause

LEMMA CreateTechniqueStep ==
  ASSUME IInv, NEW t \in Techniques, NEW u \in Units, CreateTechnique(t, u)
  PROVE  Shape' /\ Matched' /\ Down' /\ AppsOwn' /\ UnitsListed' /\ Caused' /\ MisuseHasCause'
<1>0. CASE u \in inert /\ UNCHANGED <<memory, resources, inert, owner, committed, listed,
                                      technique, app, session, misuse, causes>>
  BY <1>0 DEF IInv, Shape, Matched, Down, AppsOwn, UnitsListed, Caused, MisuseHasCause, Alive
<1>1. CASE /\ u \in resources \ inert /\ New(t)
           /\ owner' = [owner EXCEPT ![t] = u]
           /\ UNCHANGED <<app, client, causes>>
  <2>1. t \in Nodes /\ u \in Nodes /\ misuse' = misuse
    BY <1>1 DEF New, Nodes
  <2>2. /\ owner'[t] = u
        /\ \A y \in Units \cup Techniques \cup Apps : y # t => owner'[y] = owner[y]
    BY <1>1 DEF IInv, TypeOK
  <2>3. Alive(u) /\ memory[u] # "none"
    BY <1>1, <2>1 DEF IInv, Matched, Alive
  <2>4. Shape' /\ Matched' /\ Down' /\ UnitsListed'
    BY <1>1, <2>1, <2>2, <2>3, NewKeeps, ResourceTreeAssumption DEF IInv
  <2>5. Alive(owner[t])'
    BY <1>1, <2>1, <2>2, <2>3, NewGrows DEF IInv, Alive
  <2>6. Caused' /\ AppsOwn'
    BY <1>1, <2>1, <2>2, <2>5, NewOrphansNone, NewLeavesApps DEF Caused, Alive
  <2> QED BY <1>1, <2>1, <2>4, <2>6 DEF IInv, MisuseHasCause
<1> QED BY <1>0, <1>1 DEF CreateTechnique

(* The app an object had is replaced, and has the cause for it from then   *)
(* on; the object points to the new one, which is alive.                   *)
LEMMA GetBoundedStep ==
  ASSUME IInv, NEW a \in Apps, NEW o \in Objects, GetBounded(a, o)
  PROVE  Shape' /\ Matched' /\ Down' /\ AppsOwn' /\ UnitsListed' /\ Caused' /\ MisuseHasCause'
<1>1. /\ New(a) /\ a \in Nodes /\ o \in Nodes /\ a \notin Units \cup Techniques /\ a # Nil
      /\ causes \subseteq causes' /\ misuse' = misuse
      /\ app[o] # Nil => "app replaced" \in causes'
  BY ResourceTreeAssumption DEF GetBounded, New, Nodes
<1>2. /\ owner'[a] = o
      /\ \A y \in Units \cup Techniques \cup Apps : y # a => owner'[y] = owner[y]
      /\ app'[o] = a
      /\ \A p \in Objects : p # o => app'[p] = app[p]
  BY DEF GetBounded, IInv, TypeOK
<1>3. Alive(o) /\ memory[o] # "none"
  BY ObjectsExist DEF GetBounded, IInv
<1>4. Shape' /\ Matched' /\ Down' /\ UnitsListed'
  BY <1>1, <1>2, <1>3, NewKeeps, ResourceTreeAssumption DEF IInv
<1>5. Alive(a)' /\ memory'[a] # "none" /\ Alive(o)'
  BY <1>1, <1>3, NewGrows DEF IInv, Alive
<1>6. \A b \in Apps : memory[b] # "none" => b # a /\ b \in Nodes /\ memory'[b] # "none"
  <2>1. \A b \in Apps : b \in Nodes
    BY DEF Nodes
  <2>2. \A y \in Nodes : memory[y] # "none" => memory'[y] # "none" /\ y # a
    BY <1>1, NewGrows DEF IInv
  <2> QED BY <2>1, <2>2
<1>7. AppsOwn'
  <2> SUFFICES ASSUME NEW p \in Objects, app'[p] # Nil
               PROVE  app'[p] \in Apps /\ memory'[app'[p]] # "none" /\ owner'[app'[p]] = p
    BY DEF AppsOwn
  <2>1. CASE p = o
    BY <1>2, <1>5, <2>1
  <2>2. CASE p # o
    BY <1>2, <1>6, <2>2 DEF IInv, AppsOwn
  <2> QED BY <2>1, <2>2
<1>8. Caused'
  <2>1. ASSUME NEW p \in Objects, app'[p] # Nil, ~Alive(app[p])'
        PROVE  "app destroyed" \in causes'
    <3>1. p # o /\ app'[p] = app[p]
      BY <1>2, <1>5, <2>1 DEF Alive
    <3>2. app[p] \in Apps /\ app[p] # a /\ app[p] \in Nodes
      BY <1>6, <2>1, <3>1 DEF IInv, AppsOwn
    <3>3. ~Alive(app[p])
      BY <1>1, <2>1, <3>1, <3>2, NewGrows DEF IInv, Alive
    <3> QED BY <1>1, <2>1, <3>1, <3>3 DEF IInv, Caused
  <2>2. \A y \in Units \cup Techniques : Alive(y)' /\ ~Alive(owner[y])' => "orphaned" \in causes'
    BY <1>1, <1>2, NewOrphansNone
  <2>3. ASSUME NEW b \in Apps, Alive(b)', ~Alive(owner[b])' \/ app'[owner'[b]] # b
        PROVE  "app replaced" \in causes'
    <3>1. b # a
      BY <1>2, <1>5, <2>3 DEF Alive
    <3>2. owner'[b] = owner[b] /\ Alive(b) /\ owner[b] \in Objects /\ memory[owner[b]] # "none"
      BY <1>1, <1>2, <2>3, <3>1, NewGrows DEF IInv, Shape, Nodes
    <3>3. CASE ~Alive(owner[b])'
      <4>1. ~Alive(owner[b])
        BY <1>1, <3>2, <3>3, NewGrows DEF IInv, Alive, Nodes
      <4> QED BY <1>1, <3>2, <4>1 DEF IInv, Caused
    <3>4. CASE app'[owner'[b]] # b
      <4>1. CASE app[owner[b]] # b
        BY <1>1, <3>2, <4>1 DEF IInv, Caused
      <4>2. CASE app[owner[b]] = b
        BY <1>1, <1>2, <3>2, <3>4, <4>2, ResourceTreeAssumption DEF Nodes
      <4> QED BY <4>1, <4>2
    <3> QED BY <2>3, <3>3, <3>4
  <2> QED BY <2>1, <2>2, <2>3 DEF Caused, Alive
<1> QED BY <1>1, <1>4, <1>7, <1>8 DEF IInv, MisuseHasCause

----------------------------------------------------------------------------
(* Commits, drags and sessions                                             *)

LEMMA CausesOfKinds ==
  /\ CauseOf["app"] = "app destroyed" /\ CauseOf["owner"] = "orphaned"
  /\ CauseOf["object of a replaced app"] = "app replaced"
  /\ CauseOf["inert app"] = "inert app used"
<1> DEFINE named(k) == CASE k = "app" -> "app destroyed"
                         [] k = "owner" -> "orphaned"
                         [] k = "object of a replaced app" -> "app replaced"
                         [] k = "inert app" -> "inert app used"
<1>1. CauseOf = [k \in Kinds |-> named(k)]
  BY Zenon DEF CauseOf
<1>2. \A k \in Kinds : CauseOf[k] = named(k)
  <2> HIDE DEF named
  <2> QED BY <1>1
<1>3. /\ named("app") = "app destroyed" /\ named("owner") = "orphaned"
      /\ named("object of a replaced app") = "app replaced"
      /\ named("inert app") = "inert app used"
  OBVIOUS
<1> HIDE DEF named
<1> QED BY <1>2, <1>3 DEF Kinds

(* The app that a sync follows into freed memory was destroyed.            *)
LEMMA SyncHasCause ==
  ASSUME Caused, causes \subseteq causes', NEW O \in SUBSET Objects
  PROVE  \A k \in SyncMisuse(O) : CauseOf[k] \in causes'
BY CausesOfKinds DEF Caused, SyncMisuse

LEMMA CommitStep ==
  ASSUME IInv, NEW o \in Objects, Alive(o), Commit(o)
  PROVE  Shape' /\ Matched' /\ Down' /\ AppsOwn' /\ UnitsListed' /\ Caused' /\ MisuseHasCause'
<1>1. Shape' /\ Matched' /\ Down' /\ AppsOwn' /\ UnitsListed'
  BY CommitKeeps DEF IInv, Alive
<1>2. Caused'
  BY DEF IInv, Commit, Caused, Alive
<1>3. misuse' \subseteq SyncMisuse({o}) /\ causes' = causes
  BY DEF Commit
<1>4. MisuseHasCause'
  BY <1>3, SyncHasCause DEF IInv, MisuseHasCause
<1> QED BY <1>1, <1>2, <1>4

LEMMA MoveAppStep ==
  ASSUME IInv, NEW a \in Apps, MoveApp(a)
  PROVE  Shape' /\ Matched' /\ Down' /\ AppsOwn' /\ UnitsListed' /\ Caused' /\ MisuseHasCause'
<1>1. owner[a] \in Objects /\ Alive(a)
  BY DEF MoveApp, IInv, Shape
<1>2. CASE Alive(owner[a])
  BY <1>1, <1>2, CommitStep DEF MoveApp
<1>3. CASE ~Alive(owner[a])
  <2>1. /\ misuse' = {"object of a replaced app"}
        /\ UNCHANGED <<memory, resources, inert, owner, committed, listed, technique,
                       app, client, session, causes>>
    BY <1>3 DEF MoveApp
  <2>2. MisuseHasCause'
    BY <1>1, <1>3, <2>1, CausesOfKinds DEF MisuseHasCause, IInv, Caused
  <2> QED BY <2>1, <2>2 DEF IInv, Shape, Matched, Down, AppsOwn, UnitsListed, Caused, Alive
<1> QED BY <1>2, <1>3

(* Steps that leave the tree and its history as they are, but for a cause  *)
(* that is noted.                                                          *)
LEMMA OtherSteps ==
  ASSUME IInv, (\E a \in Apps : UseApp(a)) \/ Establish \/ Disconnect \/ TeardownStarts
                 \/ UNCHANGED vars
  PROVE  Shape' /\ Matched' /\ Down' /\ AppsOwn' /\ UnitsListed' /\ Caused' /\ MisuseHasCause'
<1>1. /\ UNCHANGED <<memory, resources, inert, owner, committed, listed, technique, app>>
      /\ causes \subseteq causes'
  BY DEF UseApp, Establish, Disconnect, TeardownStarts, vars
<1>2. Shape' /\ Matched' /\ Down' /\ AppsOwn' /\ UnitsListed'
  BY <1>1 DEF IInv, Shape, Matched, Down, AppsOwn, UnitsListed, Alive
<1>3. Caused'
  BY <1>1 DEF IInv, Caused, Alive
<1>4. MisuseHasCause'
  <2>1. ASSUME NEW a \in Apps, UseApp(a) PROVE MisuseHasCause'
    BY <2>1, CausesOfKinds DEF UseApp, MisuseHasCause
  <2>2. CASE Establish
    <3>1. PICK O \in SUBSET Objects : misuse' = SyncMisuse(O)
      BY <2>2 DEF Establish
    <3> QED BY <1>1, <3>1, SyncHasCause DEF IInv, MisuseHasCause
  <2>3. CASE Disconnect \/ TeardownStarts \/ UNCHANGED vars
    BY <2>3 DEF Disconnect, TeardownStarts, vars, IInv, MisuseHasCause
  <2> QED BY <2>1, <2>2, <2>3
<1> QED BY <1>2, <1>3, <1>4

----------------------------------------------------------------------------
(* The steps that delete                                                   *)

(* What the causes have to say after D has gone, beyond what they say of   *)
(* the state before, is about pointers into D from outside.                *)
LEMMA DeleteCaused ==
  ASSUME IInv, NEW x \in Nodes, NEW D \in SUBSET Nodes, Delete(x, D), causes \subseteq causes',
         \A o \in Objects \ D : app[o] \in Apps \cap D /\ Alive(app[o]) =>
           "app destroyed" \in causes',
         \A y \in (Units \cup Techniques) \ D : Alive(y) /\ owner[y] \in D =>
           "orphaned" \in causes',
         \A a \in Apps \ D : Alive(a) /\ owner[a] \in D => "app replaced" \in causes'
  PROVE  Caused'
<1>1. owner' = owner /\ \A o \in Objects : app'[o] = IF o \in D THEN Nil ELSE app[o]
  BY DEF Delete
<1>2. \A y \in Nodes : Alive(y)' <=> Alive(y) /\ y \notin D
  BY DEF Delete, Alive
<1>3. ASSUME NEW o \in Objects, app'[o] # Nil, ~Alive(app[o])' PROVE "app destroyed" \in causes'
  <2>1. o \notin D /\ app'[o] = app[o]
    BY <1>1, <1>3
  <2>2. app[o] \in Apps
    BY <1>3, <2>1 DEF IInv, AppsOwn
  <2>3. ~Alive(app[o]) \/ app[o] \in D
    BY <1>2, <1>3, <2>1, <2>2 DEF Nodes, Alive
  <2> QED BY <1>3, <2>1, <2>2, <2>3 DEF IInv, Caused
<1>4. ASSUME NEW y \in Units \cup Techniques, Alive(y)', ~Alive(owner[y])'
      PROVE  "orphaned" \in causes'
  <2>1. Alive(y) /\ y \notin D /\ owner[y] \in Nodes
    BY <1>2, <1>4 DEF Nodes, IInv, Shape
  <2>2. ~Alive(owner[y]) \/ owner[y] \in D
    BY <1>1, <1>2, <1>4, <2>1 DEF Alive
  <2> QED BY <2>1, <2>2 DEF IInv, Caused
<1>5. ASSUME NEW a \in Apps, Alive(a)', ~Alive(owner[a])' \/ app'[owner'[a]] # a
      PROVE  "app replaced" \in causes'
  <2>1. Alive(a) /\ a \notin D /\ owner[a] \in Objects /\ owner[a] \in Nodes
    BY <1>2, <1>5 DEF Nodes, IInv, Shape
  <2>2. ~Alive(owner[a]) \/ owner[a] \in D \/ app[owner[a]] # a
    BY <1>1, <1>2, <1>5, <2>1 DEF Alive
  <2> QED BY <2>1, <2>2 DEF IInv, Caused
<1> QED BY <1>3, <1>4, <1>5 DEF Caused, Alive

(* What ~VirtualObject leaves behind is a unit it had not listed, since    *)
(* that was never committed, or a technique of a listed unit that was      *)
(* displaced by another; or an app that was replaced.                      *)
LEMMA DeleteObjectStep ==
  ASSUME IInv, NEW o \in Objects \ inert, o \in resources, DeleteObject(o)
  PROVE  Shape' /\ Matched' /\ Down' /\ AppsOwn' /\ UnitsListed' /\ Caused' /\ MisuseHasCause'
<1> DEFINE D == {o} \cup WithTechniques(listed[o]) \cup ({app[o]} \ {Nil})
<1>1. Delete(o, D) /\ misuse' = SyncMisuse({o}) /\ causes' = causes \cup Orphaned(LeftUnits(o))
  BY DEF DeleteObject
<1>2. /\ listed[o] \subseteq Units /\ app[o] \in Apps \cup {Nil}
      /\ WithTechniques(listed[o]) \subseteq Units \cup Techniques
  BY DEF IInv, TypeOK, WithTechniques
<1>3. D \in SUBSET Nodes /\ o \in D /\ D \cap Objects \subseteq {o} /\ o \in Nodes
  BY <1>2, ResourceTreeAssumption DEF Nodes
<1>4. Shape' /\ Matched' /\ Down' /\ AppsOwn' /\ UnitsListed'
  <2> HIDE DEF D
  <2> QED BY <1>1, <1>3, DeleteKeeps DEF IInv
<1>5. MisuseHasCause'
  BY <1>1, SyncHasCause DEF IInv, MisuseHasCause
<1>6. ASSUME NEW p \in Objects \ D, app[p] \in Apps \cap D, Alive(app[p])
      PROVE  "app destroyed" \in causes'
  <2>1. app[p] = app[o]
    BY <1>2, <1>6, ResourceTreeAssumption
  <2>2. owner[app[p]] = p /\ owner[app[o]] = o
    BY <1>6, <2>1, ResourceTreeAssumption DEF IInv, AppsOwn, Nodes
  <2> QED BY <1>6, <2>1, <2>2
<1>7. ASSUME NEW y \in (Units \cup Techniques) \ D, Alive(y), owner[y] \in D
      PROVE  "orphaned" \in causes'
  <2>1. SUFFICES LeftUnits(o) # {}
    BY <1>1 DEF Orphaned
  <2>2. CASE y \in Units
    <3>1. owner[y] = o
      BY <1>3, <1>7, <2>2 DEF IInv, Shape
    <3>2. Alive(o)
      BY <1>3 DEF IInv, Matched
    <3>3. y \notin committed
      BY <1>7, <2>2, <3>1, <3>2 DEF IInv, UnitsListed, WithTechniques
    <3> QED BY <1>7, <2>2, <3>1, <3>3 DEF LeftUnits, UnitsOf
  <2>3. CASE y \in Techniques
    <3> DEFINE u == owner[y]
    <3>1. u \in Units /\ u \in listed[o]
      BY <1>2, <1>7, <2>3, ResourceTreeAssumption DEF IInv, Shape, WithTechniques
    <3>2. technique[u] # y
      BY <1>7, <2>3, <3>1 DEF WithTechniques
    <3>3. y \in LeftTechniques(u)
      BY <1>7, <2>3, <3>2 DEF LeftTechniques
    <3>4. Alive(u) /\ owner[u] = o
      BY <3>1 DEF IInv, Down
    <3> QED BY <3>1, <3>3, <3>4 DEF LeftUnits, UnitsOf
  <2> QED BY <1>7, <2>2, <2>3
<1>8. ASSUME NEW a \in Apps \ D, Alive(a), owner[a] \in D PROVE "app replaced" \in causes'
  <2>1. owner[a] = o
    BY <1>3, <1>8 DEF IInv, Shape
  <2>2. app[o] # a
    BY <1>8, ResourceTreeAssumption DEF Nodes
  <2> QED BY <1>1, <1>8, <2>1, <2>2 DEF IInv, Caused
<1>9. Caused'
  <2> HIDE DEF D
  <2> QED BY <1>1, <1>3, <1>6, <1>7, <1>8, DeleteCaused
<1> QED BY <1>4, <1>5, <1>9

LEMMA DeleteUnitStep ==
  ASSUME IInv, NEW u \in Units \ inert, u \in resources, DeleteUnit(u)
  PROVE  Shape' /\ Matched' /\ Down' /\ AppsOwn' /\ UnitsListed' /\ Caused' /\ MisuseHasCause'
<1> DEFINE D == WithTechniques({u})
<1>1. Delete(u, D) /\ misuse' = OwnerMisuse(u) /\ causes' = causes \cup Orphaned(LeftTechniques(u))
  BY DEF DeleteUnit
<1>2. D \subseteq {u} \cup Techniques /\ u \in D
  BY DEF WithTechniques
<1>3. D \in SUBSET Nodes /\ D \cap Objects = {} /\ D \cap Apps = {} /\ u \in Nodes
  BY <1>2, ResourceTreeAssumption DEF Nodes
<1>4. Shape' /\ Matched' /\ Down' /\ AppsOwn' /\ UnitsListed'
  <2> HIDE DEF D
  <2> QED BY <1>1, <1>2, <1>3, DeleteKeeps DEF IInv
<1>5. Alive(u)
  BY <1>3 DEF IInv, Matched
<1>6. MisuseHasCause'
  BY <1>1, <1>5, CausesOfKinds DEF IInv, MisuseHasCause, OwnerMisuse, Caused
<1>7. ASSUME NEW y \in (Units \cup Techniques) \ D, Alive(y), owner[y] \in D
      PROVE  "orphaned" \in causes'
  <2>1. y \in Techniques
    BY <1>3, <1>7 DEF IInv, Shape
  <2>2. owner[y] = u
    BY <1>2, <1>7, <2>1, ResourceTreeAssumption DEF IInv, Shape
  <2>3. technique[u] # y
    BY <1>7, <2>1 DEF WithTechniques
  <2>4. LeftTechniques(u) # {}
    BY <1>7, <2>1, <2>2, <2>3 DEF LeftTechniques
  <2> QED BY <1>1, <2>4 DEF Orphaned
<1>8. \A a \in Apps \ D : Alive(a) => owner[a] \notin D
  BY <1>3 DEF IInv, Shape
<1>9. Caused'
  <2> HIDE DEF D
  <2> QED BY <1>1, <1>3, <1>7, <1>8, DeleteCaused
<1> QED BY <1>4, <1>6, <1>9

LEMMA DeleteTechniqueStep ==
  ASSUME IInv, NEW t \in Techniques \ inert, t \in resources, DeleteTechnique(t)
  PROVE  Shape' /\ Matched' /\ Down' /\ AppsOwn' /\ UnitsListed' /\ Caused' /\ MisuseHasCause'
<1>1. Delete(t, {t}) /\ misuse' = OwnerMisuse(t) /\ causes' = causes
  BY DEF DeleteTechnique
<1>2. /\ {t} \in SUBSET Nodes /\ t \in Nodes
      /\ t \notin Objects /\ t \notin Units /\ t \notin Apps
  BY ResourceTreeAssumption DEF Nodes
<1>3. Shape' /\ Matched' /\ Down' /\ AppsOwn' /\ UnitsListed'
  BY <1>1, <1>2, DeleteKeeps DEF IInv
<1>4. Alive(t)
  BY <1>2 DEF IInv, Matched
<1>5. MisuseHasCause'
  BY <1>1, <1>4, CausesOfKinds DEF IInv, MisuseHasCause, OwnerMisuse, Caused
<1>6. \A y \in Units \cup Techniques \cup Apps : Alive(y) => owner[y] \notin {t}
  BY <1>2 DEF IInv, Shape
<1>7. Caused'
  BY <1>1, <1>2, <1>6, DeleteCaused
<1> QED BY <1>3, <1>5, <1>7

(* app_ is left pointing to the app only by the object the app is for.     *)
LEMMA DeleteAppStep ==
  ASSUME IInv, NEW a \in Apps \ inert, a \in resources, DeleteApp(a)
  PROVE  Shape' /\ Matched' /\ Down' /\ AppsOwn' /\ UnitsListed' /\ Caused' /\ MisuseHasCause'
<1>1. /\ Delete(a, {a}) /\ misuse' = misuse /\ causes \subseteq causes'
      /\ app[owner[a]] = a => "app destroyed" \in causes'
  BY DEF DeleteApp
<1>2. /\ {a} \in SUBSET Nodes /\ a \in Nodes
      /\ a \notin Objects /\ a \notin Units /\ a # Nil
  BY ResourceTreeAssumption DEF Nodes
<1>3. Shape' /\ Matched' /\ Down' /\ AppsOwn' /\ UnitsListed'
  BY <1>1, <1>2, DeleteKeeps DEF IInv
<1>4. MisuseHasCause'
  BY <1>1 DEF IInv, MisuseHasCause
<1>5. ASSUME NEW o \in Objects, app[o] = a PROVE "app destroyed" \in causes'
  BY <1>1, <1>2, <1>5 DEF IInv, AppsOwn
<1>6. \A y \in Units \cup Techniques \cup Apps : Alive(y) => owner[y] \notin {a}
  BY <1>2 DEF IInv, Shape
<1>7. Caused'
  BY <1>1, <1>2, <1>5, <1>6, DeleteCaused
<1> QED BY <1>3, <1>4, <1>7

LEMMA DestroyStep ==
  ASSUME IInv, NEW x \in Nodes, DestroyResource(x)
  PROVE  Shape' /\ Matched' /\ Down' /\ AppsOwn' /\ UnitsListed' /\ Caused' /\ MisuseHasCause'
<1>1. CASE x \in inert /\ DeleteInert(x)
  <2>1. Delete(x, {}) /\ misuse' = misuse /\ causes' = causes
    BY <1>1 DEF DeleteInert
  <2>2. Shape' /\ Matched' /\ Down' /\ AppsOwn' /\ UnitsListed'
    BY <1>1, <2>1, DeleteKeeps DEF IInv
  <2>3. Caused'
    BY <2>1, DeleteCaused
  <2> QED BY <2>1, <2>2, <2>3 DEF IInv, MisuseHasCause
<1> QED
  BY <1>1, DeleteObjectStep, DeleteUnitStep, DeleteTechniqueStep, DeleteAppStep
     DEF DestroyResource

----------------------------------------------------------------------------
(* The theorems                                                            *)

(* IInv holds of every behaviour.                                          *)
LEMMA IInvCorrect == Spec => []IInv
<1>1. IInv /\ [Next]_vars => IInv'
  <2> SUFFICES ASSUME IInv, [Next]_vars PROVE IInv'
    OBVIOUS
  <2>1. TypeOK'
    BY TypeStep DEF IInv
  <2>2. ASSUME NEW o \in Objects, CommitObject(o)
        PROVE  Shape' /\ Matched' /\ Down' /\ AppsOwn' /\ UnitsListed' /\ Caused' /\ MisuseHasCause'
    BY <2>2, ObjectsExist, CommitStep DEF CommitObject, IInv
  <2>3. Shape' /\ Matched' /\ Down' /\ AppsOwn' /\ UnitsListed' /\ Caused' /\ MisuseHasCause'
    BY <2>2, CreateObjectStep, CreateUnitStep, CreateTechniqueStep, GetBoundedStep,
       MoveAppStep, OtherSteps, DestroyStep
       DEF Next, DestroyRequest, Teardown
  <2> QED BY <2>1, <2>3 DEF IInv
<1> QED BY <1>1, InitIInv, PTL DEF Spec

(* The tree of objects and resources of a client has its type.             *)
THEOREM TypesOK == Spec => []TypeOK
BY IInvCorrect, PTL DEF IInv

(* No resource is left without its object unless it was made inert, no     *)
(* object without its resource: what a client destroys and in which order, *)
(* objects are deleted exactly once.                                       *)
THEOREM ObjectsAreMatched == Spec => []ObjectsMatchResources
<1>1. IInv => ObjectsMatchResources
  BY DEF IInv, Matched, ObjectsMatchResources
<1> QED BY <1>1, IInvCorrect, PTL

(* The pointers from owners to their units and techniques never dangle.    *)
THEOREM PointersAreDown == Spec => []PointersDown
<1>1. IInv => PointersDown
  BY DEF IInv, Down, PointersDown
<1> QED BY <1>1, IInvCorrect, PTL

(* Freed memory is used only after the client took one of four steps.      *)
THEOREM MisuseIsCaused == Spec => []MisuseHasCause
BY IInvCorrect, PTL DEF IInv
=============================================================================

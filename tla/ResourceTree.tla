----------------------------- MODULE ResourceTree -----------------------------
(***************************************************************************)
(* Who deletes what in one client's tree of VirtualObject, RenderingUnit,  *)
(* GlBaseTechnique and BoundedApp.                                         *)
(*                                                                         *)
(* A wl_resource owns its C++ object until the destructor of another       *)
(* object deletes that object first; the resource is then left inert, with *)
(* neither user data nor destructor.  Children point to their owners and   *)
(* owners to their children with raw pointers, so the order of deletion    *)
(* decides whether one is followed after the object behind it is gone.     *)
(* What happens after that is undefined: the model stops there.            *)
(*                                                                         *)
(* A definition said to be a slip is a mistake the code could make, which  *)
(* takes the place of the definition after it to show what would notice.   *)
(***************************************************************************)
CONSTANTS
  Objects, Units, Techniques, Apps,   \* ids of the four interfaces
  Nil

Nodes == Objects \cup Units \cup Techniques \cup Apps

ASSUME ResourceTreeAssumption ==
  /\ Nil \notin Nodes
  /\ Objects \cap (Units \cup Techniques \cup Apps) = {}
  /\ Units \cap (Techniques \cup Apps) = {}
  /\ Techniques \cap Apps = {}

VARIABLES
  memory,     \* the C++ object: not allocated yet, alive or freed
  resources,  \* the wl_resources that exist
  inert,      \* those of them whose user data is null
  owner,      \* owner_ of units and techniques, virtual_object_ of apps
  committed,  \* committed_ of objects, units and techniques
  listed,     \* VirtualObject::rendering_unit_list_
  technique,  \* RenderingUnit::technique_
  app,        \* VirtualObject::app_
  client,     \* running, posted a protocol error, or being torn down
  session,    \* a session is up
  misuse,     \* how freed or null memory was used, if it was
  causes      \* history: what the client did that can lead to it

vars == <<memory, resources, inert, owner, committed, listed, technique, app,
          client, session, misuse, causes>>

Alive(x) == memory[x] = "alive"

Kinds  == {"app", "owner", "object of a replaced app", "inert app"}
Causes == {"app destroyed", "orphaned", "app replaced", "inert app used"}
CauseOf == [k \in Kinds |-> CASE k = "app" -> "app destroyed"
                              [] k = "owner" -> "orphaned"
                              [] k = "object of a replaced app" -> "app replaced"
                              [] k = "inert app" -> "inert app used"]

TypeOK ==
  /\ memory \in [Nodes -> {"none", "alive", "freed"}]
  /\ resources \subseteq Nodes
  /\ inert \subseteq resources
  /\ owner \in [Units \cup Techniques \cup Apps -> Objects \cup Units \cup {Nil}]
  /\ committed \subseteq Objects \cup Units \cup Techniques
  /\ listed \in [Objects -> SUBSET Units]
  /\ technique \in [Units -> Techniques \cup {Nil}]
  /\ app \in [Objects -> Apps \cup {Nil}]
  /\ client \in {"running", "failed", "teardown"}
  /\ session \in BOOLEAN
  /\ misuse \subseteq Kinds
  /\ causes \subseteq Causes

Init ==
  /\ memory = [x \in Nodes |-> "none"]
  /\ resources = {} /\ inert = {}
  /\ owner = [x \in Units \cup Techniques \cup Apps |-> Nil]
  /\ committed = {}
  /\ listed = [o \in Objects |-> {}]
  /\ technique = [u \in Units |-> Nil]
  /\ app = [o \in Objects |-> Nil]
  /\ client = "running" /\ session = FALSE
  /\ misuse = {} /\ causes = {}

Defined == misuse = {}     \* no undefined behaviour so far
Running == Defined /\ client = "running"

----------------------------------------------------------------------------
(* Requests that create                                                    *)

New(x) ==
  /\ Running /\ memory[x] = "none"
  /\ memory' = [memory EXCEPT ![x] = "alive"]
  /\ resources' = resources \cup {x}
  /\ UNCHANGED <<inert, committed, listed, technique, session, misuse>>

CreateObject(o) == New(o) /\ UNCHANGED <<owner, app, client, causes>>

CreateUnit(u, o) ==
  /\ o \in resources /\ New(u)
  /\ owner' = [owner EXCEPT ![u] = o]
  /\ UNCHANGED <<app, client, causes>>

(* the user data of an inert unit is null, which is an error of the client *)
CreateTechnique(t, u) ==
  \/ /\ u \in resources \ inert /\ New(t)
     /\ owner' = [owner EXCEPT ![t] = u]
     /\ UNCHANGED <<app, client, causes>>
  \/ /\ Running /\ u \in inert /\ memory[t] = "none"
     /\ client' = "failed"
     /\ UNCHANGED <<memory, resources, inert, owner, committed, listed, technique,
                    app, session, misuse, causes>>

(* set_app forgets the app there was.  A half_size of the wrong size is a  *)
(* protocol error, after which the app is made all the same.               *)
GetBounded(a, o) ==
  /\ o \in resources /\ New(a)
  /\ owner' = [owner EXCEPT ![a] = o]
  /\ app' = [app EXCEPT ![o] = a]
  /\ causes' = IF app[o] = Nil THEN causes ELSE causes \cup {"app replaced"}
  /\ client' \in {"running", "failed"}

----------------------------------------------------------------------------
(* Commit and sync                                                         *)

(* VirtualObject::sync follows app_, unless it is not set                  *)
SyncMisuse(O) == IF \E o \in O : app[o] # Nil /\ ~Alive(app[o]) THEN {"app"} ELSE {}

(* The units and techniques that listen for commits of o                   *)
UnitsOf(o) == {u \in Units : Alive(u) /\ owner[u] = o}
TechniquesOf(o) == {t \in Techniques : Alive(t) /\ owner[t] \in UnitsOf(o)}

(* Techniques are given to their units at their first commit; those whose  *)
(* unit has one by then are refused, with a protocol error.                *)
FirstCommits(o) == TechniquesOf(o) \ committed
GivenTo(o, given) ==
  \A u \in Units :
    LET new == {t \in FirstCommits(o) : owner[t] = u} IN
    IF technique[u] = Nil /\ new # {}
    THEN given[u] \in new ELSE given[u] = technique[u]

Commit(o) ==
  /\ \E given \in [Units -> Techniques \cup {Nil}] :
       /\ GivenTo(o, given)
       /\ technique' = given
       /\ client' = IF \E t \in FirstCommits(o) : given[owner[t]] # t
                    THEN "failed" ELSE client
  /\ listed' = [listed EXCEPT ![o] = @ \cup UnitsOf(o)]
  /\ committed' = committed \cup {o} \cup UnitsOf(o) \cup TechniquesOf(o)
  /\ misuse' = IF session THEN SyncMisuse({o}) ELSE {}
  /\ UNCHANGED <<memory, resources, inert, owner, app, session, causes>>

CommitObject(o) == Running /\ o \in resources /\ Commit(o)

(* the seat drags an app it has a weak pointer to: BoundedApp::move        *)
MoveApp(a) ==
  /\ Defined /\ client # "teardown" /\ Alive(a)
  /\ IF Alive(owner[a]) THEN Commit(owner[a])
     ELSE /\ misuse' = {"object of a replaced app"}
          /\ UNCHANGED <<memory, resources, inert, owner, committed, listed, technique,
                         app, client, session, causes>>

(* zwn_bounded.ack_configure and set_region do not look for a null pointer *)
UseApp(a) ==
  /\ Running /\ a \in inert
  /\ misuse' = {"inert app"} /\ causes' = causes \cup {"inert app used"}
  /\ UNCHANGED <<memory, resources, inert, owner, committed, listed, technique, app,
                 client, session>>

Establish ==
  /\ Defined /\ client # "teardown" /\ ~session
  /\ session' = TRUE
  /\ misuse' = SyncMisuse({o \in Objects \cap committed : Alive(o)})
  /\ UNCHANGED <<memory, resources, inert, owner, committed, listed, technique, app,
                 client, causes>>

Disconnect ==
  /\ Defined /\ client # "teardown" /\ session
  /\ session' = FALSE
  /\ UNCHANGED <<memory, resources, inert, owner, committed, listed, technique, app,
                 client, misuse, causes>>

----------------------------------------------------------------------------
(* Deletion                                                                *)

(* ~RenderingUnit takes itself off the list of its object, ~GlBaseTechnique *)
(* empties technique_ of its unit, whichever technique that is             *)
(* Slip: the list is left as it is.                                        *)
TakeOffNothing(D) == listed
TakeOff(D) == [o \in Objects |-> IF o \in D THEN {} ELSE listed[o] \ D]
EmptyUnits(D) == [u \in Units |->
                    IF u \in D \/ \E t \in Techniques \cap D : owner[t] = u
                    THEN Nil ELSE technique[u]]

(* The objects in D go with the resource x: other resources that stand for *)
(* them lose their user data and destructor                                *)
(* Slips: the resource itself stays inert; the others keep their user data *)
(* and destructor.                                                         *)
InertKept(x, D) == inert \cup (D \cap resources)
InertWithoutD(x, D) == inert \ {x}
InertAfter(x, D) == (inert \cup (D \cap resources)) \ {x}

Delete(x, D) ==
  /\ memory' = [y \in Nodes |-> IF y \in D THEN "freed" ELSE memory[y]]
  /\ resources' = resources \ {x}
  /\ inert' = InertAfter(x, D)
  /\ listed' = TakeOff(D)
  /\ technique' = EmptyUnits(D)
  /\ app' = [o \in Objects |-> IF o \in D THEN Nil ELSE app[o]]
  /\ UNCHANGED <<owner, committed, session>>

(* a unit's destructor deletes its technique; slip: it does not            *)
WithoutTechniques(U) == U
WithTechniques(U) == U \cup {t \in Techniques : \E u \in U : technique[u] = t}

(* history: some child would be left behind, which was not committed or    *)
(* which another technique of the same unit has displaced                  *)
LeftTechniques(u) == {t \in Techniques : Alive(t) /\ owner[t] = u /\ technique[u] # t}
LeftUnits(o) == {u \in UnitsOf(o) : u \notin committed \/ LeftTechniques(u) # {}}
Orphaned(left) == IF left # {} THEN {"orphaned"} ELSE {}

(* ~VirtualObject deletes the units in its list, with their techniques,    *)
(* and its app                                                             *)
DeleteObject(o) ==
  LET D == {o} \cup WithTechniques(listed[o]) \cup ({app[o]} \ {Nil}) IN
  /\ misuse' = SyncMisuse({o})      \* the app is deleted a second time
  /\ causes' = causes \cup Orphaned(LeftUnits(o))
  /\ Delete(o, D)

(* ~RenderingUnit and ~GlBaseTechnique follow owner_                       *)
OwnerMisuse(x) == IF Alive(owner[x]) THEN {} ELSE {"owner"}

DeleteUnit(u) ==
  /\ misuse' = OwnerMisuse(u)
  /\ causes' = causes \cup Orphaned(LeftTechniques(u))
  /\ Delete(u, WithTechniques({u}))

DeleteTechnique(t) ==
  /\ misuse' = OwnerMisuse(t)
  /\ UNCHANGED causes
  /\ Delete(t, {t})

(* app_ of the object still points to the app                              *)
DeleteApp(a) ==
  /\ UNCHANGED misuse
  /\ causes' = IF app[owner[a]] = a THEN causes \cup {"app destroyed"} ELSE causes
  /\ Delete(a, {a})

DeleteInert(x) == UNCHANGED <<misuse, causes>> /\ Delete(x, {})

(* wl_resource_destroy: the resource's destructor, unless it was unset     *)
DestroyResource(x) ==
  /\ x \in resources
  /\ \/ x \in Objects \ inert    /\ DeleteObject(x)
     \/ x \in Units \ inert      /\ DeleteUnit(x)
     \/ x \in Techniques \ inert /\ DeleteTechnique(x)
     \/ x \in Apps \ inert       /\ DeleteApp(x)
     \/ x \in inert              /\ DeleteInert(x)

DestroyRequest(x) == Running /\ DestroyResource(x) /\ UNCHANGED client

(* wl_client_destroy, after a disconnection or a protocol error: resources *)
(* go in the order of their ids.  Ids are reused, so the order is any.     *)
TeardownStarts ==
  /\ Defined /\ client # "teardown"
  /\ client' = "teardown"
  /\ UNCHANGED <<memory, resources, inert, owner, committed, listed, technique, app,
                 session, misuse, causes>>
Teardown(x) ==
  /\ Defined /\ client = "teardown"
  /\ DestroyResource(x)
  /\ UNCHANGED client

----------------------------------------------------------------------------
Next ==
  \/ \E o \in Objects : CreateObject(o) \/ CommitObject(o)
  \/ \E u \in Units, o \in Objects : CreateUnit(u, o)
  \/ \E t \in Techniques, u \in Units : CreateTechnique(t, u)
  \/ \E a \in Apps, o \in Objects : GetBounded(a, o)
  \/ \E a \in Apps : MoveApp(a) \/ UseApp(a)
  \/ \E x \in Nodes : DestroyRequest(x) \/ Teardown(x)
  \/ Establish \/ Disconnect \/ TeardownStarts

Spec == Init /\ [][Next]_vars

----------------------------------------------------------------------------
(* An object exists exactly as long as a resource that is not inert stands *)
(* for it: nothing leaks once the resources are gone, nothing is deleted   *)
(* by two resources, and a request never finds freed user data.            *)
ObjectsMatchResources ==
  Defined => \A x \in Nodes : Alive(x) <=> x \in resources \ inert

(* What an owner points to is alive and its own, except an app             *)
PointersDown ==
  Defined =>
    /\ \A o \in Objects : \A u \in listed[o] : Alive(u) /\ owner[u] = o
    /\ \A u \in Units : technique[u] # Nil =>
         Alive(technique[u]) /\ owner[technique[u]] = u

(* Freed memory is only ever used after the client took one of four steps: *)
(* it destroyed an app before its object, gave an object a second app, let *)
(* an object or unit go before a child it had not committed, or used an    *)
(* app whose object was gone.                                              *)
MisuseHasCause == \A k \in misuse : CauseOf[k] \in causes

(* The comment at RenderingUnit::owner_: nonnull, since the unit is        *)
(* destroyed when its VirtualObject is                                     *)
OwnerOutlivesUnit == \A u \in Units : Alive(u) => Alive(owner[u])
=============================================================================

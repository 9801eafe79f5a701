--------------------------- MODULE ServerSeatProofs ---------------------------
(***************************************************************************)
(* The invariants of ServerSeat, for any clients, things and seats.        *)
(*                                                                         *)
(* They fall into four parts that need little of each other: pointer,      *)
(* keyboard, cursor, and what is owed to whoever follows a pointer.  Each  *)
(* part is preserved by the steps of Next under the type invariant, most   *)
(* actions leaving most parts alone; IInv is the conjunction.              *)
(***************************************************************************)
EXTENDS ServerSeat, TLAPS

(* What does not exist has no role and is not hidden: a surface made anew  *)
(* is not taken for the cursor that had its place.                         *)
Fresh == \A s \in Surfaces \ live : role[s] = "none"

(* A toplevel is of the client of its surface, and goes with it.           *)
Own == \A s \in Surfaces : role[s] \in Toplevels => ClientOf[role[s]] = ClientOf[s]

(* Something that can be told of the pointer or the keyboard has a seat to *)
(* be told by, or its client was careless; and so for toplevels.           *)
SeatOwed ==
  /\ \A c \in Clients : bound[c] > 0 => c \in client_seats \/ <<"seat", c>> \in careless
  /\ \A x \in mapped \cup Just(focused_obj) \cup Just(keyboard_focused) :
       ClientOf[x] \in client_seats \/ <<"seat", ClientOf[x]>> \in careless
ToplevelOwed ==
  \A s \in Surfaces : role[s] \in Toplevels \ whole => <<"toplevel", ClientOf[s]>> \in careless

PointerInv  == PointerAgrees /\ StraysAreDragged
KeyboardInv == KeyboardAgrees /\ OneActivated
CursorInv   == OneCursor /\ Fresh /\ Own
MisuseInv   == MisuseHasCause /\ SeatOwed /\ ToplevelOwed
IInv == TypeOK /\ PointerInv /\ KeyboardInv /\ CursorInv /\ MisuseInv

----------------------------------------------------------------------------
(* Initially nothing exists, so all of it holds.                           *)
LEMMA InitIInv == Init => IInv
BY ServerSeatAssumption
   DEF Init, IInv, TypeOK, PointerInv, KeyboardInv, CursorInv, MisuseInv, PointerAgrees,
       StraysAreDragged, KeyboardAgrees, OneActivated, OneCursor, Fresh, Own, MisuseHasCause,
       SeatOwed, ToplevelOwed, Just, Things, Roles, Events, Reasons

----------------------------------------------------------------------------
(* The type invariant is inductive by itself.                              *)

(* Clients own things.                                                     *)
LEMMA OwnerIsClient == \A x \in Things \cup Toplevels : ClientOf[x] \in Clients
BY ServerSeatAssumption

(* What misuse and Tell record is of the types they are declared with.     *)
LEMMA RecordTypes ==
  ASSUME NEW X, X \subseteq Things, NEW S, S \subseteq Surfaces
  PROVE  SeatMisuse(X) \subseteq Reasons /\ ToplevelMisuse(S) \subseteq Reasons
BY OwnerIsClient DEF SeatMisuse, ToplevelMisuse, Reasons, Things

(* An input event leaves everything well typed.                            *)
LEMMA InputTypes ==
  ASSUME TypeOK, \/ \E hit \in Things \cup {Nil} : Move(hit) \/ Drop(hit)
                 \/ Press \/ Release \/ Wheel \/ \E c \in Clients : StartMove(c)
  PROVE  TypeOK'
<1> USE ServerSeatAssumption DEF TypeOK, Things, Just, surfaceVars, shellVars, clientVars, keyVars, pointerVars
<1>1. ASSUME NEW old, old \in live \cup {Nil}, NEW hit, CheckIntersection(old, hit)
      PROVE  /\ focused_obj' \in live \cup {Nil} /\ entered' \subseteq live
             /\ strays' \subseteq Events \X Things /\ misuse' \subseteq Reasons
             /\ cursor' \in (live \cap Surfaces) \cup {Nil}
             /\ role' \in [Surfaces -> Roles] /\ hidden' \subseteq Surfaces
             /\ displaced' \subseteq toplevels
  <2>1. hit \in live \cup {Nil}
    BY <1>1 DEF CheckIntersection, Hittable
  <2>2. misuse' \subseteq Reasons
    <3>1. Just(old) \cup Just(hit) \subseteq Things
      BY <1>1, <2>1
    <3> QED BY <1>1, <3>1, RecordTypes DEF CheckIntersection
  <2>3. strays' \subseteq Events \X Things /\ entered' \subseteq live
    BY <1>1, <2>1 DEF CheckIntersection, Tell, Events
  <2> QED BY <1>1, <2>1, <2>2, <2>3 DEF CheckIntersection, ShowCursor, TakeCursor, Displaced, ToplevelsOf, Roles
<1>2. ASSUME NEW hit \in Things \cup {Nil}, Move(hit) PROVE TypeOK'
  BY <1>2, <1>1 DEF Move
<1>3. ASSUME NEW hit \in Things \cup {Nil}, Drop(hit) PROVE TypeOK'
  BY <1>3, <1>1 DEF Drop
<1>4. ASSUME NEW event \in Events, Forward(event) PROVE TypeOK'
  BY <1>4, RecordTypes DEF Forward, Tell, Events
<1>5. CASE Press
  <2>1. misuse' \subseteq Reasons
    <3>1. CASE focused_obj \in Apps \/ focused_obj = keyboard_focused
      <4>1. Just(focused_obj) \subseteq Things
        OBVIOUS
      <4>2. SeatMisuse(Just(focused_obj)) \subseteq Reasons
        <5> HIDE DEF Just
        <5> QED BY <4>1, RecordTypes
      <4>3. misuse' = SeatMisuse(Just(focused_obj))
        BY <1>5, <3>1 DEF Press
      <4> QED BY <4>2, <4>3
    <3>2. CASE ~(focused_obj \in Apps \/ focused_obj = keyboard_focused)
      <4>1. Just(keyboard_focused) \cup Just(focused_obj) \subseteq Surfaces
        BY <3>2
      <4>2. KeyboardMisuse(focused_obj) \subseteq Reasons
        <5> HIDE DEF Just
        <5>1. Just(keyboard_focused) \cup Just(focused_obj) \subseteq Things
          BY <4>1
        <5> QED BY <4>1, <5>1, RecordTypes DEF KeyboardMisuse
      <4>3. misuse' = KeyboardMisuse(focused_obj)
        BY <1>5, <3>2 DEF Press
      <4> QED BY <4>2, <4>3
    <3> QED BY <3>1, <3>2
  <2> QED BY <1>5, <2>1 DEF Press, Tell, FocusKeyboard, ToplevelsOf, Events
<1>6. ASSUME NEW c \in Clients, StartMove(c) PROVE TypeOK'
  <2>1. misuse' \subseteq Reasons
    <3>1. {focused_obj} \subseteq Things
      BY <1>6 DEF StartMove
    <3> QED BY <1>6, <3>1, RecordTypes DEF StartMove
  <2>2. strays' \subseteq Events \X Things /\ entered' \subseteq live
    BY <1>6 DEF StartMove, Tell, Events
  <2> QED BY <1>6, <2>1, <2>2 DEF StartMove
<1> QED BY <1>2, <1>3, <1>4, <1>5, <1>6 DEF Release, Wheel, Events

(* So does a request, and the end of a client.                             *)
LEMMA RequestTypes ==
  ASSUME TypeOK,
         \/ \E c \in Clients, s \in Surfaces \cup {Nil} : SetCursor(c, s)
         \/ \E x \in Things : Create(x) \/ Commit(x) \/ Destroy(x)
         \/ \E t \in Toplevels : DestroyToplevel(t) \/ \E s \in Surfaces : GetToplevel(s, t)
         \/ \E T \in SUBSET Toplevels : DestroyXdgSurface(T)
         \/ \E c \in Clients : BindSeat(c) \/ ReleaseSeat(c)
         \/ \E c \in Clients : GetPointer(c) \/ ReleasePointer(c) \/ GetRay(c) \/ ClientGone(c)
  PROVE  TypeOK'
<1> USE ServerSeatAssumption DEF TypeOK, Things, surfaceVars, shellVars, clientVars, keyVars, pointerVars
<1>1. ASSUME NEW c \in Clients, NEW s \in Surfaces \cup {Nil}, SetCursor(c, s) PROVE TypeOK'
  BY <1>1 DEF SetCursor, ShowCursor, TakeCursor, Displaced, ToplevelsOf, Just, Roles
<1>2. ASSUME NEW x \in Things, Create(x) PROVE TypeOK'
  BY <1>2 DEF Create
<1>3. ASSUME NEW x \in Things, Commit(x) PROVE TypeOK'
  BY <1>3, OwnerIsClient DEF Commit, Reasons
<1>4. ASSUME NEW s \in Surfaces, NEW t \in Toplevels, GetToplevel(s, t) PROVE TypeOK'
  BY <1>4 DEF GetToplevel, Displaced, ToplevelsOf, Roles
<1>5. ASSUME NEW t \in Toplevels, DestroyToplevel(t) PROVE TypeOK'
  BY <1>5, OwnerIsClient DEF DestroyToplevel, LeavePointers, Reasons
<1>11. ASSUME NEW T \in SUBSET Toplevels, DestroyXdgSurface(T) PROVE TypeOK'
  BY <1>11, OwnerIsClient DEF DestroyXdgSurface, LeavePointers, Reasons
<1>6. ASSUME NEW X, Delete(X)
      PROVE  /\ live' \subseteq Things /\ mapped' \subseteq live'
             /\ role' \in [Surfaces -> Roles] /\ hidden' \subseteq Surfaces
             /\ focused_obj' \in live' \cup {Nil}
             /\ keyboard_focused' \in (live' \cap Surfaces) \cup {Nil}
             /\ cursor' \in (live' \cap Surfaces) \cup {Nil}
             /\ obj_state' = obj_state
             /\ entered' \subseteq live' /\ typing' \subseteq live' \cap Surfaces
             /\ strays' \subseteq Events \X Things /\ misuse' = misuse
  BY <1>6 DEF Delete, Unless, Roles
<1>7. ASSUME NEW x \in Things, Destroy(x) PROVE TypeOK'
  BY <1>7, <1>6 DEF Destroy, Displaced, ToplevelsOf
<1>8. ASSUME NEW c \in Clients, ClientGone(c) PROVE TypeOK'
  BY <1>8, <1>6 DEF ClientGone
<1>9. ASSUME NEW c \in Clients, BindSeat(c) \/ ReleaseSeat(c) PROVE TypeOK'
  BY <1>9 DEF BindSeat, ReleaseSeat, Reasons
<1>10. ASSUME NEW c \in Clients, GetPointer(c) \/ ReleasePointer(c) \/ GetRay(c) PROVE TypeOK'
  BY <1>10 DEF GetPointer, ReleasePointer, GetRay, Reasons
<1> QED BY <1>1, <1>2, <1>3, <1>4, <1>5, <1>7, <1>8, <1>9, <1>10, <1>11

(* So does every step.                                                     *)
LEMMA TypeStep == TypeOK /\ [Next]_vars => TypeOK'
<1>1. ASSUME TypeOK, UNCHANGED vars PROVE TypeOK'
  BY <1>1 DEF TypeOK, vars, surfaceVars, shellVars, clientVars, keyVars, pointerVars
<1> QED BY <1>1, InputTypes, RequestTypes DEF Next

(* TypeOK holds of every behaviour: in particular what the seat points to  *)
(* exists, and the keyboard and the cursor are of surfaces.                *)
THEOREM TypeCorrect == Spec => []TypeOK
<1>1. Init => TypeOK
  BY InitIInv DEF IInv
<1> QED BY <1>1, TypeStep, PTL DEF Spec

----------------------------------------------------------------------------
(* The pointer                                                             *)

(* Where the ray hits is entered, and nothing else.                        *)
LEMMA HitEntered ==
  ASSUME NEW old, NEW hit, CheckIntersection(old, hit), entered = Just(old)
  PROVE  entered' = Just(focused_obj') /\ strays' = {}
BY DEF CheckIntersection, Tell, Just

(* Every step keeps what was told enter() to what is in focus.             *)
LEMMA PointerStep == TypeOK /\ PointerInv /\ [Next]_vars => PointerInv'
<1> SUFFICES ASSUME TypeOK, PointerInv, [Next]_vars PROVE PointerInv'
  OBVIOUS
<1> USE DEF PointerInv, PointerAgrees, StraysAreDragged, pointerVars
<1>1. ASSUME NEW hit, Move(hit) PROVE PointerInv'
  BY <1>1, HitEntered DEF Move
<1>2. ASSUME NEW hit, Drop(hit) PROVE PointerInv'
  BY <1>2, HitEntered DEF Drop, Just
<1>3. ASSUME NEW event \in {"button", "axis"}, Forward(event) PROVE PointerInv'
  BY <1>3 DEF Forward, Tell, Just, TypeOK
<1>4. CASE Press
  BY <1>4 DEF Press, Tell, Just, TypeOK
<1>5. ASSUME NEW c \in Clients, StartMove(c) PROVE PointerInv'
  BY <1>5 DEF StartMove, Tell, Just, TypeOK
<1>6. ASSUME NEW X, Delete(X) PROVE PointerInv'
  BY <1>6 DEF Delete, Unless, Just
<1>7. ASSUME UNCHANGED pointerVars, strays' = {} PROVE PointerInv'
  BY <1>7 DEF Just
<1>8. ASSUME NEW c \in Clients, NEW s \in Surfaces \cup {Nil}, SetCursor(c, s) PROVE PointerInv'
  BY <1>8, <1>7 DEF SetCursor
<1>9. ASSUME NEW x \in Things, Create(x) \/ Commit(x) \/ Destroy(x) PROVE PointerInv'
  BY <1>9, <1>6, <1>7 DEF Create, Commit, Destroy
<1>10. ASSUME NEW s, NEW t, GetToplevel(s, t) PROVE PointerInv'
  BY <1>10, <1>7 DEF GetToplevel
<1>14. ASSUME NEW t, DestroyToplevel(t) \/ DestroyXdgSurface(t) PROVE PointerInv'
  BY <1>14, <1>7 DEF DestroyToplevel, DestroyXdgSurface
<1>11. ASSUME NEW c \in Clients, BindSeat(c) \/ ReleaseSeat(c) PROVE PointerInv'
  BY <1>11, <1>7 DEF BindSeat, ReleaseSeat
<1>12. ASSUME NEW c \in Clients,
              GetPointer(c) \/ ReleasePointer(c) \/ GetRay(c) \/ ClientGone(c)
       PROVE  PointerInv'
  BY <1>12, <1>6, <1>7 DEF GetPointer, ReleasePointer, GetRay, ClientGone
<1>13. CASE UNCHANGED vars
  BY <1>13 DEF vars, Just
<1> QED
  BY <1>1, <1>2, <1>3, <1>4, <1>5, <1>8, <1>9, <1>10, <1>11, <1>12, <1>13, <1>14
     DEF Next, Release, Wheel

----------------------------------------------------------------------------
(* The keyboard                                                            *)

(* Every step keeps the keyboard with the focused one, and activation with *)
(* its toplevel unless that is displaced.                                  *)
LEMMA KeyboardStep == TypeOK /\ Own /\ KeyboardInv /\ [Next]_vars => KeyboardInv'
<1> SUFFICES ASSUME TypeOK, Own, KeyboardInv, [Next]_vars PROVE KeyboardInv'
  OBVIOUS
<1> USE DEF KeyboardInv, KeyboardAgrees, OneActivated, ToplevelsOf, keyVars
<1>1. ASSUME UNCHANGED keyVars, toplevels \subseteq toplevels', displaced \subseteq displaced',
             \A s \in Just(keyboard_focused) : role'[s] = role[s]
      PROVE  KeyboardInv'
  BY <1>1 DEF Just
<1>2. ASSUME UNCHANGED <<surfaceVars, shellVars, keyVars>> PROVE KeyboardInv'
  BY <1>2, <1>1 DEF surfaceVars, shellVars
<1>3. ASSUME NEW s \in Surfaces, NEW r, role' = [role EXCEPT ![s] = r], Displaced({s}),
             UNCHANGED keyVars, toplevels \subseteq toplevels'
      PROVE  KeyboardInv'
  <2>1. CASE s = keyboard_focused
    <3>1. displaced' = displaced \cup ToplevelsOf(Just(keyboard_focused))
      BY <1>3, <2>1, ServerSeatAssumption DEF Displaced, Just, Things
    <3> QED BY <1>3, <3>1
  <2>2. CASE s # keyboard_focused
    BY <1>3, <2>2, <1>1 DEF Displaced, Just, TypeOK
  <2> QED BY <2>1, <2>2
<1>4. CASE Press
  <2>1. UNCHANGED <<surfaceVars, shellVars>>
    BY <1>4 DEF Press
  <2>2. CASE UNCHANGED keyVars
    BY <2>1, <2>2, <1>2
  <2>3. CASE FocusKeyboard(focused_obj)
    BY <2>1, <2>3 DEF FocusKeyboard, Just, surfaceVars, shellVars
  <2> QED BY <1>4, <2>2, <2>3 DEF Press
<1>5. ASSUME NEW s \in Surfaces \cup {Nil}, ShowCursor(s), UNCHANGED <<shellVars, keyVars>>
      PROVE  KeyboardInv'
  <2>1. CASE UNCHANGED <<cursor, role, hidden, displaced>>
    BY <1>5, <2>1, <1>1 DEF shellVars
  <2>2. CASE s = Nil /\ TakeCursor(s)
    BY <1>5, <2>2, <1>1 DEF TakeCursor, Displaced, shellVars
  <2>3. CASE s # Nil /\ TakeCursor(s)
    <3>1. s \in Surfaces /\ Just(s) = {s}
      BY <2>3, <1>5 DEF Just
    <3>2. role' = [role EXCEPT ![s] = "cursor"] /\ Displaced({s})
      BY <2>3, <3>1 DEF TakeCursor
    <3> QED BY <1>5, <3>1, <3>2, <1>3 DEF shellVars
  <2> QED BY <1>5, <2>1, <2>2, <2>3 DEF ShowCursor
<1>6. ASSUME NEW old, NEW hit, CheckIntersection(old, hit), UNCHANGED <<shellVars, keyVars>>
      PROVE  KeyboardInv'
  BY <1>6, <1>5, <1>1 DEF CheckIntersection, shellVars
<1>7. ASSUME NEW hit, Move(hit) \/ Drop(hit) PROVE KeyboardInv'
  BY <1>7, <1>1, <1>6 DEF Move, Drop, shellVars
<1>8. ASSUME NEW event, Forward(event) PROVE KeyboardInv'
  BY <1>8, <1>2 DEF Forward
<1>9. ASSUME NEW c \in Clients, StartMove(c) PROVE KeyboardInv'
  BY <1>9, <1>2 DEF StartMove
<1>10. ASSUME NEW c \in Clients, NEW s \in Surfaces \cup {Nil}, SetCursor(c, s)
       PROVE  KeyboardInv'
  BY <1>10, <1>5 DEF SetCursor
<1>11. ASSUME NEW x \in Things, Create(x) \/ Commit(x) PROVE KeyboardInv'
  BY <1>11, <1>1 DEF Create, Commit, shellVars
<1>12. ASSUME NEW X, Delete(X) PROVE KeyboardAgrees'
  BY <1>12 DEF Delete, Unless, Just
<1>13. ASSUME NEW x \in Things, Destroy(x) PROVE KeyboardInv'
  <2>1. activated' = activated /\ toplevels' = toplevels
    BY <1>13 DEF Destroy, shellVars
  <2>2. CASE x = keyboard_focused
    <3>1. displaced' = displaced \cup ToplevelsOf(Just(keyboard_focused))
      BY <1>13, <2>2, ServerSeatAssumption DEF Destroy, Displaced, Just
    <3> QED BY <1>13, <1>12, <2>1, <3>1 DEF Destroy
  <2>3. CASE x # keyboard_focused
    <3>1. UNCHANGED keyboard_focused /\ \A s \in Just(keyboard_focused) : role'[s] = role[s]
      BY <1>13, <2>3 DEF Destroy, Delete, Unless, Just, TypeOK
    <3>2. displaced \subseteq displaced'
      BY <1>13 DEF Destroy, Displaced
    <3> QED BY <1>13, <1>12, <2>1, <3>1, <3>2 DEF Destroy, Just
  <2> QED BY <2>2, <2>3
<1>14. ASSUME NEW s \in Surfaces, NEW t, GetToplevel(s, t) PROVE KeyboardInv'
  BY <1>14, <1>3 DEF GetToplevel
<1>15. ASSUME NEW t, DestroyToplevel(t) PROVE KeyboardInv'
  BY <1>15 DEF DestroyToplevel
<1>16. ASSUME NEW T, DestroyXdgSurface(T) PROVE KeyboardInv'
  BY <1>16, <1>1 DEF DestroyXdgSurface, surfaceVars
<1>17. ASSUME NEW c \in Clients, BindSeat(c) \/ ReleaseSeat(c) PROVE KeyboardInv'
  BY <1>17, <1>2 DEF BindSeat, ReleaseSeat
<1>18. ASSUME NEW c \in Clients, GetPointer(c) \/ ReleasePointer(c) \/ GetRay(c)
       PROVE  KeyboardInv'
  BY <1>18, <1>2 DEF GetPointer, ReleasePointer, GetRay
<1>19. ASSUME NEW c \in Clients, ClientGone(c) PROVE KeyboardInv'
  <2> DEFINE own == {t \in Toplevels : ClientOf[t] = c}
  <2>1. /\ activated' = activated \ own /\ displaced' = displaced \ own
        /\ toplevels' = toplevels \ own
    BY <1>19 DEF ClientGone
  <2>2. CASE keyboard_focused # Nil /\ ClientOf[keyboard_focused] = c
    <3>1. ToplevelsOf(Just(keyboard_focused)) \subseteq own
      BY <2>2 DEF Own, Just, TypeOK
    <3> QED BY <1>19, <1>12, <2>1, <3>1 DEF ClientGone
  <2>3. CASE ~(keyboard_focused # Nil /\ ClientOf[keyboard_focused] = c)
    <3>1. UNCHANGED keyboard_focused /\ \A s \in Just(keyboard_focused) : role'[s] = role[s]
      BY <1>19, <2>3 DEF ClientGone, Delete, Unless, Just, TypeOK
    <3> QED BY <1>19, <1>12, <2>1, <3>1 DEF ClientGone, Just
  <2> QED BY <2>2, <2>3
<1>20. CASE UNCHANGED vars
  BY <1>20, <1>2 DEF vars
<1> QED
  BY <1>4, <1>7, <1>8, <1>9, <1>10, <1>11, <1>13, <1>14, <1>15, <1>16, <1>17, <1>18, <1>19, <1>20
     DEF Next, Release, Wheel

----------------------------------------------------------------------------
(* The cursor                                                              *)

(* Every step keeps all surfaces hidden that were the cursor before.       *)
LEMMA CursorStep == TypeOK /\ CursorInv /\ [Next]_vars => CursorInv'
<1> SUFFICES ASSUME TypeOK, CursorInv, [Next]_vars PROVE CursorInv'
  OBVIOUS
<1> USE DEF CursorInv, OneCursor, Fresh, Own, surfaceVars
<1>1. CASE UNCHANGED <<live, role, hidden, cursor>>
  BY <1>1
<1>2. ASSUME NEW s \in (live \cap Surfaces) \cup {Nil}, ShowCursor(s), live' = live
      PROVE  CursorInv'
  BY <1>2, ServerSeatAssumption DEF ShowCursor, TakeCursor, TypeOK, Just, Things
<1>3. ASSUME NEW hit, Move(hit) \/ Drop(hit) PROVE CursorInv'
  BY <1>3, <1>1, <1>2 DEF Move, Drop, CheckIntersection
<1>4. ASSUME NEW c \in Clients, NEW s \in Surfaces \cup {Nil}, SetCursor(c, s) PROVE CursorInv'
  BY <1>4, <1>2 DEF SetCursor
<1>5. ASSUME NEW event, Forward(event) \/ Press \/ \E c \in Clients : StartMove(c)
      PROVE  CursorInv'
  BY <1>5, <1>1 DEF Forward, Press, StartMove
<1>6. ASSUME NEW x \in Things, Create(x) PROVE CursorInv'
  BY <1>6 DEF Create
<1>7. ASSUME NEW X, Delete(X) PROVE CursorInv'
  BY <1>7, ServerSeatAssumption DEF Delete, Unless
<1>8. ASSUME NEW x \in Things, Commit(x) \/ Destroy(x) PROVE CursorInv'
  BY <1>8, <1>1, <1>7 DEF Commit, Destroy
<1>9. ASSUME NEW s \in Surfaces, NEW t \in Toplevels, GetToplevel(s, t) PROVE CursorInv'
  BY <1>9, ServerSeatAssumption DEF GetToplevel, TypeOK
<1>12. ASSUME NEW t, DestroyToplevel(t) \/ DestroyXdgSurface(t) PROVE CursorInv'
  BY <1>12, <1>1 DEF DestroyToplevel, DestroyXdgSurface
<1>10. ASSUME NEW c \in Clients,
              \/ BindSeat(c) \/ ReleaseSeat(c) \/ GetPointer(c) \/ ReleasePointer(c)
              \/ GetRay(c) \/ ClientGone(c)
       PROVE  CursorInv'
  BY <1>10, <1>1, <1>7 DEF BindSeat, ReleaseSeat, GetPointer, ReleasePointer, GetRay, ClientGone
<1>11. CASE UNCHANGED vars
  BY <1>11, <1>1 DEF vars
<1> QED
  BY <1>3, <1>4, <1>5, <1>6, <1>8, <1>9, <1>10, <1>11, <1>12 DEF Next, Release, Wheel

----------------------------------------------------------------------------
(* Misuse                                                                  *)

(* Following client_seats of things that are owed a seat is excused.       *)
LEMMA MisuseExcused ==
  ASSUME ToplevelOwed,
         NEW X, \A x \in X : ClientOf[x] \in client_seats \/ <<"seat", ClientOf[x]>> \in careless,
         NEW S, S \subseteq Surfaces
  PROVE  SeatMisuse(X) \subseteq careless /\ ToplevelMisuse(S) \subseteq careless
BY DEF SeatMisuse, ToplevelMisuse, ToplevelOwed

(* What is in focus, and what the ray may hit, is owed a seat.             *)
LEMMA FocusedOwed ==
  ASSUME SeatOwed, NEW old \in {focused_obj, Nil}, NEW hit, CheckIntersection(old, hit)
  PROVE  /\ SeatMisuse(Just(old) \cup Just(hit)) \subseteq careless
         /\ \A x \in Just(focused_obj') :
              ClientOf[x] \in client_seats \/ <<"seat", ClientOf[x]>> \in careless
BY DEF SeatOwed, SeatMisuse, CheckIntersection, Hittable, Just

(* Every step: what is followed has a cause, and what can come to be       *)
(* followed has one ready.                                                 *)
LEMMA MisuseStep == TypeOK /\ Fresh /\ Own /\ MisuseInv /\ [Next]_vars => MisuseInv'
<1> SUFFICES ASSUME TypeOK, Fresh, Own, MisuseInv, [Next]_vars PROVE MisuseInv'
  OBVIOUS
<1> USE ServerSeatAssumption DEF MisuseInv, MisuseHasCause, surfaceVars, shellVars, clientVars, keyVars, pointerVars
<1>1. ASSUME UNCHANGED <<mapped, whole, clientVars, careless>>,
             \A s \in Surfaces : role'[s] \in Toplevels => role'[s] = role[s],
             \A x \in Just(focused_obj') \cup Just(keyboard_focused') :
               ClientOf[x] \in client_seats \/ <<"seat", ClientOf[x]>> \in careless
      PROVE  SeatOwed' /\ ToplevelOwed'
  BY <1>1 DEF SeatOwed, ToplevelOwed
<1>2. ASSUME NEW s \in Surfaces \cup {Nil}, ShowCursor(s)
      PROVE  \A t \in Surfaces : role'[t] \in Toplevels => role'[t] = role[t]
  BY <1>2 DEF ShowCursor, TakeCursor, TypeOK
<1>3. ASSUME NEW old \in {focused_obj, Nil}, NEW hit, CheckIntersection(old, hit),
             UNCHANGED <<mapped, shellVars, clientVars, keyVars, careless>>
      PROVE  MisuseInv'
  <2>1. misuse' \subseteq careless'
    BY <1>3, FocusedOwed DEF CheckIntersection
  <2>2. \A t \in Surfaces : role'[t] \in Toplevels => role'[t] = role[t]
    BY <1>3, <1>2 DEF CheckIntersection
  <2> QED BY <2>1, <2>2, <1>3, <1>1, FocusedOwed DEF SeatOwed
<1>4. ASSUME NEW hit, Move(hit) \/ Drop(hit) PROVE MisuseInv'
  BY <1>4, <1>3 DEF Move, Drop, SeatOwed, ToplevelOwed
<1>5. ASSUME NEW event, Forward(event) PROVE MisuseInv'
  BY <1>5 DEF Forward, SeatOwed, ToplevelOwed, SeatMisuse, Just
<1>6. CASE Press
  <2>1. misuse' \subseteq careless
    <3>1. CASE misuse' = SeatMisuse(Just(focused_obj))
      BY <3>1 DEF SeatMisuse, SeatOwed
    <3>2. CASE misuse' = KeyboardMisuse(focused_obj) /\ focused_obj \notin Apps
      <4>1. Just(keyboard_focused) \cup Just(focused_obj) \subseteq Surfaces
        BY <3>2 DEF Just, TypeOK, Things
      <4> QED BY <3>2, <4>1, MisuseExcused DEF KeyboardMisuse, SeatOwed
    <3> QED BY <1>6, <3>1, <3>2 DEF Press
  <2> QED BY <1>6, <2>1 DEF Press, FocusKeyboard, SeatOwed, ToplevelOwed
<1>7. ASSUME NEW c \in Clients, StartMove(c) PROVE MisuseInv'
  BY <1>7 DEF StartMove, SeatOwed, ToplevelOwed, SeatMisuse, Just
<1>8. ASSUME NEW c \in Clients, NEW s \in Surfaces \cup {Nil}, SetCursor(c, s) PROVE MisuseInv'
  BY <1>8, <1>1, <1>2 DEF SetCursor, SeatOwed
<1>9. ASSUME NEW x \in Things, Create(x) PROVE MisuseInv'
  BY <1>9 DEF Create, SeatOwed, ToplevelOwed
<1>10. ASSUME NEW x \in Things, Commit(x) PROVE MisuseInv'
  BY <1>10, OwnerIsClient DEF Commit, SeatOwed, ToplevelOwed
<1>11. ASSUME NEW X, Delete(X), UNCHANGED <<whole, clientVars, careless>> PROVE MisuseInv'
  BY <1>11 DEF Delete, Unless, Just, SeatOwed, ToplevelOwed
<1>12. ASSUME NEW x \in Things, Destroy(x) PROVE MisuseInv'
  BY <1>12, <1>11 DEF Destroy
<1>13. ASSUME NEW s \in Surfaces, NEW t \in Toplevels, GetToplevel(s, t) PROVE MisuseInv'
  BY <1>13 DEF GetToplevel, SeatOwed, ToplevelOwed, TypeOK
<1>19. ASSUME NEW t \in Toplevels, DestroyToplevel(t) PROVE MisuseInv'
  BY <1>19 DEF DestroyToplevel, LeavePointers, SeatOwed, ToplevelOwed
<1>20. ASSUME NEW T \in SUBSET Toplevels, DestroyXdgSurface(T) PROVE MisuseInv'
  BY <1>20 DEF DestroyXdgSurface, LeavePointers, SeatOwed, ToplevelOwed
<1>14. ASSUME NEW c \in Clients, BindSeat(c) PROVE MisuseInv'
  BY <1>14 DEF BindSeat, SeatOwed, ToplevelOwed, TypeOK
<1>15. ASSUME NEW c \in Clients, ReleaseSeat(c) PROVE MisuseInv'
  <2>1. <<"seat", c>> \in careless' \/ (bound[c] = 1 /\ \A x \in live : ClientOf[x] # c)
    BY <1>15 DEF ReleaseSeat, TypeOK
  <2>2. careless \subseteq careless'
    BY <1>15 DEF ReleaseSeat
  <2>3. \A x \in mapped \cup Just(focused_obj) \cup Just(keyboard_focused) : x \in live
    BY DEF TypeOK, Just
  <2>4. SeatOwed'
    <3>1. ASSUME NEW d \in Clients, bound'[d] > 0
          PROVE  d \in client_seats' \/ <<"seat", d>> \in careless'
      BY <1>15, <2>1, <2>2, <3>1 DEF ReleaseSeat, SeatOwed, TypeOK
    <3>2. ASSUME NEW x \in mapped \cup Just(focused_obj) \cup Just(keyboard_focused)
          PROVE  ClientOf[x] \in client_seats' \/ <<"seat", ClientOf[x]>> \in careless'
      BY <1>15, <2>1, <2>2, <2>3, <3>2 DEF ReleaseSeat, SeatOwed
    <3> QED BY <1>15, <3>1, <3>2 DEF ReleaseSeat, SeatOwed
  <2> QED BY <1>15, <2>2, <2>4 DEF ReleaseSeat, ToplevelOwed
<1>16. ASSUME NEW c \in Clients, GetPointer(c) \/ ReleasePointer(c) \/ GetRay(c) PROVE MisuseInv'
  BY <1>16 DEF GetPointer, ReleasePointer, GetRay, SeatOwed, ToplevelOwed, TypeOK
<1>17. ASSUME NEW c \in Clients, ClientGone(c) PROVE MisuseInv'
  <2>1. \A x \in mapped' \cup Just(focused_obj') \cup Just(keyboard_focused') :
          x \in mapped \cup Just(focused_obj) \cup Just(keyboard_focused) /\ ClientOf[x] # c
    BY <1>17 DEF ClientGone, Delete, Unless, Just, TypeOK
  <2>2. ToplevelOwed'
    <3> SUFFICES ASSUME NEW s \in Surfaces, role'[s] \in Toplevels \ whole'
                 PROVE  <<"toplevel", ClientOf[s]>> \in careless
      BY <1>17 DEF ClientGone, ToplevelOwed
    <3>1. s \in live /\ ClientOf[s] # c /\ role'[s] = role[s]
      BY <1>17 DEF ClientGone, Delete, Fresh, TypeOK, Things
    <3> QED BY <1>17, <3>1 DEF ClientGone, Own, ToplevelOwed
  <2> QED BY <1>17, <2>1, <2>2 DEF ClientGone, Delete, SeatOwed, TypeOK
<1>18. CASE UNCHANGED vars
  BY <1>18 DEF vars, SeatOwed, ToplevelOwed
<1> QED
  BY <1>4, <1>5, <1>6, <1>7, <1>8, <1>9, <1>10, <1>12, <1>13, <1>14, <1>15, <1>16, <1>17, <1>18,
     <1>19, <1>20
     DEF Next, Release, Wheel

----------------------------------------------------------------------------
(* The theorems                                                            *)

(* IInv holds of every behaviour.                                          *)
LEMMA IInvCorrect == Spec => []IInv
<1>1. Init => IInv
  BY InitIInv
<1>2. IInv /\ [Next]_vars => IInv'
  BY TypeStep, PointerStep, KeyboardStep, CursorStep, MisuseStep DEF IInv, CursorInv
<1> QED BY <1>1, <1>2, PTL DEF Spec

(* A client is told the pointer is in a window exactly when the seat's     *)
(* focus is there and is not being dragged, whoever destroys what.         *)
THEOREM PointerCorrect == Spec => []PointerAgrees
BY IInvCorrect, PTL DEF IInv, PointerInv

(* Pointer events that nothing called for come during a drag only.         *)
THEOREM StraysCorrect == Spec => []StraysAreDragged
BY IInvCorrect, PTL DEF IInv, PointerInv

(* A client is told the keyboard is in a window exactly when the seat's    *)
(* keyboard focus is there: enter and leave pair up.                       *)
THEOREM KeyboardCorrect == Spec => []KeyboardAgrees
BY IInvCorrect, PTL DEF IInv, KeyboardInv

(* A toplevel that was told it is activated is that of the surface with    *)
(* the keyboard, or one that such a surface lost by a change of role or by *)
(* its destruction: nothing else leaves one behind.                        *)
THEOREM ActivationCorrect == Spec => []OneActivated
BY IInvCorrect, PTL DEF IInv, KeyboardInv

(* No surface but the seat's cursor is shown as one.                       *)
THEOREM CursorCorrect == Spec => []OneCursor
BY IInvCorrect, PTL DEF IInv, CursorInv

(* A missing seat or toplevel is only followed for a client that was       *)
(* careless in one of the ways named, however many clients there are.      *)
THEOREM MisuseCorrect == Spec => []MisuseHasCause
BY IInvCorrect, PTL DEF IInv, MisuseInv
=============================================================================

------------------------------ MODULE ServerSeat ------------------------------
(***************************************************************************)
(* Which surface or app the ray points at, has the keyboard, is dragged or *)
(* is the cursor, and what clients are told of it.                         *)
(*                                                                         *)
(* The seat has weak pointers to surfaces and apps: one to something that  *)
(* was destroyed is as good as none, and is Nil here.  It finds the        *)
(* ClientSeat of a client in client_seats, which holds nothing for clients *)
(* that did not bind wl_seat, and surfaces follow a raw pointer to their   *)
(* toplevel.  To use either when it is not there is undefined: the model   *)
(* stops there.  Where the ray hits is any choice that geometry could      *)
(* make.  Handlers are atomic, as if the event loop did nothing while the  *)
(* input thread handles an event; InputThread says what may go wrong when  *)
(* it does.                                                                *)
(***************************************************************************)
EXTENDS Naturals

CONSTANTS
  Clients, Surfaces, Apps,
  Toplevels,   \* ids of XdgTopLevels, used again once nothing refers to one
  ClientOf,    \* the client of a surface, app or toplevel
  MaxSeats,    \* bound: wl_seat resources of a client at a time
  Nil

Things == Surfaces \cup Apps

ASSUME ServerSeatAssumption ==
  /\ Nil \notin Things /\ Surfaces \cap Apps = {}
  /\ Toplevels \cap {"none", "cursor"} = {}
  /\ ClientOf \in [Things \cup Toplevels -> Clients]
  /\ MaxSeats \in Nat

VARIABLES
  live,            \* the surfaces and apps that exist
  mapped,          \* those with a texture, or with a region
  role,            \* of surfaces: role_, and role_obj_ where that is a toplevel
  hidden,          \* surfaces that set_active(false) shrinks to nothing
  toplevels,       \* the XdgTopLevels that exist
  whole,           \* those of them whose XdgSurface exists as well
  bound,           \* the number of wl_seat resources of a client
  client_seats,    \* the clients it has an entry for
  pointers,        \* the clients that have a wl_pointer
  focused_obj, obj_state, keyboard_focused, cursor,
  entered,         \* history: what was told enter() and not leave()
  typing,          \* history: surfaces sent wl_keyboard.enter and no leave
  activated,       \* history: toplevels that were told last they are activated
  displaced,       \* history: toplevels that a surface lost while it had the keyboard
  strays,          \* pointer events of the last step that nothing called for
  misuse,          \* which pointers were followed that should not have been
  careless         \* history: clients that gave a reason for misuse

surfaceVars == <<live, mapped, role, hidden, displaced>>
shellVars   == <<toplevels, whole>>
clientVars  == <<bound, client_seats, pointers>>
keyVars     == <<keyboard_focused, typing, activated>>
pointerVars == <<focused_obj, obj_state, entered>>
vars == <<surfaceVars, shellVars, clientVars, keyVars, pointerVars, cursor, strays, misuse,
          careless>>

Roles  == {"none", "cursor"} \cup Toplevels
Events == {"enter", "leave", "motion", "button", "axis"}
Reasons == {"seat", "toplevel"} \X Clients

TypeOK ==
  /\ live \subseteq Things /\ mapped \subseteq live
  /\ role \in [Surfaces -> Roles] /\ hidden \subseteq Surfaces
  /\ toplevels \subseteq Toplevels /\ whole \subseteq toplevels
  /\ bound \in [Clients -> 0..MaxSeats]
  /\ client_seats \subseteq Clients /\ pointers \subseteq Clients
  /\ focused_obj \in live \cup {Nil}
  /\ keyboard_focused \in (live \cap Surfaces) \cup {Nil}
  /\ cursor \in (live \cap Surfaces) \cup {Nil}
  /\ obj_state \in {"DEFAULT", "MOVING"}
  /\ entered \subseteq live
  /\ typing \subseteq live \cap Surfaces
  /\ activated \subseteq toplevels /\ displaced \subseteq toplevels
  /\ strays \subseteq Events \X Things
  /\ misuse \subseteq Reasons /\ careless \subseteq Reasons

Init ==
  /\ live = {} /\ mapped = {} /\ role = [s \in Surfaces |-> "none"] /\ hidden = {}
  /\ toplevels = {} /\ whole = {}
  /\ bound = [c \in Clients |-> 0] /\ client_seats = {} /\ pointers = {}
  /\ focused_obj = Nil /\ obj_state = "DEFAULT"
  /\ keyboard_focused = Nil /\ cursor = Nil
  /\ entered = {} /\ typing = {} /\ activated = {} /\ displaced = {}
  /\ strays = {} /\ misuse = {} /\ careless = {}

Defined == misuse = {}     \* no undefined behaviour so far

Just(x) == {x} \ {Nil}     \* the set of x, or nothing

----------------------------------------------------------------------------
(* What the handlers are made of                                           *)

(* client_seats[x->client()]->...                                          *)
SeatMisuse(X) == {<<"seat", ClientOf[x]>> : x \in {y \in X : ClientOf[y] \notin client_seats}}

(* on_focus and on_unfocus follow role_obj_, and set_activated then        *)
(* follows xdg_surface_                                                    *)
ToplevelMisuse(S) ==
  {<<"toplevel", ClientOf[s]>> : s \in {x \in S : role[x] \in Toplevels \ whole}}

(* The toplevels that the surfaces in S have now; and those in S lose      *)
(* theirs, one of them perhaps while it has the keyboard                   *)
ToplevelsOf(S) == {role[s] : s \in S} \cap toplevels
Displaced(S) == displaced' = displaced \cup ToplevelsOf(S \cap Just(keyboard_focused))

(* Calls of leave(), then of enter(), then an event to the things in X     *)
Tell(left, come, event, X) ==
  /\ entered' = (entered \ left) \cup come
  /\ strays' = ({"leave"} \X (left \ entered))
               \cup ({"enter"} \X (come \cap (entered \ left)))
               \cup ({event} \X (X \ ((entered \ left) \cup come)))

(* set_surface_as_cursor.  Slip: the old cursor stays where it was.        *)
TakeCursor(s) ==
  /\ cursor' = s
  /\ role' = IF s = Nil THEN role ELSE [role EXCEPT ![s] = "cursor"]
  /\ Displaced(Just(s))
ShowCursorBesideOld(s) ==
  IF cursor # Nil /\ cursor = s THEN UNCHANGED <<cursor, role, hidden, displaced>>
  ELSE TakeCursor(s) /\ hidden' = hidden \ Just(s)
ShowCursor(s) ==
  IF cursor # Nil /\ cursor = s THEN UNCHANGED <<cursor, role, hidden, displaced>>
  ELSE TakeCursor(s) /\ hidden' = (hidden \cup Just(cursor)) \ Just(s)

(* try_leave_keyboard, then on_focus and enter of s, if there is an s.     *)
(* Slips: the old toplevel stays activated; leave is not sent.             *)
FocusKeyboardQuietly(s) ==
  /\ keyboard_focused' = s
  /\ typing' = (typing \ Just(keyboard_focused)) \cup Just(s)
  /\ activated' = activated \cup ToplevelsOf(Just(s))
FocusKeyboardNoLeave(s) ==
  /\ keyboard_focused' = s
  /\ typing' = typing \cup Just(s)
  /\ activated' = (activated \ ToplevelsOf(Just(keyboard_focused))) \cup ToplevelsOf(Just(s))
FocusKeyboard(s) ==
  /\ keyboard_focused' = s
  /\ typing' = (typing \ Just(keyboard_focused)) \cup Just(s)
  /\ activated' = (activated \ ToplevelsOf(Just(keyboard_focused))) \cup ToplevelsOf(Just(s))
KeyboardMisuse(s) ==
  LET S == Just(keyboard_focused) \cup Just(s) IN SeatMisuse(S) \cup ToplevelMisuse(S)

(* check_intersection, with old for focused_obj.  No hit takes the focus   *)
(* and the cursor away.  Slip: set_focused_obj does not tell the old leave *)
Hittable == {x \in mapped : x \in Surfaces => role[x] # "cursor"}
CheckIntersectionNoLeave(old, hit) ==
  /\ hit \in Hittable \cup {Nil}
  /\ focused_obj' = hit
  /\ Tell(IF hit = Nil THEN Just(old) ELSE {}, Just(hit) \ {old}, "motion", Just(hit))
  /\ misuse' = SeatMisuse(Just(old) \cup Just(hit))
  /\ IF hit = Nil THEN ShowCursor(Nil) ELSE UNCHANGED <<cursor, role, hidden, displaced>>
CheckIntersection(old, hit) ==
  /\ hit \in Hittable \cup {Nil}
  /\ focused_obj' = hit
  /\ Tell(Just(old) \ {hit}, Just(hit) \ {old}, "motion", Just(hit))
  /\ misuse' = SeatMisuse(Just(old) \cup Just(hit))
  /\ IF hit = Nil THEN ShowCursor(Nil) ELSE UNCHANGED <<cursor, role, hidden, displaced>>

----------------------------------------------------------------------------
(* Input events                                                            *)

(* move_rel_pointing; a drag moves the object and tells nobody             *)
Move(hit) ==
  /\ Defined
  /\ \/ obj_state = "DEFAULT" /\ CheckIntersection(focused_obj, hit)
     \/ /\ obj_state = "MOVING" /\ hit = focused_obj
        /\ strays' = {}
        /\ UNCHANGED <<focused_obj, entered, misuse, cursor, role, hidden, displaced>>
  /\ UNCHANGED <<live, mapped, shellVars, clientVars, keyVars, obj_state, careless>>

(* handle_mouse_button: the end of a drag.  Slip: the focus stays.         *)
DropFocused(hit) ==
  /\ Defined /\ obj_state = "MOVING"
  /\ obj_state' = "DEFAULT"
  /\ CheckIntersection(focused_obj, hit)
  /\ UNCHANGED <<live, mapped, shellVars, clientVars, keyVars, careless>>
Drop(hit) ==
  /\ Defined /\ obj_state = "MOVING"
  /\ obj_state' = "DEFAULT"
  /\ CheckIntersection(Nil, hit)
  /\ UNCHANGED <<live, mapped, shellVars, clientVars, keyVars, careless>>

(* The release of a button otherwise, and the wheel                        *)
Forward(event) ==
  /\ Defined /\ focused_obj # Nil
  /\ Tell({}, {}, event, {focused_obj})
  /\ misuse' = SeatMisuse({focused_obj})
  /\ UNCHANGED <<surfaceVars, shellVars, clientVars, keyVars, focused_obj, obj_state, cursor, careless>>
Release == obj_state = "DEFAULT" /\ Forward("button")
Wheel == Forward("axis")

(* A button is pressed: on a surface, on an app, or on nothing             *)
Press ==
  /\ Defined
  /\ Tell({}, {}, "button", Just(focused_obj))
  /\ IF focused_obj \in Apps \/ focused_obj = keyboard_focused
     THEN misuse' = SeatMisuse(Just(focused_obj)) /\ UNCHANGED keyVars
     ELSE misuse' = KeyboardMisuse(focused_obj) /\ FocusKeyboard(focused_obj)
  /\ UNCHANGED <<surfaceVars, shellVars, clientVars, focused_obj, obj_state, cursor, careless>>

----------------------------------------------------------------------------
(* Requests                                                                *)

(* request_start_move, of any toplevel or app of the client that has the   *)
(* focus, a button pressed or not                                          *)
StartMove(c) ==
  /\ Defined /\ focused_obj # Nil /\ ClientOf[focused_obj] = c
  /\ Tell({focused_obj}, {}, "leave", {})
  /\ misuse' = SeatMisuse({focused_obj})
  /\ obj_state' = "MOVING"
  /\ UNCHANGED <<surfaceVars, shellVars, clientVars, keyVars, focused_obj, cursor, careless>>

(* wl_pointer.set_cursor, of a client that has the focus or not            *)
SetCursor(c, s) ==
  /\ Defined /\ c \in pointers
  /\ s \in {Nil} \cup {x \in live \cap Surfaces : ClientOf[x] = c}
  /\ ShowCursor(s)
  /\ strays' = {}
  /\ UNCHANGED <<live, mapped, shellVars, clientVars, keyVars, pointerVars, misuse, careless>>

Create(x) ==
  /\ Defined /\ x \notin live
  /\ live' = live \cup {x} /\ strays' = {}
  /\ UNCHANGED <<mapped, role, hidden, displaced, shellVars, clientVars, keyVars, pointerVars,
                 cursor, misuse, careless>>

(* A commit changes the texture or the regions, to something or to nothing *)
Commit(x) ==
  /\ Defined /\ x \in live /\ strays' = {}
  /\ \/ /\ mapped' = mapped \cup {x}
        /\ careless' = IF bound[ClientOf[x]] > 0 THEN careless
                       ELSE careless \cup {<<"seat", ClientOf[x]>>}
     \/ mapped' = mapped \ {x} /\ UNCHANGED careless
  /\ UNCHANGED <<live, role, hidden, displaced, shellVars, clientVars, keyVars, pointerVars,
                 cursor, misuse>>

(* get_toplevel, of an xdg_surface whose surface exists; it may have a     *)
(* toplevel already, which then is not its role_obj_ any more.  The new    *)
(* one has not been told anything.                                         *)
GetToplevel(s, t) ==
  /\ Defined /\ s \in live /\ strays' = {}
  /\ t \notin toplevels /\ \A x \in Surfaces : role[x] # t
  /\ ClientOf[t] = ClientOf[s]
  /\ toplevels' = toplevels \cup {t} /\ whole' = whole \cup {t}
  /\ role' = [role EXCEPT ![s] = t]
  /\ Displaced({s})
  /\ UNCHANGED <<live, mapped, hidden, clientVars, keyVars, pointerVars, cursor, misuse, careless>>

(* The toplevels in T, or what they need, go before their surfaces         *)
LeavePointers(T) ==
  careless' = careless \cup
    {<<"toplevel", ClientOf[s]>> : s \in {x \in Surfaces : role[x] \in T}}

DestroyToplevel(t) ==
  /\ Defined /\ t \in toplevels /\ strays' = {}
  /\ toplevels' = toplevels \ {t} /\ whole' = whole \ {t}
  /\ activated' = activated \ {t} /\ displaced' = displaced \ {t}
  /\ LeavePointers({t})
  /\ UNCHANGED <<live, mapped, role, hidden, clientVars, keyboard_focused, typing, pointerVars,
                 cursor, misuse>>

(* An xdg_surface is deleted; T are the toplevels it was asked for         *)
DestroyXdgSurface(T) ==
  /\ Defined /\ T # {} /\ T \subseteq whole /\ strays' = {}
  /\ \A t, u \in T : ClientOf[t] = ClientOf[u]
  /\ whole' = whole \ T
  /\ LeavePointers(T)
  /\ UNCHANGED <<surfaceVars, toplevels, clientVars, keyVars, pointerVars, cursor, misuse>>

(* Surfaces and apps are deleted; weak pointers to them lock no more.      *)
(* Slip: the pointers are not weak.                                        *)
Still(p, X) == p
Unless(p, X) == IF p \in X THEN Nil ELSE p
Delete(X) ==
  /\ live' = live \ X /\ mapped' = mapped \ X /\ hidden' = hidden \ X
  /\ role' = [s \in Surfaces |-> IF s \in X THEN "none" ELSE role[s]]
  /\ focused_obj' = Unless(focused_obj, X) /\ keyboard_focused' = Unless(keyboard_focused, X)
  /\ cursor' = Unless(cursor, X)
  /\ entered' = entered \ X /\ typing' = typing \ X
  /\ strays' = {}
  /\ UNCHANGED <<obj_state, misuse>>

Destroy(x) ==
  /\ Defined /\ x \in live
  /\ Delete({x})
  /\ Displaced({x})
  /\ UNCHANGED <<shellVars, clientVars, activated, careless>>

(* bind: emplace does nothing if there is an entry.  Slip: no emplace.     *)
BindSeatNoEntry(c) ==
  /\ Defined /\ bound[c] < MaxSeats /\ strays' = {}
  /\ bound' = [bound EXCEPT ![c] = @ + 1]
  /\ UNCHANGED <<surfaceVars, shellVars, client_seats, pointers, keyVars, pointerVars, cursor, misuse,
                 careless>>
BindSeat(c) ==
  /\ Defined /\ bound[c] < MaxSeats /\ strays' = {}
  /\ bound' = [bound EXCEPT ![c] = @ + 1]
  /\ client_seats' = client_seats \cup {c}
  /\ UNCHANGED <<surfaceVars, shellVars, pointers, keyVars, pointerVars, cursor, misuse, careless>>

(* destroy erases the entry, whichever wl_seat of the client it is for     *)
ReleaseSeat(c) ==
  /\ Defined /\ bound[c] > 0 /\ strays' = {}
  /\ bound' = [bound EXCEPT ![c] = @ - 1]
  /\ client_seats' = client_seats \ {c}
  /\ careless' = IF bound[c] > 1 \/ \E x \in live : ClientOf[x] = c
                 THEN careless \cup {<<"seat", c>>} ELSE careless
  /\ UNCHANGED <<surfaceVars, shellVars, pointers, keyVars, pointerVars, cursor, misuse>>

(* wl_seat.get_pointer, and release of the wl_pointer                      *)
GetPointer(c) ==
  /\ Defined /\ bound[c] > 0 /\ strays' = {}
  /\ IF c \in client_seats THEN pointers' = pointers \cup {c} /\ UNCHANGED misuse
     ELSE misuse' = {<<"seat", c>>} /\ UNCHANGED pointers
  /\ UNCHANGED <<surfaceVars, shellVars, bound, client_seats, keyVars, pointerVars, cursor,
                 careless>>
ReleasePointer(c) ==
  /\ Defined /\ c \in pointers /\ strays' = {}
  /\ pointers' = pointers \ {c}
  /\ UNCHANGED <<surfaceVars, shellVars, bound, client_seats, keyVars, pointerVars, cursor, misuse,
                 careless>>

(* zwn_seat.get_ray, and get_data_device of wl_data_device_manager: a      *)
(* client can ask for either without a wl_seat                             *)
GetRay(c) ==
  /\ Defined /\ strays' = {}
  /\ misuse' = IF c \in client_seats THEN misuse ELSE {<<"seat", c>>}
  /\ careless' = IF bound[c] > 0 THEN careless ELSE careless \cup {<<"seat", c>>}
  /\ UNCHANGED <<surfaceVars, shellVars, clientVars, keyVars, pointerVars, cursor>>

(* The client goes, and all it has                                         *)
ClientGone(c) ==
  LET own == {t \in Toplevels : ClientOf[t] = c} IN
  /\ Defined
  /\ Delete({x \in live : ClientOf[x] = c})
  /\ toplevels' = toplevels \ own /\ whole' = whole \ own
  /\ activated' = activated \ own /\ displaced' = displaced \ own
  /\ bound' = [bound EXCEPT ![c] = 0]
  /\ client_seats' = client_seats \ {c} /\ pointers' = pointers \ {c}
  /\ UNCHANGED careless

----------------------------------------------------------------------------
Next ==
  \/ \E hit \in Things \cup {Nil} : Move(hit) \/ Drop(hit)
  \/ Press \/ Release \/ Wheel
  \/ \E c \in Clients : StartMove(c) \/ \E s \in Surfaces \cup {Nil} : SetCursor(c, s)
  \/ \E x \in Things : Create(x) \/ Commit(x) \/ Destroy(x)
  \/ \E t \in Toplevels : DestroyToplevel(t) \/ \E s \in Surfaces : GetToplevel(s, t)
  \/ \E T \in SUBSET Toplevels : DestroyXdgSurface(T)
  \/ \E c \in Clients : BindSeat(c) \/ ReleaseSeat(c)
  \/ \E c \in Clients : GetPointer(c) \/ ReleasePointer(c) \/ GetRay(c) \/ ClientGone(c)

Spec == Init /\ [][Next]_vars

----------------------------------------------------------------------------
(* What was told enter() is what the seat has in focus, and during a drag  *)
(* nothing: a window never keeps a pointer that went elsewhere, and gets   *)
(* it back after a drag.                                                   *)
PointerAgrees ==
  entered = IF obj_state = "MOVING" THEN {} ELSE Just(focused_obj)

(* Events that were not called for (to something the pointer is not in, or *)
(* a second enter) only come during a drag: a button or the wheel to the   *)
(* dragged thing, or leave() again when another drag is requested.         *)
StraysAreDragged ==
  strays # {} => /\ obj_state = "MOVING"
                 /\ strays \subseteq {"leave", "button", "axis"} \X Just(focused_obj)

(* The surface that was sent wl_keyboard.enter is the focused one          *)
KeyboardAgrees == typing = Just(keyboard_focused)

(* A toplevel is left activated only as that of the surface that has the   *)
(* keyboard, or for good because it ceased to be that: on_unfocus asks the *)
(* role_obj_ of the moment, and while the surface had the keyboard it was  *)
(* made a cursor, given another toplevel or destroyed.                     *)
OneActivated == activated \subseteq displaced \cup ToplevelsOf(Just(keyboard_focused))

(* A surface shown as the cursor is the seat's cursor: whatever took the   *)
(* cursor away hid the old one.                                            *)
OneCursor == \A s \in live \cap Surfaces : role[s] = "cursor" /\ s \notin hidden => s = cursor

(* A seat or toplevel that is not there is only followed for a client that *)
(* mapped something, or asked for a ray or a data device, without binding  *)
(* a wl_seat, that released one of two or with something left, or that     *)
(* destroyed a toplevel or its xdg_surface before the surface.             *)
MisuseHasCause == misuse \subseteq careless
=============================================================================

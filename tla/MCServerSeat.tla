----------------------------- MODULE MCServerSeat -----------------------------
(* One client with two windows, either of which may be its cursor, and     *)
(* with apps or a second toplevel: what matters of clients is which things *)
(* and seats are theirs.                                                   *)
EXTENDS ServerSeat, FiniteSets, TLC

SeatClientOf == [x \in Things \cup Toplevels |-> CHOOSE c \in Clients : TRUE]

(* Bounds: what a client has is one of the following.                      *)
(* Surfaces, apps, and at most one toplevel at a time                      *)
ToplevelsUsed == (toplevels \cup {role[s] : s \in Surfaces}) \ {"none", "cursor"}
OneToplevel == Cardinality(ToplevelsUsed) <= 1 /\ \A c \in Clients : bound[c] <= 1
(* Surfaces and toplevels                                                  *)
OnlyWindows == live \subseteq Surfaces /\ \A c \in Clients : bound[c] <= 1
(* Surfaces, apps, and more than one seat                                  *)
NoToplevel == ToplevelsUsed = {}

Bounds == OneToplevel \/ OnlyWindows \/ NoToplevel

Twins == Permutations(Surfaces) \cup Permutations(Toplevels)
=============================================================================

---------------------------- MODULE MCSurfaceStack ----------------------------
(* SurfaceStack for TLC: two surfaces with textures, or three without.     *)
EXTENDS SurfaceStack, TLC

CONSTANT Third   \* one of the surfaces

(* Bounds: while the third surface is there, which it then stays, none has *)
(* ever had a texture or an offset                                         *)
Blank(r)   == r.size = Nil /\ r.offset = 0 /\ r.pendingOffset = Nil
Bounds     == Third \in live => \A s \in Surfaces : Blank(surface[s])
ThirdStays == Third \in live => Third \in live'

(* The others are alike, and so are textures                               *)
Twins == Permutations(Surfaces \ {Third}) \cup Permutations(Textures)
=============================================================================

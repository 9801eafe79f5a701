----------------------------- MODULE MCInputThread -----------------------------
(* InputThread for TLC                                                     *)
EXTENDS InputThread

(* Bounds: a stream that was read in other portions than whole events is   *)
(* handled by a server without surfaces                                    *)
Bounds == split => Surfaces \cap created = {}
=============================================================================

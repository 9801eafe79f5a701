----------------------------- MODULE SceneMirror -----------------------------
(***************************************************************************)
(* What the mirroring of a scene promises: while a session is up, its peer *)
(* shows exactly the committed scene, from the moment the session comes up *)
(* and at every change; without a session nothing is shown.                *)
(***************************************************************************)
CONSTANT Nothing
VARIABLES connected, scene, shown

Init == connected = FALSE /\ scene = Nothing /\ shown = Nothing

Change ==
  /\ connected' = connected
  /\ shown' = IF connected THEN scene' ELSE Nothing

Connect ==
  /\ ~connected /\ connected'
  /\ scene' = scene /\ shown' = scene

Disconnect ==
  /\ connected /\ ~connected'
  /\ scene' = scene /\ shown' = Nothing

Next == Change \/ Connect \/ Disconnect
Spec == Init /\ [][Next]_<<connected, scene, shown>>
=============================================================================

---------------------------- MODULE MCJobEvents ----------------------------
(* Small instances of JobEvents for TLC. *)
EXTENDS JobEvents, TLC

CONSTANTS j1, s1, h1

OneJob == {j1}
OneSlot == {s1}
OneHost == {h1}
Transcribe1 == j1 :> "transcribe"
Slot1Host == s1 :> h1
=============================================================================

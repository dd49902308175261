----------------------------- MODULE MCJobQueue -----------------------------
(* Small instances of JobQueue for TLC. *)
EXTENDS JobQueueProps, TLC

CONSTANTS j1, s1, s2, h1, h2

OneJob == {j1}
OneSlot == {s1}
TwoSlots == {s1, s2}
TwoHosts == {h1, h2}
Transcribe1 == j1 :> "transcribe"
SlotsShareHost == (s1 :> h1) @@ (s2 :> h1)
Slot1Host == s1 :> h1
=============================================================================

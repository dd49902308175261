------------------------- MODULE MCTranscriptReview -------------------------
(* Small instances of TranscriptReview for TLC. *)
EXTENDS TranscriptReview, TLC

CONSTANTS j1, s1, s2, h1, h2, k1, k2

OneJob == {j1}
OneSlot == {s1}
TwoHosts == {h1, h2}
TwoVoices == {k1, k2}
Transcribe1 == j1 :> "transcribe"
Slot1Host == s1 :> h1
=============================================================================

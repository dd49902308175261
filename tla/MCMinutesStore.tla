--------------------------- MODULE MCMinutesStore ---------------------------
(* Small instances of MinutesStore for TLC. *)
EXTENDS MinutesStore, TLC

CONSTANTS s1, s2, h1, h2, r1, r2, p1, p2

TwoJobs == {1, 2}
OneSlot == {s1}
OneHost == {h1}
Slot1Host == s1 :> h1
AllSummarize == [j \in Job |-> "summarize"]
TwoRequests == {r1, r2}
OnePatch == {p1}
=============================================================================

---------------------------- MODULE MCMeetingList ----------------------------
(* Small instances of MeetingList for TLC. *)
EXTENDS MeetingList, TLC

CONSTANTS s1, h1

TwoJobs == {1, 2}
OneOfEach == <<"transcribe", "summarize">>
OneSlot == {s1}
OneHost == {h1}
Slot1Host == s1 :> h1
=============================================================================

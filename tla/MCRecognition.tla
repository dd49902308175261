---------------------------- MODULE MCRecognition ----------------------------
(* Instance of Recognition for TLC, and has_repeat_run against Repeats on    *)
(* every text of up to MaxWords words over two letters.                      *)
EXTENDS Recognition

CONSTANTS MaxWords, MaxLetters

Hello == <<<<1>>, <<2>>>>
Thanks == <<<<2, 1>>>>
AcrossWords == <<<<1, 2>>, <<2>>, <<2, 1>>>>
Said == {Hello, Thanks, AcrossWords, <<>>}
Canned == {Thanks}
Terms == <<<<1, 1>>, <<2, 2>>, <<1, 1>>>>

BoundedTexts ==
  LET Word == UNION {[1 .. n -> {1, 2}] : n \in 1 .. MaxLetters}
  IN UNION {[1 .. n -> Word] : n \in 0 .. MaxWords}
ASSUME HasRepeatRunChecked == \A t \in BoundedTexts : HasRepeatRun(t) <=> Repeats(t)
=============================================================================

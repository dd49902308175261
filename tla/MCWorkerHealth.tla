--------------------------- MODULE MCWorkerHealth ---------------------------
(* Small instances of WorkerHealth for TLC. *)
EXTENDS WorkerHealth, TLC

CONSTANTS w1, w2

ApiAndTwo == {Api, w1, w2}
TwoFiles == <<2, 1>>
=============================================================================

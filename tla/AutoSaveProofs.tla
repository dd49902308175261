--------------------------- MODULE AutoSaveProofs ---------------------------
(***************************************************************************)
(* Proofs about the autosave, for every number of edits and of failures.   *)
(***************************************************************************)
EXTENDS AutoSave, TLAPS

\* The types, and what is typed is at most what may be.
STypeOK ==
  /\ typed \in Nat /\ saved \in Nat /\ fails \in Nat /\ pending \in Nat
  /\ timer \in BOOLEAN /\ inFlight \in BOOLEAN
  /\ status \in {"idle", "dirty", "saving", "saved", "error"}
  /\ page \in {"open", "left", "closed"}
  /\ calls \subseteq [value : Nat, at : {"sent", "stored", "failed"}]

\* What is owed is the latest edit; one request at a time is out, its value
\* between the server's and the editor's.
CallsOK ==
  /\ pending \in {0, typed}
  /\ saved <= typed
  /\ \A c, d \in calls : c = d
  /\ \A c \in calls : /\ saved <= c.value /\ c.value <= typed
                      /\ pending = 0 => c.value = typed
                      /\ c.at = "stored" => saved = c.value
                      /\ c.at = "failed" => fails > 0

\* inFlight.current is set while a request is out, as long as the tab is there.
FlightOK == page # "closed" => (inFlight <=> calls # {})

\* The status line without a warning: nothing is owed and nothing is out, and
\* it tells how the last save ended.
StatusOK ==
  /\ ~Warned => pending = 0 /\ calls = {}
  /\ status = "idle" => saved = typed
  /\ status = "saved" => saved = typed
  /\ status = "error" => fails > 0
  /\ page = "closed" => timer = FALSE
  /\ page # "closed" /\ pending = 0 /\ calls = {} => saved = typed \/ status = "error"

SInv == STypeOK /\ CallsOK /\ FlightOK /\ StatusOK

LEMMA SInvInit == SInit => SInv
<1> SUFFICES ASSUME SInit PROVE SInv
  OBVIOUS
<1>1. STypeOK
  BY DEF SInit, STypeOK
<1>2. CallsOK
  BY DEF SInit, CallsOK
<1>3. FlightOK
  BY DEF SInit, FlightOK
<1>4. StatusOK
  BY DEF SInit, StatusOK, Warned
<1> QED BY <1>1, <1>2, <1>3, <1>4 DEF SInv

\* A step that leaves the requests and inFlight alone.
LEMMA FlightStays ==
  FlightOK /\ UNCHANGED <<inFlight, calls>> /\ page # "closed" => FlightOK'
BY DEF FlightOK

\* A request that went out alone, with the latest edit.
LEMMA SentAlone ==
  ASSUME SInv, pending # 0, UNCHANGED <<typed, saved, fails, page>>, page # "closed",
         timer' \in BOOLEAN, pending' = 0, inFlight' = TRUE, status' = "saving",
         calls' = {[value |-> pending, at |-> "sent"]}
  PROVE  SInv'
<1>1. STypeOK'
  BY DEF SInv, STypeOK
<1>2. pending = typed /\ saved <= typed
  BY DEF SInv, CallsOK
<1>3. CallsOK'
  BY <1>2 DEF SInv, STypeOK, CallsOK
<1>4. FlightOK'
  BY DEF FlightOK
<1>5. StatusOK'
  BY DEF StatusOK, Warned
<1> QED BY <1>1, <1>3, <1>4, <1>5 DEF SInv

\* A save that begins finds no other out.
LEMMA RunKeeps ==
  ASSUME SInv, Run, UNCHANGED <<typed, saved, fails, page>>,
         page # "closed", timer' = FALSE
  PROVE  SInv'
<1>a. STypeOK /\ CallsOK /\ FlightOK /\ StatusOK
  BY DEF SInv
<1>1. CASE inFlight \/ pending = 0
  <2>1. UNCHANGED <<pending, inFlight, status, calls>>
    BY <1>1 DEF Run
  <2>2. STypeOK' /\ CallsOK' /\ StatusOK'
    BY <1>a, <2>1 DEF STypeOK, CallsOK, StatusOK, Warned
  <2> QED BY <1>a, <2>1, <2>2, FlightStays DEF SInv
<1>2. CASE ~inFlight /\ pending # 0
  <2>1. calls = {}
    BY <1>a, <1>2 DEF FlightOK
  <2>2. calls' = {[value |-> pending, at |-> "sent"]}
    BY <1>2, <2>1 DEF Run
  <2> QED BY <1>2, <2>2, SentAlone DEF Run
<1> QED BY <1>1, <1>2

LEMMA SInvNext == SInv /\ [SNext]_vars => SInv'
<1> SUFFICES ASSUME SInv, [SNext]_vars PROVE SInv'
  OBVIOUS
<1>a. STypeOK /\ CallsOK /\ FlightOK /\ StatusOK
  BY DEF SInv
<1>1. CASE Type
  <2>1. STypeOK' /\ CallsOK' /\ StatusOK'
    BY <1>a, <1>1, SaveAssumption DEF Type, STypeOK, CallsOK, StatusOK, Warned
  <2> QED BY <1>a, <1>1, <2>1, FlightStays DEF Type, SInv
<1>2. CASE TimerFires
  BY <1>a, <1>2, RunKeeps DEF TimerFires, StatusOK
<1>3. CASE Generate
  BY <1>a, <1>3, RunKeeps DEF Generate
<1>4. CASE Leave
  <2>1. STypeOK' /\ CallsOK' /\ StatusOK'
    BY <1>a, <1>4 DEF Leave, STypeOK, CallsOK, StatusOK, Warned
  <2> QED BY <1>a, <1>4, <2>1, FlightStays DEF Leave, SInv
<1>9. CASE CloseTab
  <2>1. calls' \in {calls, {}} /\ page' = "closed" /\ timer' = FALSE
    BY <1>9 DEF CloseTab
  <2>2. UNCHANGED <<typed, pending, inFlight, status, saved, fails>>
    BY <1>9 DEF CloseTab
  <2>3. STypeOK' /\ CallsOK' /\ StatusOK'
    BY <1>a, <2>1, <2>2 DEF STypeOK, CallsOK, StatusOK, Warned
  <2> QED BY <2>1, <2>3 DEF FlightOK, SInv
<1>5. ASSUME NEW c \in calls, Answer(c) PROVE SInv'
  <2>1. calls = {c}
    BY <1>a DEF CallsOK
  <2>2. CASE pending # 0
    <3>1. calls' = {[value |-> pending, at |-> "sent"]}
      BY <1>5, <2>1, <2>2 DEF Answer
    <3>2. inFlight' = TRUE
      BY <1>a, <1>5, <2>2 DEF Answer, FlightOK, STypeOK
    <3> QED BY <1>a, <1>5, <2>2, <3>1, <3>2, SentAlone DEF Answer, STypeOK
  <2>3. CASE pending = 0
    <3>1. calls' = {} /\ c.value = typed
      BY <1>a, <1>5, <2>1, <2>3 DEF Answer, CallsOK
    <3>2. c.at \in {"stored", "failed"}
      BY <1>a, <1>5 DEF Answer, STypeOK
    <3>3. inFlight' = FALSE
      BY <1>5, <2>3 DEF Answer
    <3>4. STypeOK' /\ CallsOK' /\ StatusOK'
      BY <1>a, <1>5, <2>3, <3>1, <3>2
      DEF Answer, STypeOK, CallsOK, StatusOK, Warned
    <3>5. FlightOK'
      BY <3>1, <3>3 DEF FlightOK
    <3> QED BY <3>4, <3>5 DEF SInv
  <2> QED BY <2>2, <2>3
<1>6. ASSUME NEW c \in calls, NEW at \in {"stored", "failed"},
             calls' = (calls \ {c}) \cup {[c EXCEPT !.at = at]},
             UNCHANGED <<typed, pending, timer, inFlight, status, page>>,
             \/ (at = "stored" /\ saved' = c.value /\ fails' = fails)
             \/ (at = "failed" /\ saved' = saved /\ fails' = fails + 1)
      PROVE  SInv'
  <2>1. calls = {c}
    BY <1>a DEF CallsOK
  <2>2. c \in [value : Nat, at : {"sent", "stored", "failed"}]
    BY <1>a DEF STypeOK
  <2>3. calls' = {[value |-> c.value, at |-> at]}
    BY <1>6, <2>1, <2>2
  <2>4. STypeOK'
    BY <1>a, <1>6, <2>2, <2>3 DEF STypeOK
  <2>5. /\ pending \in {0, typed} /\ saved <= typed
        /\ saved <= c.value /\ c.value <= typed
        /\ pending = 0 => c.value = typed
    BY <1>a DEF CallsOK
  <2>6. CallsOK'
    BY <1>6, <2>2, <2>3, <2>5, <1>a DEF STypeOK, CallsOK
  <2>7. FlightOK'
    BY <1>a, <1>6, <2>3 DEF FlightOK
  <2>8. StatusOK'
    BY <1>a, <1>6, <2>1, <2>3 DEF STypeOK, StatusOK, Warned
  <2> QED BY <2>4, <2>6, <2>7, <2>8 DEF SInv
<1>7. CASE UNCHANGED vars
  <2>1. STypeOK' /\ CallsOK' /\ StatusOK'
    BY <1>a, <1>7 DEF vars, STypeOK, CallsOK, StatusOK, Warned
  <2>2. FlightOK'
    BY <1>a, <1>7 DEF vars, FlightOK
  <2> QED BY <2>1, <2>2 DEF SInv
<1>8. ASSUME NEW c \in calls, Store(c) \/ Fail(c) PROVE SInv'
  BY <1>6, <1>8 DEF Store, Fail
<1> QED BY <1>1, <1>2, <1>3, <1>4, <1>5, <1>7, <1>8, <1>9 DEF SNext

LEMMA Invariant == SSpec => []SInv
BY SInvInit, SInvNext, PTL DEF SSpec

\* However edits, saves and failures interleave, "saved" on the status line
\* means that the server has what the editor shows.
THEOREM SavedHolds == SSpec => []SavedIsTrue
<1>1. SInv => SavedIsTrue
  BY DEF SInv, StatusOK, SavedIsTrue
<1> QED BY <1>1, Invariant, PTL

\* A tab closed on the screen itself, without a warning, loses nothing that the
\* status line does not report as an error; one closed elsewhere, nothing but
\* what was still owed, or on its way, when the screen was left.
THEOREM CloseHolds == SSpec => ClosingLosesNothing
<1> DEFINE Told == \/ saved = typed \/ status = "error"
                   \/ page = "left" /\ (pending # 0 \/ calls # {})
<1>1. SInv /\ [SNext]_vars => [page # "closed" /\ page' = "closed" => Told]_vars
  <2> SUFFICES ASSUME SInv, SNext, page # "closed", page' = "closed" PROVE Told
    OBVIOUS
  <2>1. ASSUME NEW c \in calls, Answer(c) \/ Store(c) \/ Fail(c) PROVE page' = page
    BY <2>1 DEF Answer, Store, Fail
  <2>2. CASE Type \/ TimerFires \/ Generate \/ Leave
    BY <2>2 DEF Type, TimerFires, Generate, Leave
  <2>3. CASE CloseTab
    BY <2>3 DEF CloseTab, SInv, STypeOK, StatusOK, Warned
  <2> QED BY <2>1, <2>2, <2>3 DEF SNext
<1> QED BY <1>1, Invariant, PTL DEF SSpec, ClosingLosesNothing

\* No save overtakes another: an older value never replaces a newer one.
THEOREM NeverGoesBack == SSpec => ServerNeverGoesBack
<1>1. SInv /\ [SNext]_vars => [saved' >= saved]_vars
  <2> SUFFICES ASSUME SInv, SNext PROVE saved' >= saved
    OBVIOUS
  <2>1. ASSUME NEW c \in calls, Store(c) PROVE saved' >= saved
    BY <2>1 DEF Store, SInv, STypeOK, CallsOK
  <2>2. ASSUME NEW c \in calls, Answer(c) \/ Fail(c) PROVE saved' = saved
    BY <2>2 DEF Answer, Fail
  <2>3. CASE Type \/ TimerFires \/ Generate \/ Leave \/ CloseTab
    BY <2>3 DEF SInv, STypeOK, Type, TimerFires, Generate, Leave, CloseTab
  <2> QED BY <2>1, <2>2, <2>3 DEF SNext, SInv, STypeOK
<1> QED BY <1>1, Invariant, PTL DEF SSpec, ServerNeverGoesBack
=============================================================================

------------------------------ MODULE AutoSave ------------------------------
(***************************************************************************)
(* The debounced autosave of the review and minutes screens                *)
(* (web useDebouncedSave), the PATCH requests it sends, and the review     *)
(* page's "generate" button, which flushes it and asks for the minutes     *)
(* (ReviewPage generate).                                                  *)
(*                                                                         *)
(* Every save sends the whole value, so a value is the number of the edit  *)
(* that made it.  The JavaScript between two awaits is one step.           *)
(***************************************************************************)
EXTENDS Naturals

CONSTANTS
  MaxEdits,    \* bound: edits typed
  MaxFails     \* bound: requests or answers lost, or refused by the server

ASSUME SaveAssumption == MaxEdits \in Nat /\ MaxFails \in Nat

VARIABLES
  typed,       \* the value in the editor
  pending,     \* pending.current: the value to save next, 0 for null
  timer,       \* the timeout is set
  inFlight,    \* inFlight.current
  status,      \* the status line
  page,        \* "open", "left" for another screen, or "closed" with the tab
  calls,       \* PATCH requests: value, and how far it got
  saved,       \* the value on the server
  fails        \* failures so far

vars == <<typed, pending, timer, inFlight, status, page, calls, saved, fails>>

SInit == /\ typed = 0 /\ pending = 0 /\ timer = FALSE /\ inFlight = FALSE
         /\ status = "idle" /\ page = "open"
         /\ calls = {} /\ saved = 0 /\ fails = 0

WarnedSaving == status = "saving"

\* The beforeunload listener is there.
Warned == status \in {"dirty", "saving"}
-----------------------------------------------------------------------------
RunAnyway ==
  IF pending = 0
    THEN UNCHANGED <<pending, inFlight, status, calls>>
    ELSE /\ pending' = 0 /\ inFlight' = TRUE /\ status' = "saving"
         /\ calls' = calls \cup {[value |-> pending, at |-> "sent"]}

\* run(), up to its await: one save at a time.
Run ==
  IF inFlight \/ pending = 0
    THEN UNCHANGED <<pending, inFlight, status, calls>>
    ELSE /\ pending' = 0 /\ inFlight' = TRUE /\ status' = "saving"
         /\ calls' = calls \cup {[value |-> pending, at |-> "sent"]}

\* An edit: schedule() the new value.
Type ==
  /\ page = "open"
  /\ typed < MaxEdits
  /\ typed' = typed + 1
  /\ pending' = typed + 1
  /\ status' = "dirty"
  /\ timer' = TRUE
  /\ UNCHANGED <<inFlight, page, calls, saved, fails>>

TimerFires ==
  /\ timer
  /\ timer' = FALSE
  /\ Run
  /\ UNCHANGED <<typed, page, saved, fails>>

AnswerForgetful(c) ==
  /\ c \in calls /\ c.at # "sent" /\ page # "closed"
  /\ inFlight' = FALSE
  /\ calls' = calls \ {c}
  /\ status' = IF c.at = "failed" THEN "error" ELSE "saved"
  /\ UNCHANGED <<typed, pending, timer, page, saved, fails>>

\* run(), after its await: report, and go again if another value is owed.
Answer(c) ==
  /\ c \in calls /\ c.at # "sent" /\ page # "closed"
  /\ IF pending # 0
       THEN /\ pending' = 0
            /\ calls' = (calls \ {c}) \cup {[value |-> pending, at |-> "sent"]}
            /\ status' = "saving"
            /\ UNCHANGED inFlight
       ELSE /\ inFlight' = FALSE
            /\ calls' = calls \ {c}
            /\ status' = IF c.at = "failed" THEN "error" ELSE "saved"
            /\ UNCHANGED pending
  /\ UNCHANGED <<typed, timer, page, saved, fails>>

\* The server handles a PATCH; or the request, or its answer, fails.
Store(c) ==
  /\ c \in calls /\ c.at = "sent"
  /\ saved' = c.value
  /\ calls' = (calls \ {c}) \cup {[c EXCEPT !.at = "stored"]}
  /\ UNCHANGED <<typed, pending, timer, inFlight, status, page, fails>>

Fail(c) ==
  /\ c \in calls /\ c.at # "failed"
  /\ fails < MaxFails
  /\ fails' = fails + 1
  /\ calls' = (calls \ {c}) \cup {[c EXCEPT !.at = "failed"]}
  /\ UNCHANGED <<typed, pending, timer, inFlight, status, page, saved>>
-----------------------------------------------------------------------------
\* "Generate": flush(), and POST /summarize without waiting for the save.
Generate ==
  /\ page = "open"
  /\ timer' = FALSE
  /\ Run
  /\ UNCHANGED <<typed, page, saved, fails>>

\* A link of the application, or the answer to "generate", takes the screen
\* away.  Unmounting clears the timer; a run() that is waiting still finishes.
Leave ==
  /\ page = "open"
  /\ page' = "left"
  /\ timer' = FALSE
  /\ UNCHANGED <<typed, pending, inFlight, status, calls, saved, fails>>

\* On the screen the user heeds the beforeunload warning; elsewhere there is
\* none.  A request that is out is aborted with the tab, or handled yet.
CloseTab ==
  /\ page = "left" \/ (page = "open" /\ ~Warned)
  /\ page' = "closed"
  /\ timer' = FALSE
  /\ calls' \in {calls, {}}
  /\ UNCHANGED <<typed, pending, inFlight, status, saved, fails>>

SNext ==
  \/ Type \/ TimerFires \/ Generate \/ Leave \/ CloseTab
  \/ \E c \in calls : Answer(c) \/ Store(c) \/ Fail(c)

\* Timers fire, requests are handled or fail, answers are delivered.
SSpec == SInit /\ [][SNext]_vars
SFairSpec == SSpec /\ WF_vars(TimerFires)
             /\ WF_vars(\E c \in calls : Store(c) \/ Fail(c))
             /\ WF_vars(\E c \in calls : Answer(c))
-----------------------------------------------------------------------------
\* "Saved" on the status line means the server has what the editor shows,
\* whatever was typed during the save, and whatever failed before it.
SavedIsTrue == status = "saved" => saved = typed

\* Saves do not overtake each other: an older value never replaces a newer.
ServerNeverGoesBack == [][saved' >= saved]_vars

\* A tab closed on the screen itself, so without a warning, loses nothing the
\* status line does not report as an error.  One closed elsewhere loses no more
\* than what was still owed, or on its way, when the screen was left: of that the
\* closing is not warned.
ClosingLosesNothing ==
  [][page # "closed" /\ page' = "closed" =>
       \/ saved = typed \/ status = "error"
       \/ page = "left" /\ (pending # 0 \/ calls # {})]_vars

\* The screen was left before the timer fired, and no save was under way whose
\* end would have sent this value too: nobody sends it any more.
Dropped == page = "left" /\ pending # 0 /\ ~inFlight

\* What is typed is saved shortly after, also what was typed or flushed during
\* a save and then left to it, unless a save fails, the value was dropped with
\* the screen, or the tab was closed.
TypingIsSaved ==
  typed > saved ~> saved = typed \/ fails > 0 \/ Dropped \/ page = "closed"

\* Not so (see the README): the hook "blocks the tab from closing while a save is
\* still owed", for its timer or for its answer, ...
OwedBlocksClosing ==
  [][page # "closed" /\ page' = "closed" => pending = 0 /\ calls = {}]_vars

\* ... nor, once a save has failed, while the server lacks the value.
UnsavedIsGuarded == page = "open" /\ saved # typed => Warned
=============================================================================

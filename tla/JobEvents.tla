----------------------------- MODULE JobEvents -----------------------------
(***************************************************************************)
(* What the meeting page shows of a running job: the server-sent events    *)
(* of routes/events.py, the hook that subscribes to them (useJobEvents),   *)
(* and the page that falls back to polling (MeetingPage).  Composed with   *)
(* JobQueue: the stream reads the row the workers write.  One meeting, one *)
(* job, one page kept open.                                                *)
(*                                                                         *)
(* A frame carries the stage; progress and detail change nothing here.     *)
(* Frames arrive in the order they were sent, or the connection is lost.   *)
(***************************************************************************)
EXTENDS JobQueue, Sequences

CONSTANTS
  MaxRetries,   \* MAX_RETRIES
  MaxDrops,     \* bound: transport failures in a behaviour
  MaxWire       \* bound: frames in flight

ASSUME EventsAssumption == /\ Cardinality(Job) = 1
                           /\ {MaxRetries, MaxDrops, MaxWire} \subseteq Nat

VARIABLES
  data,       \* the stage of the meeting query's data, "none" before the first
  refetch,    \* that query is to be sent: the page was opened, or invalidated it
  failed,     \* its isError: the page shows a message instead of the job
  hook,       \* useJobEvents: status, event, retries
  socket,     \* its EventSource
  stream,     \* the stream_job generator that serves it: running?, last event
  wire,       \* frames on the way
  orphans,    \* generators whose client has gone, and which do not know yet
  drops       \* transport failures so far

dvars == <<data, refetch, failed, hook, socket, stream, wire, orphans, drops>>
vars == <<qvars, dvars>>

LiveStages == Stage \ Terminal
J == CHOOSE j \in Job : TRUE
Off == [on |-> FALSE, last |-> "none"]

EInit == /\ Init
         /\ data = "none" /\ refetch = TRUE /\ failed = FALSE
         /\ hook = [status |-> "idle", event |-> "none", retries |-> 0]
         /\ socket = "none"
         /\ stream = Off /\ wire = <<>>
         /\ orphans = 0 /\ drops = 0

\* The page prefers the last event to the fetched row, and polls when it
\* believes the job running and the stream lost.
Shown == IF hook.event # "none" THEN hook.event ELSE data
Polling == hook.status = "lost" /\ Shown \in LiveStages

\* The connection ends; its generator finds out at its next turn.
Hangup == /\ stream' = Off
          /\ wire' = <<>>
          /\ orphans' = orphans + (IF stream.on THEN 1 ELSE 0)
-----------------------------------------------------------------------------
Fetched == IF Exists(J) THEN jobs[J].stage ELSE data

Asking == jobs[J].stage # "unborn" /\ (refetch \/ Polling)

\* The meeting query: on mount, when invalidated, and while polling.  A 404
\* keeps the data there was.  The effect of the hook runs again when `enabled`
\* changes with the new data, and leaves `event` alone.
FetchMeeting ==
  /\ Asking
  /\ refetch' = FALSE
  /\ data' = Fetched
  /\ failed' = ~Exists(J)
  /\ LET was == data \in LiveStages
         enabled == data' \in LiveStages
     IN CASE enabled /\ ~was ->
               /\ hook' = [hook EXCEPT !.status = "connecting", !.retries = 0]
               /\ socket' = "connecting"
               /\ UNCHANGED <<stream, wire, orphans>>
          [] was /\ ~enabled ->
               /\ hook' = [hook EXCEPT !.status = "idle"]
               /\ socket' = "none"
               /\ Hangup
          [] OTHER -> UNCHANGED <<hook, socket, stream, wire, orphans>>
  /\ UNCHANGED <<qvars, drops>>

\* The query and its one retry fail: it has an error, keeps its data, and is
\* not sent again unless the page polls.
FailFetch ==
  /\ Asking
  /\ drops < MaxDrops
  /\ drops' = drops + 1
  /\ refetch' = FALSE
  /\ failed' = TRUE
  /\ UNCHANGED <<qvars, data, hook, socket, stream, wire, orphans>>

\* GET /jobs/{id}/events: onopen, or a 404, on which EventSource gives up.
Connect ==
  /\ socket = "connecting"
  /\ IF Exists(J)
       THEN /\ socket' = "open"
            /\ stream' = [on |-> TRUE, last |-> "none"]
            /\ hook' = [hook EXCEPT !.status = "live", !.retries = 0]
       ELSE /\ socket' = "none"
            /\ hook' = [hook EXCEPT !.status = "lost"]
            /\ UNCHANGED stream
  /\ UNCHANGED <<qvars, data, refetch, failed, wire, orphans, drops>>

\* One turn of stream_job that has something to say; `end` and `gone` are its
\* last words.
Frame ==
  CASE ~Exists(J) -> [name |-> "gone", stage |-> "none"]
    [] jobs[J].stage \in Terminal -> [name |-> "end", stage |-> jobs[J].stage]
    [] OTHER -> [name |-> "job", stage |-> jobs[J].stage]

Send ==
  /\ stream.on
  /\ Frame.name = "job" => Frame.stage # stream.last
  /\ Len(wire) < MaxWire
  /\ wire' = Append(wire, Frame)
  /\ stream' = [on |-> Frame.name = "job", last |-> Frame.stage]
  /\ UNCHANGED <<qvars, data, refetch, failed, hook, socket, orphans, drops>>

\* One turn of a stream_job whose client has disconnected.
Notice ==
  /\ orphans > 0
  /\ orphans' = orphans - 1
  /\ UNCHANGED <<qvars, data, refetch, failed, hook, socket, stream, wire, drops>>

DeliverJob ==
  /\ socket = "open" /\ wire # <<>> /\ Head(wire).name = "job"
  /\ wire' = Tail(wire)
  /\ hook' = [status |-> "live", event |-> Head(wire).stage, retries |-> 0]
  /\ UNCHANGED <<qvars, data, refetch, failed, socket, stream, orphans, drops>>

DeliverLastNoClose ==
  /\ socket = "open" /\ wire # <<>> /\ Head(wire).name \in {"end", "gone"}
  /\ wire' = Tail(wire)
  /\ hook' = [hook EXCEPT !.status = "ended",
                !.event = IF Head(wire).name = "end" THEN Head(wire).stage ELSE @]
  /\ socket' = "connecting"
  /\ UNCHANGED <<qvars, data, refetch, failed, stream, orphans, drops>>

DeliverLastNoRefetch ==
  /\ socket = "open" /\ wire # <<>> /\ Head(wire).name \in {"end", "gone"}
  /\ wire' = Tail(wire)
  /\ hook' = [hook EXCEPT !.status = "ended",
                !.event = IF Head(wire).name = "end" THEN Head(wire).stage ELSE @]
  /\ socket' = "none"
  /\ UNCHANGED <<qvars, data, refetch, failed, stream, orphans, drops>>

\* finish(): close the socket, and have the page refetch the meeting.  A mere
\* close by the server would make EventSource reconnect.
DeliverLast ==
  /\ socket = "open" /\ wire # <<>> /\ Head(wire).name \in {"end", "gone"}
  /\ wire' = Tail(wire)
  /\ hook' = [hook EXCEPT !.status = "ended",
                !.event = IF Head(wire).name = "end" THEN Head(wire).stage ELSE @]
  /\ socket' = "none"
  /\ refetch' = TRUE
  /\ UNCHANGED <<qvars, data, failed, stream, orphans, drops>>

\* A transport failure: EventSource reconnects, until the hook has had enough.
Fail ==
  /\ socket # "none"
  /\ drops < MaxDrops
  /\ drops' = drops + 1
  /\ Hangup
  /\ IF hook.retries + 1 > MaxRetries
       THEN /\ hook' = [hook EXCEPT !.status = "lost", !.retries = @ + 1]
            /\ socket' = "none"
       ELSE /\ hook' = [hook EXCEPT !.status = "connecting", !.retries = @ + 1]
            /\ socket' = "connecting"
  /\ UNCHANGED <<qvars, data, refetch, failed>>

\* A status other than 200: EventSource gives up at once.
Refuse ==
  /\ socket = "connecting"
  /\ drops < MaxDrops
  /\ drops' = drops + 1
  /\ socket' = "none"
  /\ hook' = [hook EXCEPT !.status = "lost"]
  /\ UNCHANGED <<qvars, data, refetch, failed, stream, wire, orphans>>

Watch == FetchMeeting \/ Connect \/ Send \/ Notice \/ DeliverJob \/ DeliverLast

QueueStep == Next /\ UNCHANGED dvars

ENext == Watch \/ FailFetch \/ Fail \/ Refuse \/ QueueStep

\* Timers fire, requests are answered or fail, frames arrive.
ESpec == EInit /\ [][ENext]_vars /\ Fairness
  /\ WF_vars(FetchMeeting) /\ WF_vars(Connect) /\ WF_vars(Send)
  /\ WF_vars(Notice) /\ WF_vars(DeliverJob \/ DeliverLast)
-----------------------------------------------------------------------------
Over == jobs[J].stage \in Terminal \cup {"deleted"}

\* When a job is over, or was deleted while being watched, the stream comes to
\* an end on both sides: no socket that reconnects once a second for ever, no
\* generator that keeps polling the database.
StreamStops ==
  Over ~> [](socket = "none" /\ ~stream.on /\ orphans = 0)

\* A page that was opened comes to know for good how the job ended, by the
\* stream's last word and the refetch it causes, or by polling once the stream
\* is given up; frames and connections may be lost at any time.  If the one
\* refetch fails, the page says so.
PageLearnsTheEnd ==
  \A st \in Terminal :
    jobs[J].stage = st ~> [](data = st \/ failed \/ jobs[J].stage = "deleted")

\* Not so (see the README): "the fetched row is the starting point and the
\* fallback", so the page comes to show how the job ended, also when the stream was
\* given up and it polls.
PageCatchesUp ==
  \A st \in Terminal :
    jobs[J].stage = st ~> (Shown = st \/ failed \/ jobs[J].stage = "deleted")
=============================================================================

---------------------------- MODULE LprsWorkflow -----------------------------
(***************************************************************************)
(* The life of a recognition workflow in lprs_workflow.cpp: API calls that *)
(* start and stop it, and the chain of pipeline tasks that processes its   *)
(* frames.  The two shared maps are guarded by two locks; every critical   *)
(* section of the code is one action, so calls and tasks interleave        *)
(* wherever the code lets them.                                            *)
(*                                                                         *)
(* A chain hands over from task to task: nextPipeline detaches a new task  *)
(* and returns, doing nothing more.  The model lets one element of Tasks   *)
(* stand for the chain and for its successor.                              *)
(*                                                                         *)
(* Time is relative: a deadline is stored as the ticks left until it, and  *)
(* -1 says that it lies in the past.                                       *)
(***************************************************************************)
EXTENDS Integers

CONSTANTS
  Streams,    \* keys "<id_group>_<ext_id>" of the video streams
  Tasks,      \* slots for concurrently running pipeline tasks (a bound)
  Clients,    \* concurrent API requests (a bound)
  Configs,    \* configurations a stream may have in the cache
  NoConfig,   \* the cache does not contain the stream
  NoDeadline, \* vstream_timeouts does not contain the stream
  NoStream    \* the key of a slot that is not in use

\* What the control flow reads of a VStreamConfig: whether screenshot_url is
\* set, whether delay_after_error > 0, and workflow_timeout (0: disabled).
ConfigType == [url : BOOLEAN, retry : BOOLEAN, period : Nat]

ASSUME ConstantsOK ==
  /\ Configs \subseteq ConfigType
  /\ NoConfig \notin Configs
  /\ NoDeadline \notin Int
  /\ NoStream \notin Streams
  /\ Tasks \intersect Clients = {}

VARIABLES
  cache,    \* vstreams_config_cache_
  being,    \* being_processed_vstreams: "absent", or the value of the entry
  timeouts, \* vstream_timeouts
  task,     \* task[t]: where the pipeline task is, and its locals
  call      \* call[c]: where the API request is, and its locals

vars == <<cache, being, timeouts, task, call>>

NoTask == [pc |-> "none", key |-> NoStream, retry |-> FALSE, expired |-> FALSE]
NoCall == [pc |-> "none", key |-> NoStream, spawn |-> FALSE, period |-> 0]

TaskSteps == {"begin", "frame", "sleep", "check", "stop", "stop_deadline"}
CallSteps == {"start", "start_deadline", "start_spawn", "stop_deadline"}

TypeOK ==
  /\ cache \in [Streams -> Configs \union {NoConfig}]
  /\ being \in [Streams -> {"absent", "true", "false"}]
  /\ timeouts \in [Streams -> Int \union {NoDeadline}]
  /\ task \in [Tasks -> {NoTask} \union
       [pc : TaskSteps, key : Streams, retry : BOOLEAN, expired : BOOLEAN]]
  /\ call \in [Clients -> {NoCall} \union
       [pc : CallSteps, key : Streams, spawn : BOOLEAN, period : Nat]]

Init ==
  /\ cache \in [Streams -> Configs \union {NoConfig}]
  /\ being = [s \in Streams |-> "absent"]
  /\ timeouts = [s \in Streams |-> NoDeadline]
  /\ task = [t \in Tasks |-> NoTask]
  /\ call = [c \in Clients |-> NoCall]

-----------------------------------------------------------------------------
(* Small decisions of the code, named; the ones that end in "Faulty" are   *)
(* variants of the next definition that a plausible bug would leave there. *)

\* startWorkflow detaches a pipeline only when the stream has no entry.
MustSpawn(s) == being[s] = "absent"

\* nextPipeline goes on when the entry is true and the deadline not passed.
GoesOnFaulty(s, expired) == being[s] # "absent" /\ ~expired

GoesOn(s, expired) == being[s] = "true" /\ ~expired

\* at(vstream_key) < now
PassedFaulty(s) == timeouts[s] # NoDeadline /\ timeouts[s] >= 0

Passed(s) == timeouts[s] # NoDeadline /\ timeouts[s] < 0

\* what the end of a chain leaves in being_processed_vstreams
LeftBehindFaulty(s) == being[s]

LeftBehind(s) == "absent"

\* The entry after stopWorkflow: an internal stop erases it, an external one
\* sets it to false, and neither adds one.
ErasingStopFaulty(s, internal) == "absent"

MarkingStopFaulty(s, internal) == IF being[s] = "absent" THEN "absent" ELSE "false"

AfterStop(s, internal) ==
  IF being[s] = "absent" \/ internal THEN "absent" ELSE "false"

-----------------------------------------------------------------------------
(* API requests                                                            *)

\* startWorkflow looks the stream up in the cache; an unknown one returns at
\* once, which changes nothing.
StartCall(c, s) ==
  /\ call[c] = NoCall
  /\ cache[s] # NoConfig
  /\ call' = [call EXCEPT ![c] = [pc |-> "start", key |-> s, spawn |-> FALSE,
                                  period |-> cache[s].period]]
  /\ UNCHANGED <<cache, being, timeouts, task>>

\* After the entry is written the request sets a deadline if there is a
\* period, then detaches a pipeline if it must.
AfterMark(r) ==
  IF r.period > 0 THEN [r EXCEPT !.pc = "start_deadline"]
  ELSE IF r.spawn THEN [r EXCEPT !.pc = "start_spawn"] ELSE NoCall

StartMark(c) ==
  /\ call[c].pc = "start"
  /\ LET s == call[c].key IN
     /\ being' = [being EXCEPT ![s] = "true"]
     /\ call' = [call EXCEPT ![c] = AfterMark([@ EXCEPT !.spawn = MustSpawn(s)])]
  /\ UNCHANGED <<cache, timeouts, task>>

StartDeadline(c) ==
  /\ call[c].pc = "start_deadline"
  /\ timeouts' = [timeouts EXCEPT ![call[c].key] = call[c].period]
  /\ call' = [call EXCEPT ![c] =
       IF @.spawn THEN [@ EXCEPT !.pc = "start_spawn"] ELSE NoCall]
  /\ UNCHANGED <<cache, being, task>>

\* A pipeline task as it is detached.
NewTask(s) == [pc |-> "begin", key |-> s, retry |-> FALSE, expired |-> FALSE]

StartSpawn(c) ==
  /\ call[c].pc = "start_spawn"
  /\ \E t \in Tasks :
       /\ task[t] = NoTask
       /\ task' = [task EXCEPT ![t] = NewTask(call[c].key)]
  /\ call' = [call EXCEPT ![c] = NoCall]
  /\ UNCHANGED <<cache, being, timeouts>>

\* stopWorkflow(key, false); it does not look at the cache.
StopCall(c, s) ==
  /\ call[c] = NoCall
  /\ being' = [being EXCEPT ![s] = AfterStop(s, FALSE)]
  /\ call' = [call EXCEPT ![c] = [pc |-> "stop_deadline", key |-> s,
                                  spawn |-> FALSE, period |-> 0]]
  /\ UNCHANGED <<cache, timeouts, task>>

StopDeadline(c) ==
  /\ call[c].pc = "stop_deadline"
  /\ timeouts' = [timeouts EXCEPT ![call[c].key] = NoDeadline]
  /\ call' = [call EXCEPT ![c] = NoCall]
  /\ UNCHANGED <<cache, being, task>>

-----------------------------------------------------------------------------
(* Pipeline tasks                                                          *)

\* processPipeline copies the configuration, or stops the workflow when the
\* stream is unknown or has no url to capture a frame from.
Begin(t) ==
  /\ task[t].pc = "begin"
  /\ LET config == cache[task[t].key] IN
     task' = [task EXCEPT ![t] =
       IF config # NoConfig /\ config.url
       THEN [@ EXCEPT !.pc = "frame", !.retry = config.retry]
       ELSE [@ EXCEPT !.pc = "stop"]]
  /\ UNCHANGED <<cache, being, timeouts, call>>

\* Capture, inference, events and callback succeed; then the pause.
FrameDone(t) ==
  /\ task[t].pc = "frame"
  /\ task' = [task EXCEPT ![t].pc = "sleep"]
  /\ UNCHANGED <<cache, being, timeouts, call>>

\* A capture error, or an exception anywhere in the processing of the frame.
FrameFailed(t) ==
  /\ task[t].pc = "frame"
  /\ task' = [task EXCEPT ![t].pc = IF task[t].retry THEN "sleep" ELSE "stop"]
  /\ UNCHANGED <<cache, being, timeouts, call>>

\* stopWorkflow(key): first critical section ...
TaskStop(t) ==
  /\ task[t].pc = "stop"
  /\ LET s == task[t].key IN being' = [being EXCEPT ![s] = AfterStop(s, TRUE)]
  /\ task' = [task EXCEPT ![t].pc = "stop_deadline"]
  /\ UNCHANGED <<cache, timeouts, call>>

\* ... and second.
TaskStopDeadline(t) ==
  /\ task[t].pc = "stop_deadline"
  /\ timeouts' = [timeouts EXCEPT ![task[t].key] = NoDeadline]
  /\ task' = [task EXCEPT ![t] = NoTask]
  /\ UNCHANGED <<cache, being, call>>

\* nextPipeline, after the pause: a deadline that has passed is erased.
CheckDeadline(t) ==
  /\ task[t].pc = "sleep"
  /\ LET s == task[t].key IN
     /\ timeouts' = [timeouts EXCEPT ![s] = IF Passed(s) THEN NoDeadline ELSE @]
     /\ task' = [task EXCEPT ![t].pc = "check", ![t].expired = Passed(s)]
  /\ UNCHANGED <<cache, being, call>>

\* nextPipeline goes on with the next frame, or ends the chain.
GoOn(t) ==
  /\ task[t].pc = "check"
  /\ GoesOn(task[t].key, task[t].expired)
  /\ task' = [task EXCEPT ![t] = NewTask(task[t].key)]
  /\ UNCHANGED <<cache, being, timeouts, call>>

EndChain(t) ==
  /\ task[t].pc = "check"
  /\ ~GoesOn(task[t].key, task[t].expired)
  /\ being' = [being EXCEPT ![task[t].key] = LeftBehind(task[t].key)]
  /\ task' = [task EXCEPT ![t] = NoTask]
  /\ UNCHANGED <<cache, timeouts, call>>

-----------------------------------------------------------------------------
(* Environment                                                             *)

\* The cache is reloaded as a whole; addStream, removeStream and changes of
\* the default configuration may have left anything in the database.
RefreshCache ==
  /\ cache' \in [Streams -> Configs \union {NoConfig}]
  /\ UNCHANGED <<being, timeouts, task, call>>

Later(d) == IF d # NoDeadline /\ d >= 0 THEN d - 1 ELSE d

Tick ==
  /\ timeouts' = [s \in Streams |-> Later(timeouts[s])]
  /\ UNCHANGED <<cache, being, task, call>>

-----------------------------------------------------------------------------
CallStep(c) == StartMark(c) \/ StartDeadline(c) \/ StartSpawn(c) \/ StopDeadline(c)

TaskStep(t) ==
  \/ Begin(t) \/ FrameDone(t) \/ FrameFailed(t)
  \/ TaskStop(t) \/ TaskStopDeadline(t)
  \/ CheckDeadline(t) \/ GoOn(t) \/ EndChain(t)

Next ==
  \/ \E c \in Clients, s \in Streams : StartCall(c, s) \/ StopCall(c, s)
  \/ \E c \in Clients : CallStep(c)
  \/ \E t \in Tasks : TaskStep(t)
  \/ RefreshCache
  \/ Tick

Spec == Init /\ [][Next]_vars

\* The scheduler runs every ready task and request to its end, a frame takes
\* a bounded time (capture, inference and callback have timeouts), and the
\* steady clock advances.  Nobody has to call the API or reload the cache.
Fairness ==
  /\ \A c \in Clients : WF_vars(CallStep(c))
  /\ \A t \in Tasks : WF_vars(TaskStep(t))
  /\ WF_vars(Tick)

FairSpec == Spec /\ Fairness

-----------------------------------------------------------------------------
(* Properties                                                              *)

\* Who is responsible for the entry of a stream: the task of its chain, from
\* its first step until it gives the entry up, or the start request that has
\* found no entry and has not detached the chain yet.
TaskHolds(t, s) ==
  task[t].key = s /\ task[t].pc \in {"begin", "frame", "sleep", "check", "stop"}

CallHolds(c, s) ==
  call[c].key = s /\ call[c].spawn /\ call[c].pc \in {"start_deadline", "start_spawn"}

Holders(s) == {t \in Tasks : TaskHolds(t, s)} \union {c \in Clients : CallHolds(c, s)}

\* However starts, stops, timeouts and errors interleave, a stream has at
\* most one chain of pipeline tasks, a chain about to be detached included:
\* its frames are never processed twice in parallel.
OneChainPerStream == \A s \in Streams : \A a, b \in Holders(s) : a = b

\* The entry in being_processed_vstreams is there exactly while a chain is:
\* an entry without a chain would make every later start do nothing.
EntryMeansChain == \A s \in Streams : being[s] # "absent" <=> Holders(s) # {}

\* Both at once: the only chain of a stream is the one its entry stands for,
\* whichever way startWorkflow, stopWorkflow and nextPipeline overlap.
OneChainBehindEntry == OneChainPerStream /\ EntryMeansChain

\* The session the backend sees: see StreamSession.
MayBeginFrame(s) ==
  \/ \E t \in Tasks : task[t].key = s /\ task[t].pc = "begin"
  \/ \E c \in Clients : CallHolds(c, s)

SessionOf(s) ==
  CASE being[s] = "absent" -> "idle"
    [] being[s] = "true" -> "active"
    [] being[s] = "false" -> IF MayBeginFrame(s) THEN "last" ELSE "draining"

session == [s \in Streams |-> SessionOf(s)]

FramesInProgress == {<<task[t].key, t>> : t \in {u \in Tasks : task[u].pc = "frame"}}

Session == INSTANCE StreamSession
             WITH Workers <- Tasks, capturing <- FramesInProgress

\* The service implements StreamSession: frames of a stream one at a time, at
\* most one new frame after a stop, and a start is honoured even while the
\* chain is about to end because of a stop.
ImplementsSession == Session!Spec

\* A stop called from the API takes effect: the chain ends, unless the stream
\* is started again before it notices.
StopTakesEffect ==
  \A s \in Streams : (being[s] = "false") ~> (being[s] # "false")

\* A workflow that is on really processes frames: as long as it is on, one
\* frame after another begins (or the chain stops for want of a url).
KeepsProcessing ==
  \A s \in Streams :
    (being[s] = "true") ~> \/ being[s] # "true"
                           \/ \E t \in Tasks : task[t].key = s /\ task[t].pc = "frame"

\* A deadline that has passed is acted upon: the workflow ends, unless a
\* request for the stream, or the second half of an internal stop, comes in
\* between.
DeadlineTakesEffect ==
  \A s \in Streams :
    (timeouts[s] = -1 /\ being[s] # "absent") ~>
      \/ being[s] = "absent"
      \/ \E c \in Clients : call[c].key = s
      \/ \E t \in Tasks : task[t].key = s /\ task[t].pc = "stop_deadline"

\* A stream removed for good (removeStream, and the cache reloaded) is not
\* processed for ever: its chain ends without any call.
RemovedStreamEnds ==
  \A s \in Streams :
    <>[](cache[s] = NoConfig) => <>[](Holders(s) = {} /\ being[s] = "absent")

\* docs/openapi.yaml:2290 calls workflow-timeout "The period after which
\* processing workflow automatically stops after start".  So when every
\* configuration has a period, a running workflow with no request under way
\* for it has a deadline.
RunningHasDeadline ==
  \A s \in Streams :
    being[s] = "true" =>
      \/ timeouts[s] # NoDeadline
      \/ \E c \in Clients : call[c].key = s
      \/ \E t \in Tasks : task[t].key = s /\ task[t].expired
=============================================================================

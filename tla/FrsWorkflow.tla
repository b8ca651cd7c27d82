---------------------------- MODULE FrsWorkflow ------------------------------
(***************************************************************************)
(* The life of a recognition workflow in frs_workflow.cpp.  Its start, its *)
(* stop and nextPipeline take the same critical sections in the same order *)
(* as those of lprs_workflow.cpp, so their actions are those of            *)
(* LprsWorkflow.  What differs is processPipeline: it also serves requests *)
(* that process one image for a stream (registerFace, testImage,           *)
(* processFrame), and those too stop the stream's workflow when they find  *)
(* the stream missing from the cache; and a "data:" url that cannot be     *)
(* decoded ends the task without a stop.                                   *)
(*                                                                         *)
(* url in a configuration says here whether the stream's url yields image  *)
(* bytes or fails like a camera (TRUE), or is such a "data:" url (FALSE).  *)
(***************************************************************************)
EXTENDS LprsWorkflow

CONSTANT
  OneShots    \* concurrent requests for one image (a bound)

VARIABLES
  oneshot,    \* oneshot[o]: where the request for one image is
  orphaned,   \* history: streams whose chain ended without giving up the entry
  aborted     \* history: streams that a request for one image has stopped

frs_vars == <<vars, oneshot, orphaned, aborted>>

NoShot == [pc |-> "none", key |-> NoStream]

FrsTypeOK ==
  /\ TypeOK
  /\ oneshot \in [OneShots -> {NoShot} \union
       [pc : {"begin", "stop", "stop_deadline"}, key : Streams]]
  /\ orphaned \subseteq Streams
  /\ aborted \subseteq Streams

FrsInit ==
  /\ Init
  /\ oneshot = [o \in OneShots |-> NoShot]
  /\ orphaned = {}
  /\ aborted = {}

-----------------------------------------------------------------------------
(* motionDetection and doorIsOpen                                          *)

\* startWorkflow; a stream in the cache has a positive id_group.
MotionStart(c, s) == StartCall(c, s) /\ UNCHANGED <<oneshot, orphaned, aborted>>

MotionStartStep(c) ==
  /\ StartMark(c) \/ StartDeadline(c) \/ StartSpawn(c)
  /\ UNCHANGED <<oneshot, orphaned, aborted>>

\* stopWorkflow(key, false), when motion ends or the door is open.
MotionStop(c, s) == StopCall(c, s) /\ UNCHANGED <<oneshot, orphaned, aborted>>

MotionStopDeadline(c) == StopDeadline(c) /\ UNCHANGED <<oneshot, orphaned, aborted>>

-----------------------------------------------------------------------------
(* The tasks of a chain: TASK_RECOGNIZE                                    *)

\* (The variant goes on with the default configuration of the group.)
RecognizeBeginFaulty(t) ==
  /\ task[t].pc = "begin"
  /\ task' = [task EXCEPT ![t].pc = "frame", ![t].retry = TRUE]
  /\ UNCHANGED <<cache, being, timeouts, call, oneshot, orphaned, aborted>>

RecognizeBegin(t) ==
  /\ task[t].pc = "begin"
  /\ LET config == cache[task[t].key] IN
     /\ config # NoConfig => config.url
     /\ task' = [task EXCEPT ![t] =
          IF config = NoConfig THEN [@ EXCEPT !.pc = "stop"]
          ELSE [@ EXCEPT !.pc = "frame", !.retry = config.retry]]
  /\ UNCHANGED <<cache, being, timeouts, call, oneshot, orphaned, aborted>>

\* The return for undecodable image data: neither nextPipeline nor a stop.
Undecodable(t) ==
  /\ task[t].pc = "begin"
  /\ cache[task[t].key] # NoConfig
  /\ ~cache[task[t].key].url
  /\ task' = [task EXCEPT ![t] = NoTask]
  /\ orphaned' = orphaned \union {task[t].key}
  /\ UNCHANGED <<cache, being, timeouts, call, oneshot, aborted>>

\* Capture, detection, recognition, callbacks; or an error on the way.
RecognizeFrame(t) ==
  /\ FrameDone(t) \/ FrameFailed(t)
  /\ UNCHANGED <<oneshot, orphaned, aborted>>

\* stopWorkflow(key) of a task.  An entry that is gone awaits no chain.
RecognizeStop(t) ==
  /\ TaskStop(t)
  /\ orphaned' = orphaned \ {task[t].key}
  /\ UNCHANGED <<oneshot, aborted>>

RecognizeStopDeadline(t) ==
  TaskStopDeadline(t) /\ UNCHANGED <<oneshot, orphaned, aborted>>

\* nextPipeline
NextCheck(t) == CheckDeadline(t) /\ UNCHANGED <<oneshot, orphaned, aborted>>

NextGoOn(t) == GoOn(t) /\ UNCHANGED <<oneshot, orphaned, aborted>>

NextEnd(t) ==
  /\ EndChain(t)
  /\ orphaned' = orphaned \ {task[t].key}
  /\ UNCHANGED <<oneshot, aborted>>

-----------------------------------------------------------------------------
(* A request for one image: TASK_REGISTER_DESCRIPTOR, TASK_TEST and        *)
(* TASK_PROCESS_FRAME with a streamId                                      *)

OneShotCall(o, s) ==
  /\ oneshot[o] = NoShot
  /\ oneshot' = [oneshot EXCEPT ![o] = [pc |-> "begin", key |-> s]]
  /\ UNCHANGED <<vars, orphaned, aborted>>

\* The stream is in the cache: the image is processed, which leaves the
\* workflow of the stream alone.
OneShotDone(o) ==
  /\ oneshot[o].pc = "begin"
  /\ cache[oneshot[o].key] # NoConfig
  /\ oneshot' = [oneshot EXCEPT ![o] = NoShot]
  /\ UNCHANGED <<vars, orphaned, aborted>>

OneShotUnknown(o) ==
  /\ oneshot[o].pc = "begin"
  /\ cache[oneshot[o].key] = NoConfig
  /\ oneshot' = [oneshot EXCEPT ![o].pc = "stop"]
  /\ UNCHANGED <<vars, orphaned, aborted>>

\* stopWorkflow(key), the internal one: it erases the entry.
OneShotStop(o) ==
  /\ oneshot[o].pc = "stop"
  /\ LET s == oneshot[o].key IN
     /\ being' = [being EXCEPT ![s] = AfterStop(s, TRUE)]
     /\ orphaned' = orphaned \ {s}
     /\ aborted' = aborted \union {s}
  /\ oneshot' = [oneshot EXCEPT ![o].pc = "stop_deadline"]
  /\ UNCHANGED <<cache, timeouts, task, call>>

OneShotStopDeadline(o) ==
  /\ oneshot[o].pc = "stop_deadline"
  /\ timeouts' = [timeouts EXCEPT ![oneshot[o].key] = NoDeadline]
  /\ oneshot' = [oneshot EXCEPT ![o] = NoShot]
  /\ UNCHANGED <<cache, being, task, call, orphaned, aborted>>

-----------------------------------------------------------------------------
(* Environment                                                             *)

\* The caches are reloaded; a removed stream disappears, a new one appears.
ReloadCaches == RefreshCache /\ UNCHANGED <<oneshot, orphaned, aborted>>

TickClock == Tick /\ UNCHANGED <<oneshot, orphaned, aborted>>

-----------------------------------------------------------------------------
MotionStep(c) == MotionStartStep(c) \/ MotionStopDeadline(c)

RecognizeStep(t) ==
  \/ RecognizeBegin(t) \/ Undecodable(t) \/ RecognizeFrame(t)
  \/ RecognizeStop(t) \/ RecognizeStopDeadline(t)
  \/ NextCheck(t) \/ NextGoOn(t) \/ NextEnd(t)

OneShotStep(o) ==
  \/ OneShotDone(o) \/ OneShotUnknown(o) \/ OneShotStop(o) \/ OneShotStopDeadline(o)

FrsNext ==
  \/ \E c \in Clients, s \in Streams : MotionStart(c, s) \/ MotionStop(c, s)
  \/ \E c \in Clients : MotionStep(c)
  \/ \E t \in Tasks : RecognizeStep(t)
  \/ \E o \in OneShots, s \in Streams : OneShotCall(o, s)
  \/ \E o \in OneShots : OneShotStep(o)
  \/ ReloadCaches
  \/ TickClock

FrsSpec == FrsInit /\ [][FrsNext]_frs_vars

\* As in LprsWorkflow: what is running runs to its end, and the clock advances.
FrsFairness ==
  /\ \A c \in Clients : WF_frs_vars(MotionStep(c))
  /\ \A t \in Tasks : WF_frs_vars(RecognizeStep(t))
  /\ \A o \in OneShots : WF_frs_vars(OneShotStep(o))
  /\ WF_frs_vars(TickClock)

FrsFairSpec == FrsSpec /\ FrsFairness

-----------------------------------------------------------------------------
(* Properties                                                              *)

\* An entry in being_processed_vstreams is backed by a chain, or stems from a
\* chain that ended on an undecodable "data:" url: nothing else, not even a
\* second chain or a request for one image, makes later starts do nothing.
EntryHasChain ==
  \A s \in Streams : being[s] # "absent" => Holders(s) # {} \/ s \in orphaned

\* Two chains of one stream are the work of requests for one image: as long as
\* none has stopped the stream's workflow, it has at most one.
SecondChainNeedsOneShot ==
  \A s \in Streams \ aborted : \A a, b \in Holders(s) : a = b

\* What FRS keeps of OneChainBehindEntry, although requests for one image and
\* undecodable urls come in between.
ChainsExplained == EntryHasChain /\ SecondChainNeedsOneShot

\* A stop takes effect, even when two chains are running, unless the chain is
\* already gone.
MotionStopTakesEffect ==
  \A s \in Streams : (being[s] = "false") ~> (being[s] # "false" \/ s \in orphaned)

\* All the chains of a stream that was removed for good end.
RemovedStreamChainsEnd ==
  \A s \in Streams : <>[](cache[s] = NoConfig) => <>[](Holders(s) = {})

\* README.md:110: motionDetection with start=true makes FRS process a frame
\* "every second (set by the *delay-between-frames* parameter)".  That takes
\* one chain per stream: two of them process two frames per delay.
OneChainPerVideoStream == OneChainPerStream
=============================================================================

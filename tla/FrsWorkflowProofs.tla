------------------------- MODULE FrsWorkflowProofs ---------------------------
(***************************************************************************)
(* Theorems about FrsWorkflow, for any number of streams, tasks and        *)
(* requests.  A stream may have several chains here, so the invariant of   *)
(* LprsWorkflowProofs splits: that an entry is backed by a chain holds     *)
(* always, because whoever leaves a chain erases the entry; that there is  *)
(* one chain, and an entry behind it, holds until a request for one image  *)
(* has erased the entry of a chain it does not own.                        *)
(***************************************************************************)
EXTENDS FrsWorkflow, LprsWorkflowProofs

\* One chain, and an entry for it, for a stream that was never aborted.
OwnsEntry(s) ==
  /\ \A a, b \in Holders(s) : a = b
  /\ Holders(s) # {} => being[s] # "absent"

FrsChainInv ==
  \A s \in Streams :
    /\ being[s] # "absent" => Holders(s) # {} \/ s \in orphaned
    /\ s \notin aborted => OwnsEntry(s)

FrsIInv == FrsTypeOK /\ SpawnsWithReason /\ FrsChainInv

ShotType == [pc : {"begin", "stop", "stop_deadline"}, key : Streams]

-----------------------------------------------------------------------------
(* Type correctness                                                        *)

\* A request for an image that is under way has a stream.
LEMMA BusyShots ==
  ASSUME FrsTypeOK
  PROVE  \A o \in OneShots : oneshot[o].pc # "none" =>
           oneshot[o] \in ShotType /\ oneshot[o].key \in Streams
BY DEF FrsTypeOK, NoShot, ShotType

\* A step of a task that FrsWorkflow takes over from LprsWorkflow.
LEMMA SharedTaskStep ==
  ASSUME NEW t \in Tasks,
         \/ RecognizeFrame(t) \/ RecognizeStop(t) \/ RecognizeStopDeadline(t)
         \/ NextCheck(t) \/ NextGoOn(t) \/ NextEnd(t)
  PROVE  TaskStep(t)
BY DEF RecognizeFrame, RecognizeStop, RecognizeStopDeadline, NextCheck,
       NextGoOn, NextEnd, TaskStep

\* The slot of a task that begins.
LEMMA BeginSlot ==
  ASSUME FrsTypeOK, NEW t \in Tasks, RecognizeBegin(t)
  PROVE  /\ task' \in [Tasks -> TaskType]
         /\ task'[t].key = task[t].key /\ task'[t].pc \in {"frame", "stop"}
         /\ \A u \in Tasks \ {t} : task'[u] = task[u]
<1> DEFINE config == cache[task[t].key]
           started == [task[t] EXCEPT !.pc = "frame", !.retry = config.retry]
           stopped == [task[t] EXCEPT !.pc = "stop"]
<1>1. /\ task[t] \in [pc : TaskSteps, key : Streams, retry : BOOLEAN, expired : BOOLEAN]
      /\ task \in [Tasks -> TaskType]
  BY BusySlots DEF FrsTypeOK, TypeOK, TaskType, RecognizeBegin
<1>2. task' = [task EXCEPT ![t] = IF config = NoConfig THEN stopped ELSE started]
  BY DEF RecognizeBegin
<1>3. config # NoConfig => config.retry \in BOOLEAN
  BY <1>1, ConstantsOK DEF FrsTypeOK, TypeOK, ConfigType
<1>4. /\ config # NoConfig => started \in TaskType
      /\ stopped \in TaskType
      /\ started.key = task[t].key /\ started.pc = "frame"
      /\ stopped.key = task[t].key /\ stopped.pc = "stop"
  BY <1>1, <1>3 DEF TaskType, TaskSteps
<1> QED
  <2> HIDE DEF config, started, stopped
  <2> QED BY <1>1, <1>2, <1>4

LEMMA RecognizeType ==
  ASSUME FrsTypeOK, NEW t \in Tasks, RecognizeStep(t)
  PROVE  FrsTypeOK'
<1>1. TypeOK
  BY DEF FrsTypeOK
<1>2. CASE RecognizeBegin(t)
  <2>1. TypeOK'
    BY <1>1, <1>2, BeginSlot DEF RecognizeBegin, TypeOK, TaskType
  <2> QED BY <1>2, <2>1 DEF RecognizeBegin, FrsTypeOK
<1>3. CASE Undecodable(t)
  <2>1. task[t].key \in Streams
    BY <1>1, <1>3, BusySlots DEF Undecodable
  <2>2. TypeOK'
    BY <1>1, <1>3 DEF Undecodable, TypeOK
  <2> QED BY <1>3, <2>1, <2>2 DEF Undecodable, FrsTypeOK
<1>4. CASE \/ RecognizeFrame(t) \/ RecognizeStop(t) \/ RecognizeStopDeadline(t)
           \/ NextCheck(t) \/ NextGoOn(t) \/ NextEnd(t)
  <2>1. TypeOK'
    BY <1>1, <1>4, SharedTaskStep, TaskStepType
  <2> QED
    BY <1>4, <2>1 DEF FrsTypeOK, RecognizeFrame, RecognizeStop,
         RecognizeStopDeadline, NextCheck, NextGoOn, NextEnd
<1> QED BY <1>2, <1>3, <1>4 DEF RecognizeStep

LEMMA OneShotType ==
  ASSUME FrsTypeOK, NEW o \in OneShots, OneShotStep(o)
  PROVE  FrsTypeOK'
<1>1. TypeOK /\ oneshot[o] \in ShotType
  BY BusyShots DEF FrsTypeOK, OneShotStep, OneShotDone, OneShotUnknown,
       OneShotStop, OneShotStopDeadline
<1>2. CASE OneShotDone(o) \/ OneShotUnknown(o)
  <2>1. TypeOK'
    BY <1>1, <1>2 DEF OneShotDone, OneShotUnknown, TypeOK, vars
  <2> QED
    BY <1>1, <1>2, <2>1 DEF OneShotDone, OneShotUnknown, FrsTypeOK, ShotType
<1>3. CASE OneShotStop(o)
  <2>1. TypeOK'
    BY <1>1, <1>3 DEF OneShotStop, TypeOK, AfterStop, ShotType
  <2> QED
    BY <1>1, <1>3, <2>1 DEF OneShotStop, FrsTypeOK, ShotType
<1>4. CASE OneShotStopDeadline(o)
  <2>1. TypeOK'
    BY <1>1, <1>4 DEF OneShotStopDeadline, TypeOK, ShotType
  <2> QED
    BY <1>1, <1>4, <2>1 DEF OneShotStopDeadline, FrsTypeOK, ShotType
<1> QED BY <1>2, <1>3, <1>4 DEF OneShotStep

\* The steps of FrsNext that leave the requests for images alone and are steps
\* of LprsWorkflow.
MotionOrClock ==
  \/ \E c \in Clients, s \in Streams : MotionStart(c, s) \/ MotionStop(c, s)
  \/ \E c \in Clients : MotionStep(c)
  \/ ReloadCaches \/ TickClock

LEMMA MotionOrClockIsNext ==
  ASSUME MotionOrClock
  PROVE  Next /\ UNCHANGED <<oneshot, orphaned, aborted>>
BY DEF MotionOrClock, MotionStart, MotionStop, MotionStep, MotionStartStep,
       MotionStopDeadline, ReloadCaches, TickClock, Next, CallStep

LEMMA FrsTypeStep == FrsTypeOK /\ [FrsNext]_frs_vars => FrsTypeOK'
<1> SUFFICES ASSUME FrsTypeOK, [FrsNext]_frs_vars PROVE FrsTypeOK'
  OBVIOUS
<1>1. CASE MotionOrClock
  <2>1. TypeOK /\ Next /\ UNCHANGED <<oneshot, orphaned, aborted>>
    BY <1>1, MotionOrClockIsNext DEF FrsTypeOK
  <2> QED BY <2>1, TypeStep DEF FrsTypeOK
<1>2. ASSUME NEW t \in Tasks, RecognizeStep(t) PROVE FrsTypeOK'
  BY <1>2, RecognizeType
<1>3. ASSUME NEW o \in OneShots, NEW s \in Streams, OneShotCall(o, s) PROVE FrsTypeOK'
  BY <1>3 DEF OneShotCall, FrsTypeOK, TypeOK, vars
<1>4. ASSUME NEW o \in OneShots, OneShotStep(o) PROVE FrsTypeOK'
  BY <1>4, OneShotType
<1>5. CASE UNCHANGED frs_vars
  BY <1>5 DEF frs_vars, vars, FrsTypeOK, TypeOK
<1> QED
  BY <1>1, <1>2, <1>3, <1>4, <1>5 DEF FrsNext, MotionOrClock

-----------------------------------------------------------------------------
(* Entries and chains                                                      *)

\* A step that leaves holders alone, and neither makes nor erases an entry.
LEMMA FrsSameHolders ==
  ASSUME FrsChainInv,
         \A s \in Streams : Holders(s)' = Holders(s),
         \A s \in Streams : (being'[s] = "absent") <=> (being[s] = "absent"),
         orphaned' = orphaned, aborted' = aborted
  PROVE  FrsChainInv'
BY DEF FrsChainInv, OwnsEntry

\* The first section of startWorkflow.
LEMMA FrsStartMark ==
  ASSUME FrsIInv, NEW c \in Clients, StartMark(c),
         UNCHANGED <<oneshot, orphaned, aborted>>
  PROVE  FrsChainInv'
<1> DEFINE s == call[c].key
           r == [call[c] EXCEPT !.spawn = MustSpawn(s)]
<1>0. TypeOK
  BY DEF FrsIInv, FrsTypeOK
<1>1. /\ s \in Streams
      /\ r \in [pc : CallSteps, key : Streams, spawn : BOOLEAN, period : Nat]
      /\ r.key = s /\ r.spawn = MustSpawn(s)
      /\ ~ \E z \in Streams : CallHolds(c, z)
  BY <1>0, BusySlots DEF StartMark, MustSpawn, CallHolds
<1>2. /\ call' = [call EXCEPT ![c] = AfterMark(r)]
      /\ being' = [being EXCEPT ![s] = "true"]
      /\ task' = task
  BY <1>0 DEF StartMark, TypeOK
<1>3. call'[c] = AfterMark(r) /\ \A d \in Clients \ {c} : call'[d] = call[d]
  BY <1>0, <1>2 DEF TypeOK
<1>4. \A z \in Streams : CallHolds(c, z)' <=> z = s /\ MustSpawn(s)
  <2> HIDE DEF s, r
  <2> QED
    BY <1>1, <1>3 DEF CallHolds, AfterMark, NoCall
<1>5. \A z \in Streams :
        Holders(z)' = IF z = s /\ MustSpawn(s) THEN Holders(z) \union {c} ELSE Holders(z)
  <2> HIDE DEF s, r
  <2> QED
    BY <1>1, <1>2, <1>3, <1>4 DEF Holders, TaskHolds, CallHolds
<1>6. MustSpawn(s) /\ s \notin aborted => Holders(s) = {}
  BY <1>1 DEF MustSpawn, FrsIInv, FrsChainInv, OwnsEntry
<1>7. ~MustSpawn(s) => Holders(s) # {} \/ s \in orphaned
  BY <1>1 DEF MustSpawn, FrsIInv, FrsChainInv
<1>8. \A z \in Streams : being'[z] = IF z = s THEN "true" ELSE being[z]
  BY <1>0, <1>2 DEF TypeOK
<1>9. FrsChainInv
  BY DEF FrsIInv
<1> QED
  <2> HIDE DEF s, r
  <2> QED BY <1>1, <1>5, <1>6, <1>7, <1>8, <1>9 DEF FrsChainInv, OwnsEntry

\* The hand-over of startWorkflow to the first task of a chain.
LEMMA FrsStartSpawn ==
  ASSUME FrsIInv, NEW c \in Clients, StartSpawn(c),
         UNCHANGED <<oneshot, orphaned, aborted>>
  PROVE  FrsChainInv'
<1>0. TypeOK /\ SpawnsWithReason /\ FrsChainInv
  BY DEF FrsIInv, FrsTypeOK
<1>1. PICK s \in Streams : s = call[c].key
  BY <1>0, BusySlots DEF StartSpawn
<1>2. call[c] \in [pc : CallSteps, key : Streams, spawn : BOOLEAN, period : Nat]
  BY <1>0, BusySlots DEF StartSpawn
<1>3. PICK t \in Tasks : task[t] = NoTask /\ task' = [task EXCEPT ![t] = NewTask(s)]
  BY <1>1 DEF StartSpawn
<1>4. c \in Holders(s) /\ c \notin Tasks /\ t \notin Clients
  BY <1>0, <1>1, <1>2, ConstantsOK DEF StartSpawn, SpawnsWithReason, Holders, CallHolds
<1>5. \A z \in Streams \ {s} : c \notin Holders(z)
  BY <1>1, <1>4, ConstantsOK DEF Holders, TaskHolds, CallHolds
<1>6. /\ \A u \in Tasks \ {t}, z \in Streams : TaskHolds(u, z)' <=> TaskHolds(u, z)
      /\ \A z \in Streams : ~TaskHolds(t, z) /\ (TaskHolds(t, z)' <=> z = s)
  BY <1>0, <1>1, <1>2, <1>3 DEF TaskHolds, TypeOK, NewTask, NoTask
<1>7. /\ \A d \in Clients \ {c}, z \in Streams : CallHolds(d, z)' <=> CallHolds(d, z)
      /\ \A z \in Streams : ~CallHolds(c, z)'
  BY <1>0 DEF StartSpawn, CallHolds, TypeOK, NoCall
<1>8. \A z \in Streams \ {s} : Holders(z)' = Holders(z)
  BY <1>4, <1>5, <1>6, <1>7 DEF Holders
<1>9. Holders(s)' = (Holders(s) \ {c}) \union {t}
  BY <1>1, <1>4, <1>6, <1>7 DEF Holders
<1>10. being' = being
  BY DEF StartSpawn
<1>11. s \notin aborted => Holders(s) = {c} /\ being[s] # "absent"
  BY <1>0, <1>1, <1>4 DEF FrsChainInv, OwnsEntry
<1> QED
  BY <1>0, <1>1, <1>8, <1>9, <1>10, <1>11 DEF FrsChainInv, OwnsEntry

LEMMA FrsMotionChain ==
  ASSUME FrsIInv, NEW c \in Clients, MotionStep(c)
  PROVE  FrsChainInv'
<1>0. TypeOK /\ FrsChainInv /\ UNCHANGED <<oneshot, orphaned, aborted>>
  BY DEF FrsIInv, FrsTypeOK, MotionStep, MotionStartStep, MotionStopDeadline
<1>1. CASE StartMark(c)
  BY <1>0, <1>1, FrsStartMark
<1>2. CASE StartDeadline(c)
  <2>1. call[c] \in [pc : CallSteps, key : Streams, spawn : BOOLEAN, period : Nat]
    BY <1>0, <1>2, BusySlots DEF StartDeadline
  <2>2. \A s \in Streams : Holders(s)' = Holders(s)
    BY <1>0, <1>2, <2>1 DEF StartDeadline, Holders, TaskHolds, CallHolds, TypeOK, NoCall
  <2> QED
    BY <1>0, <1>2, <2>2, FrsSameHolders DEF StartDeadline
<1>3. CASE StartSpawn(c)
  BY <1>0, <1>3, FrsStartSpawn
<1>4. CASE StopDeadline(c)
  <2>1. \A s \in Streams : Holders(s)' = Holders(s)
    BY <1>0, <1>4 DEF StopDeadline, Holders, TaskHolds, CallHolds, TypeOK, NoCall
  <2> QED
    BY <1>0, <1>4, <2>1, FrsSameHolders DEF StopDeadline
<1> QED
  BY <1>1, <1>2, <1>3, <1>4 DEF MotionStep, MotionStartStep, MotionStopDeadline

\* A task that goes on to another step of its chain.
LEMMA FrsChainGoesOn ==
  ASSUME FrsIInv, NEW t \in Tasks,
         RecognizeBegin(t) \/ RecognizeFrame(t) \/ NextCheck(t) \/ NextGoOn(t)
  PROVE  FrsChainInv'
<1>0. TypeOK /\ FrsChainInv
  BY DEF FrsIInv, FrsTypeOK
<1>1. PICK s \in Streams : s = task[t].key
  BY <1>0, BusySlots DEF RecognizeBegin, RecognizeFrame, NextCheck, NextGoOn,
       FrameDone, FrameFailed, CheckDeadline, GoOn
<1>2. task[t] \in [pc : TaskSteps, key : Streams, retry : BOOLEAN, expired : BOOLEAN]
  BY <1>0, BusySlots DEF RecognizeBegin, RecognizeFrame, NextCheck, NextGoOn,
       FrameDone, FrameFailed, CheckDeadline, GoOn
<1>3. /\ UNCHANGED <<being, call, orphaned, aborted>>
      /\ task[t].pc \in {"begin", "frame", "sleep", "check"}
  BY DEF RecognizeBegin, RecognizeFrame, NextCheck, NextGoOn,
       FrameDone, FrameFailed, CheckDeadline, GoOn
<1>4. /\ task'[t].key = s
      /\ task'[t].pc \in {"begin", "frame", "sleep", "check", "stop"}
      /\ \A u \in Tasks \ {t} : task'[u] = task[u]
  <2>1. CASE RecognizeBegin(t)
    BY <1>1, <2>1, BeginSlot DEF FrsIInv
  <2>2. CASE RecognizeFrame(t) \/ NextCheck(t) \/ NextGoOn(t)
    BY <1>0, <1>1, <1>2, <2>2
       DEF RecognizeFrame, NextCheck, NextGoOn, FrameDone, FrameFailed,
           CheckDeadline, GoOn, NewTask, TypeOK
  <2> QED BY <2>1, <2>2
<1>5. \A z \in Streams : Holders(z)' = Holders(z)
  BY <1>1, <1>2, <1>3, <1>4 DEF Holders, TaskHolds, CallHolds
<1> QED
  BY <1>0, <1>3, <1>5, FrsSameHolders

\* A task that leaves its chain erases the entry, or makes it an orphan.
LEMMA FrsChainEnds ==
  ASSUME FrsIInv, NEW t \in Tasks,
         RecognizeStop(t) \/ NextEnd(t) \/ Undecodable(t)
  PROVE  FrsChainInv'
<1>0. TypeOK /\ FrsChainInv
  BY DEF FrsIInv, FrsTypeOK
<1>1. PICK s \in Streams : s = task[t].key
  BY <1>0, BusySlots DEF RecognizeStop, NextEnd, Undecodable, TaskStop, EndChain
<1>2. /\ task[t] \in [pc : TaskSteps, key : Streams, retry : BOOLEAN, expired : BOOLEAN]
      /\ UNCHANGED <<call, aborted>>
  BY <1>0, BusySlots DEF RecognizeStop, NextEnd, Undecodable, TaskStop, EndChain
<1>3. TaskHolds(t, s)
  BY <1>1 DEF TaskHolds, RecognizeStop, NextEnd, Undecodable, TaskStop, EndChain
<1>4. DOMAIN task = Tasks
  BY <1>0 DEF TypeOK
<1>5. /\ task'[t] = NoTask \/ task'[t].pc = "stop_deadline"
      /\ \A u \in Tasks \ {t} : task'[u] = task[u]
  <2>1. CASE RecognizeStop(t)
    BY <1>2, <1>4, <2>1 DEF RecognizeStop, TaskStop
  <2>2. CASE NextEnd(t)
    BY <1>4, <2>2 DEF NextEnd, EndChain
  <2>3. CASE Undecodable(t)
    BY <1>4, <2>3 DEF Undecodable
  <2> QED BY <2>1, <2>2, <2>3
<1>6. /\ \A z \in Streams : ~TaskHolds(t, z)'
      /\ \A u \in Tasks \ {t}, z \in Streams : TaskHolds(u, z)' <=> TaskHolds(u, z)
  BY <1>5 DEF TaskHolds, NoTask
<1>7. t \in Holders(s) /\ t \notin Clients
  BY <1>3, ConstantsOK DEF Holders
<1>8. Holders(s)' = Holders(s) \ {t}
  BY <1>1, <1>2, <1>6, <1>7 DEF Holders, CallHolds
<1>9. \A z \in Streams \ {s} : Holders(z)' = Holders(z)
  BY <1>1, <1>2, <1>6, <1>7 DEF Holders, CallHolds, TaskHolds
<1>10. \/ being' = [being EXCEPT ![s] = "absent"] /\ orphaned' = orphaned \ {s}
       \/ being' = being /\ orphaned' = orphaned \union {s}
  BY <1>1 DEF RecognizeStop, NextEnd, Undecodable, TaskStop, EndChain,
       LeftBehind, AfterStop
<1>11. s \notin aborted => Holders(s)' = {}
  BY <1>0, <1>1, <1>7, <1>8 DEF FrsChainInv, OwnsEntry
<1> QED
  BY <1>0, <1>1, <1>2, <1>8, <1>9, <1>10, <1>11 DEF FrsChainInv, OwnsEntry, TypeOK

LEMMA FrsRecognizeChain ==
  ASSUME FrsIInv, NEW t \in Tasks, RecognizeStep(t)
  PROVE  FrsChainInv'
<1>1. CASE RecognizeStopDeadline(t)
  <2>0. TypeOK /\ FrsChainInv
    BY DEF FrsIInv, FrsTypeOK
  <2>1. \A z \in Streams : Holders(z)' = Holders(z)
    BY <2>0, <1>1 DEF RecognizeStopDeadline, TaskStopDeadline, Holders,
         TaskHolds, CallHolds, TypeOK, NoTask
  <2> QED
    BY <2>0, <1>1, <2>1, FrsSameHolders DEF RecognizeStopDeadline, TaskStopDeadline
<1> QED
  BY <1>1, FrsChainGoesOn, FrsChainEnds DEF RecognizeStep

\* A request for one image makes no holder; its stop marks the stream aborted.
LEMMA FrsOneShotChain ==
  ASSUME FrsIInv, NEW o \in OneShots, OneShotStep(o)
  PROVE  FrsChainInv'
<1>0. TypeOK /\ FrsChainInv /\ oneshot[o].key \in Streams
  BY BusyShots DEF FrsIInv, FrsTypeOK, OneShotStep, OneShotDone, OneShotUnknown,
       OneShotStop, OneShotStopDeadline
<1>1. task' = task /\ call' = call
  BY DEF OneShotStep, OneShotDone, OneShotUnknown, OneShotStop,
       OneShotStopDeadline, vars
<1>2. \A z \in Streams : Holders(z)' = Holders(z)
  BY <1>1 DEF Holders, TaskHolds, CallHolds
<1>3. CASE OneShotStop(o)
  <2>1. PICK s \in Streams : s = oneshot[o].key
    BY <1>0
  <2>2. /\ being' = [being EXCEPT ![s] = "absent"]
        /\ orphaned' = orphaned \ {s} /\ aborted' = aborted \union {s}
    BY <1>3, <2>1 DEF OneShotStop, AfterStop
  <2> QED
    BY <1>0, <1>2, <2>1, <2>2 DEF FrsChainInv, OwnsEntry, TypeOK
<1>4. CASE OneShotDone(o) \/ OneShotUnknown(o) \/ OneShotStopDeadline(o)
  BY <1>0, <1>2, <1>4, FrsSameHolders
     DEF OneShotDone, OneShotUnknown, OneShotStopDeadline, vars
<1> QED BY <1>3, <1>4 DEF OneShotStep

\* Looking a stream up, and the first half of a stop.
LEMMA FrsNewCallChain ==
  ASSUME FrsIInv, NEW c \in Clients, NEW s \in Streams,
         MotionStart(c, s) \/ MotionStop(c, s)
  PROVE  FrsChainInv'
<1>0. TypeOK /\ FrsChainInv /\ UNCHANGED <<oneshot, orphaned, aborted>>
      /\ (StartCall(c, s) \/ StopCall(c, s))
  BY DEF FrsIInv, FrsTypeOK, MotionStart, MotionStop
<1>1. \A z \in Streams : Holders(z)' = Holders(z)
  <2>1. /\ call[c] = NoCall /\ call'[c].pc \in {"start", "stop_deadline"}
        /\ \A d \in Clients \ {c} : call'[d] = call[d]
        /\ task' = task
    BY <1>0, NewCallSlot DEF StartCall, StopCall
  <2> QED
    BY <2>1 DEF Holders, TaskHolds, CallHolds, NoCall
<1>2. \A z \in Streams : (being'[z] = "absent") <=> (being[z] = "absent")
  BY <1>0 DEF StartCall, StopCall, AfterStop, TypeOK
<1> QED
  BY <1>0, <1>1, <1>2, FrsSameHolders

-----------------------------------------------------------------------------
(* The request that detaches                                               *)

LEMMA FrsSpawnStep ==
  ASSUME FrsIInv, [FrsNext]_frs_vars
  PROVE  SpawnsWithReason'
<1>0. TypeOK /\ SpawnsWithReason
  BY DEF FrsIInv, FrsTypeOK
<1>1. ASSUME NEW c \in Clients, MotionStep(c) PROVE SpawnsWithReason'
  <2>1. CASE StartMark(c)
    <3> DEFINE r == [call[c] EXCEPT !.spawn = MustSpawn(call[c].key)]
    <3>1. r \in [pc : CallSteps, key : Streams, spawn : BOOLEAN, period : Nat]
      BY <1>0, <2>1, BusySlots DEF StartMark, MustSpawn
    <3>2. call' = [call EXCEPT ![c] = AfterMark(r)]
      BY <1>0, <2>1 DEF StartMark, TypeOK
    <3>3. AfterMark(r).pc = "start_spawn" => AfterMark(r).spawn
      <4> HIDE DEF r
      <4> QED
        BY <3>1 DEF AfterMark, NoCall
    <3> QED
      BY <1>0, <3>2, <3>3 DEF SpawnsWithReason, TypeOK
  <2>2. CASE StartDeadline(c)
    <3>1. call[c] \in [pc : CallSteps, key : Streams, spawn : BOOLEAN, period : Nat]
      BY <1>0, <2>2, BusySlots DEF StartDeadline
    <3> QED
      BY <1>0, <2>2, <3>1 DEF StartDeadline, SpawnsWithReason, TypeOK, NoCall
  <2>3. CASE StartSpawn(c) \/ StopDeadline(c)
    BY <1>0, <2>3 DEF StartSpawn, StopDeadline, SpawnsWithReason, TypeOK, NoCall
  <2> QED
    BY <1>1, <2>1, <2>2, <2>3 DEF MotionStep, MotionStartStep, MotionStopDeadline
<1>2. ASSUME NEW c \in Clients, NEW s \in Streams, MotionStart(c, s) \/ MotionStop(c, s)
      PROVE  SpawnsWithReason'
  BY <1>0, <1>2, NewCallSlot DEF SpawnsWithReason, MotionStart, MotionStop
<1>3. ASSUME call' = call PROVE SpawnsWithReason'
  BY <1>0, <1>3 DEF SpawnsWithReason
<1>4. ASSUME NEW t \in Tasks, RecognizeStep(t) PROVE call' = call
  BY <1>4 DEF RecognizeStep, RecognizeBegin, Undecodable, RecognizeFrame,
       RecognizeStop, RecognizeStopDeadline, NextCheck, NextGoOn, NextEnd,
       FrameDone, FrameFailed, TaskStop, TaskStopDeadline, CheckDeadline,
       GoOn, EndChain
<1>5. ASSUME NEW o \in OneShots, NEW s \in Streams, OneShotCall(o, s)
      PROVE  call' = call
  BY <1>5 DEF OneShotCall, vars
<1>6. ASSUME NEW o \in OneShots, OneShotStep(o) PROVE call' = call
  BY <1>6 DEF OneShotStep, OneShotDone, OneShotUnknown, OneShotStop,
       OneShotStopDeadline, vars
<1>7. CASE ReloadCaches \/ TickClock \/ UNCHANGED frs_vars
  BY <1>3, <1>7 DEF ReloadCaches, RefreshCache, TickClock, Tick, frs_vars, vars
<1> QED
  BY <1>1, <1>2, <1>3, <1>4, <1>5, <1>6, <1>7 DEF FrsNext

-----------------------------------------------------------------------------
(* The invariant and the theorems                                          *)

LEMMA FrsInductiveStep == FrsIInv /\ [FrsNext]_frs_vars => FrsIInv'
<1> SUFFICES ASSUME FrsIInv, [FrsNext]_frs_vars PROVE FrsIInv'
  OBVIOUS
<1>1. FrsTypeOK'
  BY FrsTypeStep DEF FrsIInv
<1>2. SpawnsWithReason'
  BY FrsSpawnStep
<1>3. ASSUME UNCHANGED <<task, call, being, orphaned, aborted>> PROVE FrsChainInv'
  <2>1. \A s \in Streams : Holders(s)' = Holders(s)
    BY <1>3 DEF Holders, TaskHolds, CallHolds
  <2> QED BY <1>3, <2>1, FrsSameHolders DEF FrsIInv
<1>4. ASSUME NEW o \in OneShots, NEW s \in Streams, OneShotCall(o, s)
      PROVE  FrsChainInv'
  BY <1>3, <1>4 DEF OneShotCall, vars
<1>5. ASSUME ReloadCaches \/ TickClock \/ UNCHANGED frs_vars PROVE FrsChainInv'
  BY <1>3, <1>5 DEF ReloadCaches, RefreshCache, TickClock, Tick, frs_vars, vars
<1>6. FrsChainInv'
  BY <1>4, <1>5, FrsMotionChain, FrsRecognizeChain, FrsOneShotChain,
     FrsNewCallChain DEF FrsNext
<1> QED
  BY <1>1, <1>2, <1>6 DEF FrsIInv

LEMMA FrsInductiveInit == FrsInit => FrsIInv
BY DEF FrsInit, Init, FrsIInv, FrsTypeOK, TypeOK, SpawnsWithReason, FrsChainInv,
       OwnsEntry, Holders, TaskHolds, CallHolds, NoTask, NoCall, NoShot

LEMMA FrsInductive == FrsSpec => []FrsIInv
BY FrsInductiveInit, FrsInductiveStep, PTL DEF FrsSpec

\* Every variable of the FRS workflow keeps its type.
THEOREM FrsTypeCorrect == FrsSpec => []FrsTypeOK
<1>1. FrsIInv => FrsTypeOK
  BY DEF FrsIInv
<1> QED BY <1>1, FrsInductive, PTL

\* However many chains a stream has, its entry in being_processed_vstreams is
\* backed by one of them, unless the last one met an undecodable url.
THEOREM FrsEntryHasChain == FrsSpec => []EntryHasChain
<1>1. FrsIInv => EntryHasChain
  BY DEF FrsIInv, FrsChainInv, EntryHasChain
<1> QED BY <1>1, FrsInductive, PTL

\* Only the stop of a request for one image can give a stream a second chain.
THEOREM FrsSecondChainNeedsOneShot == FrsSpec => []SecondChainNeedsOneShot
<1>1. FrsIInv => SecondChainNeedsOneShot
  BY DEF FrsIInv, FrsChainInv, OwnsEntry, SecondChainNeedsOneShot
<1> QED BY <1>1, FrsInductive, PTL

\* Requests for one image and undecodable urls explain every chain without its
\* entry, every entry without its chain, and every second chain.
THEOREM FrsChains_Explained == FrsSpec => []ChainsExplained
BY FrsEntryHasChain, FrsSecondChainNeedsOneShot, PTL DEF ChainsExplained
=============================================================================

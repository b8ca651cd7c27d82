------------------------- MODULE LprsWorkflowProofs --------------------------
(* Theorems about LprsWorkflow, for any number of streams, pipeline tasks  *)
(* and concurrent requests, and any configurations.                        *)
EXTENDS LprsWorkflow, TLAPS

TaskType == {NoTask} \union
  [pc : TaskSteps, key : Streams, retry : BOOLEAN, expired : BOOLEAN]

CallType == {NoCall} \union
  [pc : CallSteps, key : Streams, spawn : BOOLEAN, period : Nat]

-----------------------------------------------------------------------------
(* Type correctness                                                        *)

\* A slot that is at some step of the code is not an empty slot.
LEMMA BusySlots ==
  ASSUME TypeOK
  PROVE  /\ \A t \in Tasks : task[t].pc # "none" =>
              /\ task[t] \in [pc : TaskSteps, key : Streams, retry : BOOLEAN,
                              expired : BOOLEAN]
              /\ task[t].key \in Streams
         /\ \A c \in Clients : call[c].pc # "none" =>
              /\ call[c] \in [pc : CallSteps, key : Streams, spawn : BOOLEAN,
                              period : Nat]
              /\ call[c].key \in Streams
BY DEF TypeOK, NoTask, NoCall

\* The states a request is left in by the steps of startWorkflow.
LEMMA AfterMarkType ==
  ASSUME NEW r \in [pc : CallSteps, key : Streams, spawn : BOOLEAN, period : Nat]
  PROVE  AfterMark(r) \in CallType
BY DEF AfterMark, CallType, CallSteps

LEMMA CallStepType ==
  ASSUME TypeOK, NEW c \in Clients, CallStep(c)
  PROVE  TypeOK'
<1>1. CASE StartMark(c)
  <2> DEFINE s == call[c].key
             r == [call[c] EXCEPT !.spawn = MustSpawn(s)]
  <2>1. s \in Streams /\ r \in [pc : CallSteps, key : Streams, spawn : BOOLEAN,
                                period : Nat]
    BY <1>1, BusySlots DEF StartMark, MustSpawn
  <2>2. call' = [call EXCEPT ![c] = AfterMark(r)]
    BY <1>1 DEF StartMark, TypeOK
  <2>3. call' \in [Clients -> CallType]
    BY <2>1, <2>2, AfterMarkType DEF TypeOK, CallType
  <2>4. being' \in [Streams -> {"absent", "true", "false"}]
    BY <1>1, <2>1 DEF StartMark, TypeOK
  <2>5. QED
    BY <1>1, <2>3, <2>4 DEF StartMark, TypeOK, CallType
<1>2. CASE StartDeadline(c)
  BY <1>2, BusySlots DEF StartDeadline, TypeOK, CallSteps
<1>3. CASE StartSpawn(c)
  BY <1>3, BusySlots DEF StartSpawn, TypeOK, NewTask, TaskSteps
<1>4. CASE StopDeadline(c)
  BY <1>4, BusySlots DEF StopDeadline, TypeOK
<1>5. QED
  BY <1>1, <1>2, <1>3, <1>4 DEF CallStep

LEMMA TaskStepType ==
  ASSUME TypeOK, NEW t \in Tasks, TaskStep(t)
  PROVE  TypeOK'
<1>1. task[t] \in [pc : TaskSteps, key : Streams, retry : BOOLEAN, expired : BOOLEAN]
  BY BusySlots DEF TaskStep, Begin, FrameDone, FrameFailed, TaskStop,
                   TaskStopDeadline, CheckDeadline, GoOn, EndChain
<1>2. CASE Begin(t)
  <2> DEFINE config == cache[task[t].key]
             started == [task[t] EXCEPT !.pc = "frame", !.retry = config.retry]
             stopped == [task[t] EXCEPT !.pc = "stop"]
  <2>1. task' = [task EXCEPT ![t] =
                   IF config # NoConfig /\ config.url THEN started ELSE stopped]
    BY <1>2 DEF Begin
  <2>2. config # NoConfig => config.retry \in BOOLEAN
    BY <1>1, ConstantsOK DEF TypeOK, ConfigType
  <2>3. config # NoConfig => started \in TaskType
    BY <1>1, <2>2 DEF TaskType, TaskSteps
  <2>4. stopped \in TaskType
    BY <1>1 DEF TaskType, TaskSteps
  <2>5. task' \in [Tasks -> TaskType]
    <3> HIDE DEF config, started, stopped
    <3> QED
      BY <2>1, <2>3, <2>4 DEF TypeOK, TaskType
  <2>6. QED
    BY <1>2, <2>5 DEF Begin, TypeOK, TaskType
<1>3. CASE FrameDone(t)
  BY <1>1, <1>3 DEF FrameDone, TypeOK, TaskSteps
<1>4. CASE FrameFailed(t)
  BY <1>1, <1>4 DEF FrameFailed, TypeOK, TaskSteps
<1>5. CASE TaskStop(t)
  BY <1>1, <1>5 DEF TaskStop, TypeOK, TaskSteps, AfterStop
<1>6. CASE TaskStopDeadline(t)
  BY <1>1, <1>6 DEF TaskStopDeadline, TypeOK
<1>7. CASE CheckDeadline(t)
  BY <1>1, <1>7 DEF CheckDeadline, TypeOK, TaskSteps, Passed
<1>8. CASE GoOn(t)
  BY <1>1, <1>8 DEF GoOn, TypeOK, TaskSteps, NewTask
<1>9. CASE EndChain(t)
  BY <1>1, <1>9 DEF EndChain, TypeOK, LeftBehind
<1>10. QED
  BY <1>2, <1>3, <1>4, <1>5, <1>6, <1>7, <1>8, <1>9 DEF TaskStep

LEMMA TypeStep == TypeOK /\ [Next]_vars => TypeOK'
<1> SUFFICES ASSUME TypeOK, [Next]_vars PROVE TypeOK'
  OBVIOUS
<1>1. ASSUME NEW c \in Clients, NEW s \in Streams, StartCall(c, s) PROVE TypeOK'
  <2>1. cache[s] \in ConfigType
    BY <1>1, ConstantsOK DEF StartCall, TypeOK
  <2>2. QED
    BY <1>1, <2>1 DEF StartCall, TypeOK, CallSteps, ConfigType
<1>2. ASSUME NEW c \in Clients, NEW s \in Streams, StopCall(c, s) PROVE TypeOK'
  BY <1>2 DEF StopCall, TypeOK, CallSteps, AfterStop
<1>3. ASSUME NEW c \in Clients, CallStep(c) PROVE TypeOK'
  BY <1>3, CallStepType
<1>4. ASSUME NEW t \in Tasks, TaskStep(t) PROVE TypeOK'
  BY <1>4, TaskStepType
<1>5. CASE RefreshCache
  BY <1>5 DEF RefreshCache, TypeOK
<1>6. CASE Tick
  BY <1>6, ConstantsOK DEF Tick, TypeOK, Later
<1>7. CASE UNCHANGED vars
  BY <1>7 DEF vars, TypeOK
<1>8. QED
  BY <1>1, <1>2, <1>3, <1>4, <1>5, <1>6, <1>7 DEF Next

\* Every variable keeps its type, whatever the calls, tasks and clock do.
THEOREM TypeCorrect == Spec => []TypeOK
<1>1. Init => TypeOK
  BY DEF Init, TypeOK
<1>2. QED
  BY <1>1, TypeStep, PTL DEF Spec

-----------------------------------------------------------------------------
(* One chain per stream                                                    *)

\* Neither half is inductive alone: a start detaches a second chain unless
\* an entry says that there is one, and the end of a chain erases the entry
\* of another one unless there is only one.
\* And a request detaches a chain only if it has found no entry.
SpawnsWithReason ==
  \A c \in Clients : call[c].pc = "start_spawn" => call[c].spawn

ChainInv == OneChainPerStream /\ EntryMeansChain

IInv == TypeOK /\ ChainInv /\ SpawnsWithReason

\* A step that leaves alone who holds which stream, and whether it has an
\* entry, keeps the invariant.
LEMMA SameHolders ==
  ASSUME ChainInv,
         \A s \in Streams : Holders(s)' = Holders(s),
         \A s \in Streams : (being'[s] = "absent") <=> (being[s] = "absent")
  PROVE  ChainInv'
BY DEF ChainInv, OneChainPerStream, EntryMeansChain

\* A step in which a stream loses its only holder and its entry, and no other
\* stream changes, keeps it too.
LEMMA HolderGone ==
  ASSUME ChainInv, TypeOK, NEW h, NEW s \in Streams, h \in Holders(s),
         Holders(s)' = Holders(s) \ {h},
         \A z \in Streams \ {s} : Holders(z)' = Holders(z),
         being' = [being EXCEPT ![s] = "absent"]
  PROVE  ChainInv'
BY DEF ChainInv, OneChainPerStream, EntryMeansChain, TypeOK

LEMMA StartMarkChain ==
  ASSUME TypeOK, ChainInv, NEW c \in Clients, StartMark(c)
  PROVE  ChainInv'
<1> DEFINE s == call[c].key
           r == [call[c] EXCEPT !.spawn = MustSpawn(s)]
<1>1. /\ s \in Streams
      /\ r \in [pc : CallSteps, key : Streams, spawn : BOOLEAN, period : Nat]
      /\ r.key = s /\ r.spawn = MustSpawn(s)
      /\ ~ \E z \in Streams : CallHolds(c, z)
  BY BusySlots DEF StartMark, MustSpawn, CallHolds
<1>2. /\ call' = [call EXCEPT ![c] = AfterMark(r)]
      /\ being' = [being EXCEPT ![s] = "true"]
      /\ task' = task
  BY DEF StartMark, TypeOK
<1>3. call'[c] = AfterMark(r) /\ \A d \in Clients \ {c} : call'[d] = call[d]
  BY <1>2 DEF TypeOK
<1>4. \A z \in Streams : CallHolds(c, z)' <=> z = s /\ MustSpawn(s)
  <2> HIDE DEF s, r
  <2> QED
    BY <1>1, <1>3 DEF CallHolds, AfterMark, NoCall
<1>5. \A z \in Streams :
        Holders(z)' = IF z = s /\ MustSpawn(s) THEN Holders(z) \union {c} ELSE Holders(z)
  <2> HIDE DEF s, r
  <2> QED
    BY <1>1, <1>2, <1>3, <1>4 DEF Holders, TaskHolds, CallHolds
<1>6. MustSpawn(s) => Holders(s) = {}
  BY <1>1 DEF MustSpawn, ChainInv, EntryMeansChain
<1>7. ~MustSpawn(s) => Holders(s) # {}
  BY <1>1 DEF MustSpawn, ChainInv, EntryMeansChain
<1>8. \A z \in Streams : being'[z] = IF z = s THEN "true" ELSE being[z]
  BY <1>2 DEF TypeOK
<1>9. QED
  <2> HIDE DEF s, r
  <2> QED
    BY <1>1, <1>5, <1>6, <1>7, <1>8 DEF ChainInv, OneChainPerStream, EntryMeansChain

LEMMA CallStepChain ==
  ASSUME IInv, NEW c \in Clients, CallStep(c)
  PROVE  ChainInv'
<1> USE DEF IInv
<1>1. CASE StartMark(c)
  BY <1>1, StartMarkChain
<1>2. CASE StartDeadline(c)
  <2>1. /\ call[c].key \in Streams
        /\ call[c] \in [pc : CallSteps, key : Streams, spawn : BOOLEAN, period : Nat]
    BY <1>2, BusySlots DEF StartDeadline
  <2>2. \A s \in Streams : Holders(s)' = Holders(s)
    BY <1>2, <2>1 DEF StartDeadline, Holders, TaskHolds, CallHolds, TypeOK, NoCall
  <2>3. QED
    BY <1>2, <2>2, SameHolders DEF StartDeadline
<1>3. CASE StartSpawn(c)
  <2>0. PICK s \in Streams : s = call[c].key
    BY <1>3, BusySlots DEF StartSpawn
  <2>1. call[c] \in [pc : CallSteps, key : Streams, spawn : BOOLEAN, period : Nat]
    BY <1>3, BusySlots DEF StartSpawn
  <2>2. PICK t \in Tasks : task[t] = NoTask /\ task' = [task EXCEPT ![t] = NewTask(s)]
    BY <1>3, <2>0 DEF StartSpawn
  <2>3. c \in Holders(s) /\ c \notin Tasks /\ t \notin Clients
    BY <1>3, <2>0, <2>1, ConstantsOK DEF StartSpawn, SpawnsWithReason, Holders, CallHolds
  <2>4. Holders(s) = {c} /\ \A z \in Streams \ {s} : c \notin Holders(z)
    BY <2>0, <2>1, <2>3, ConstantsOK DEF ChainInv, OneChainPerStream, Holders, TaskHolds, CallHolds
  <2>5. /\ \A u \in Tasks \ {t}, z \in Streams : TaskHolds(u, z)' <=> TaskHolds(u, z)
        /\ \A z \in Streams : ~TaskHolds(t, z) /\ (TaskHolds(t, z)' <=> z = s)
    BY <2>0, <2>1, <2>2 DEF TaskHolds, TypeOK, NewTask, NoTask
  <2>6. /\ \A d \in Clients \ {c}, z \in Streams : CallHolds(d, z)' <=> CallHolds(d, z)
        /\ \A z \in Streams : ~CallHolds(c, z)'
    BY <1>3 DEF StartSpawn, CallHolds, TypeOK, NoCall
  <2>7. \A z \in Streams \ {s} : Holders(z)' = Holders(z)
    BY <2>3, <2>4, <2>5, <2>6 DEF Holders
  <2>8. Holders(s)' = {t}
    BY <2>0, <2>1, <2>3, <2>4, <2>5, <2>6 DEF Holders
  <2>9. being' = being
    BY <1>3 DEF StartSpawn
  <2>10. QED
    BY <2>1, <2>4, <2>7, <2>8, <2>9 DEF ChainInv, OneChainPerStream, EntryMeansChain
<1>4. CASE StopDeadline(c)
  <2>1. \A s \in Streams : Holders(s)' = Holders(s)
    BY <1>4 DEF StopDeadline, Holders, TaskHolds, CallHolds, TypeOK, NoCall
  <2>2. QED
    BY <1>4, <2>1, SameHolders DEF StopDeadline
<1>5. QED
  BY <1>1, <1>2, <1>3, <1>4 DEF CallStep

LEMMA TaskStepChain ==
  ASSUME IInv, NEW t \in Tasks, TaskStep(t)
  PROVE  ChainInv'
<1> USE DEF IInv
<1>0. PICK s \in Streams : s = task[t].key
  BY BusySlots DEF TaskStep, Begin, FrameDone, FrameFailed, TaskStop,
                   TaskStopDeadline, CheckDeadline, GoOn, EndChain
<1>1. /\ task[t] \in [pc : TaskSteps, key : Streams, retry : BOOLEAN, expired : BOOLEAN]
      /\ call' = call
  BY BusySlots DEF TaskStep, Begin, FrameDone, FrameFailed, TaskStop,
                   TaskStopDeadline, CheckDeadline, GoOn, EndChain
<1>2. CASE Begin(t) \/ FrameDone(t) \/ FrameFailed(t) \/ CheckDeadline(t) \/ GoOn(t)
  <2>1. /\ being' = being
        /\ task[t].pc \in {"begin", "frame", "sleep", "check"}
    BY <1>2 DEF Begin, FrameDone, FrameFailed, CheckDeadline, GoOn
  <2>2. /\ task'[t].key = s
        /\ task'[t].pc \in {"begin", "frame", "sleep", "check", "stop"}
        /\ \A u \in Tasks \ {t} : task'[u] = task[u]
    <3>1. CASE Begin(t)
      BY <1>0, <1>1, <3>1 DEF Begin, TypeOK
    <3>2. CASE FrameDone(t) \/ FrameFailed(t) \/ CheckDeadline(t) \/ GoOn(t)
      BY <1>0, <1>1, <3>2 DEF FrameDone, FrameFailed, CheckDeadline, GoOn, NewTask, TypeOK
    <3>3. QED
      BY <1>2, <3>1, <3>2
  <2>3. \A z \in Streams : Holders(z)' = Holders(z)
    BY <1>0, <1>1, <2>1, <2>2 DEF Holders, TaskHolds, CallHolds
  <2>4. QED
    BY <2>1, <2>3, SameHolders
<1>3. CASE TaskStopDeadline(t)
  <2>1. \A z \in Streams : Holders(z)' = Holders(z)
    BY <1>0, <1>1, <1>3 DEF TaskStopDeadline, Holders, TaskHolds, CallHolds, TypeOK, NoTask
  <2>2. QED
    BY <1>3, <2>1, SameHolders DEF TaskStopDeadline
<1>4. CASE TaskStop(t) \/ EndChain(t)
  <2>1. TaskHolds(t, s)
    BY <1>0, <1>4 DEF TaskHolds, TaskStop, EndChain
  <2>2. \A z \in Streams : ~TaskHolds(t, z)'
    <3>1. task'[t] = NoTask \/ task'[t].pc = "stop_deadline"
      <4>1. DOMAIN task = Tasks
        BY DEF TypeOK
      <4>2. CASE TaskStop(t)
        BY <1>1, <4>1, <4>2 DEF TaskStop
      <4>3. CASE EndChain(t)
        BY <4>1, <4>3 DEF EndChain
      <4>4. QED
        BY <1>4, <4>2, <4>3
    <3>2. QED
      BY <3>1 DEF TaskHolds, NoTask
  <2>3. \A u \in Tasks \ {t}, z \in Streams : TaskHolds(u, z)' <=> TaskHolds(u, z)
    BY <1>4 DEF TaskHolds, TaskStop, EndChain, TypeOK
  <2>4. t \in Holders(s) /\ t \notin Clients
    BY <2>1, ConstantsOK DEF Holders
  <2>5. Holders(s)' = Holders(s) \ {t}
    BY <1>0, <1>1, <2>2, <2>3, <2>4 DEF Holders, CallHolds
  <2>6. \A z \in Streams \ {s} : Holders(z)' = Holders(z)
    BY <1>0, <1>1, <2>2, <2>3, <2>4 DEF Holders, CallHolds, TaskHolds
  <2>7. being' = [being EXCEPT ![s] = "absent"]
    BY <1>0, <1>4 DEF TaskStop, EndChain, LeftBehind, AfterStop
  <2>8. QED
    BY <1>0, <1>1, <2>4, <2>5, <2>6, <2>7, HolderGone
<1>5. QED
  BY <1>2, <1>3, <1>4 DEF TaskStep

\* The first step of a request fills its slot and touches no other.
LEMMA NewCallSlot ==
  ASSUME TypeOK, NEW c \in Clients, NEW s \in Streams, StartCall(c, s) \/ StopCall(c, s)
  PROVE  /\ call[c] = NoCall
         /\ call'[c].pc \in {"start", "stop_deadline"}
         /\ \A d \in Clients \ {c} : call'[d] = call[d]
<1>1. DOMAIN call = Clients
  BY DEF TypeOK
<1>2. CASE StartCall(c, s)
  BY <1>1, <1>2 DEF StartCall
<1>3. CASE StopCall(c, s)
  BY <1>1, <1>3 DEF StopCall
<1>4. QED
  BY <1>2, <1>3

LEMMA SpawnStep ==
  ASSUME IInv, [Next]_vars
  PROVE  SpawnsWithReason'
<1> USE DEF IInv
<1>1. ASSUME NEW c \in Clients, NEW s \in Streams, StartCall(c, s) \/ StopCall(c, s)
      PROVE  SpawnsWithReason'
  BY <1>1, NewCallSlot DEF SpawnsWithReason
<1>2. ASSUME NEW c \in Clients, CallStep(c) PROVE SpawnsWithReason'
  <2>1. CASE StartMark(c)
    <3> DEFINE r == [call[c] EXCEPT !.spawn = MustSpawn(call[c].key)]
    <3>1. r \in [pc : CallSteps, key : Streams, spawn : BOOLEAN, period : Nat]
      BY <2>1, BusySlots DEF StartMark, MustSpawn
    <3>2. call' = [call EXCEPT ![c] = AfterMark(r)]
      BY <2>1 DEF StartMark, TypeOK
    <3>3. AfterMark(r).pc = "start_spawn" => AfterMark(r).spawn
      <4> HIDE DEF r
      <4> QED
        BY <3>1 DEF AfterMark, NoCall
    <3>4. QED
      BY <3>2, <3>3 DEF SpawnsWithReason, TypeOK
  <2>2. CASE StartDeadline(c)
    <3>1. call[c] \in [pc : CallSteps, key : Streams, spawn : BOOLEAN, period : Nat]
      BY <2>2, BusySlots DEF StartDeadline
    <3>2. QED
      BY <2>2, <3>1 DEF StartDeadline, SpawnsWithReason, TypeOK, NoCall
  <2>3. CASE StartSpawn(c) \/ StopDeadline(c)
    BY <2>3 DEF StartSpawn, StopDeadline, SpawnsWithReason, TypeOK, NoCall
  <2>4. QED
    BY <1>2, <2>1, <2>2, <2>3 DEF CallStep
<1>3. ASSUME NEW t \in Tasks, TaskStep(t) PROVE SpawnsWithReason'
  BY <1>3 DEF TaskStep, Begin, FrameDone, FrameFailed, TaskStop, TaskStopDeadline,
              CheckDeadline, GoOn, EndChain, SpawnsWithReason
<1>4. CASE RefreshCache \/ Tick \/ UNCHANGED vars
  BY <1>4 DEF RefreshCache, Tick, vars, SpawnsWithReason
<1>5. QED
  BY <1>1, <1>2, <1>3, <1>4 DEF Next

\* The steps that neither call nor task takes leave every chain alone.
LEMMA OtherStepChain ==
  ASSUME IInv, RefreshCache \/ Tick \/ UNCHANGED vars
  PROVE  ChainInv'
<1>1. task' = task /\ call' = call /\ being' = being
  BY DEF RefreshCache, Tick, vars
<1>2. \A s \in Streams : Holders(s)' = Holders(s)
  BY <1>1 DEF Holders, TaskHolds, CallHolds
<1>3. QED
  BY <1>1, <1>2, SameHolders DEF IInv

\* Looking a stream up, and the first half of a stop, make no holder.
LEMMA NewCallChain ==
  ASSUME IInv, NEW c \in Clients, NEW s \in Streams, StartCall(c, s) \/ StopCall(c, s)
  PROVE  ChainInv'
<1>1. \A z \in Streams : Holders(z)' = Holders(z)
  <2>1. /\ call[c] = NoCall /\ call'[c].pc \in {"start", "stop_deadline"}
        /\ \A d \in Clients \ {c} : call'[d] = call[d]
        /\ task' = task
    BY NewCallSlot DEF IInv, StartCall, StopCall
  <2>2. QED
    BY <2>1 DEF Holders, TaskHolds, CallHolds, NoCall
<1>2. \A z \in Streams : (being'[z] = "absent") <=> (being[z] = "absent")
  BY DEF IInv, StartCall, StopCall, AfterStop, TypeOK
<1>3. QED
  BY <1>1, <1>2, SameHolders DEF IInv

LEMMA InductiveStep == IInv /\ [Next]_vars => IInv'
<1> SUFFICES ASSUME IInv, [Next]_vars PROVE IInv'
  OBVIOUS
<1>1. TypeOK'
  BY TypeStep DEF IInv
<1>2. SpawnsWithReason'
  BY SpawnStep
<1>3. ChainInv'
  BY CallStepChain, TaskStepChain, OtherStepChain, NewCallChain DEF Next
<1>4. QED
  BY <1>1, <1>2, <1>3 DEF IInv

LEMMA InductiveInit == Init => IInv
BY DEF Init, IInv, TypeOK, ChainInv, OneChainPerStream, EntryMeansChain,
       SpawnsWithReason, Holders, TaskHolds, CallHolds, NoTask, NoCall

LEMMA Inductive == Spec => []IInv
BY InductiveInit, InductiveStep, PTL DEF Spec

\* At no time do two chains of pipeline tasks process the same stream.
THEOREM OneChain == Spec => []OneChainPerStream
<1>1. IInv => OneChainPerStream
  BY DEF IInv, ChainInv
<1>2. QED
  BY <1>1, Inductive, PTL

\* At no time is a stream marked as being processed without a chain behind
\* the mark, nor processed without a mark by which a stop could end it.
THEOREM EntryChain == Spec => []EntryMeansChain
<1>1. IInv => EntryMeansChain
  BY DEF IInv, ChainInv
<1>2. QED
  BY <1>1, Inductive, PTL

\* The two together.
THEOREM OneChain_BehindEntry == Spec => []OneChainBehindEntry
BY OneChain, EntryChain, PTL DEF OneChainBehindEntry

-----------------------------------------------------------------------------
(* The workflow implements StreamSession                                   *)

\* The chain's task is alone with the stream it holds.
LEMMA AloneWithStream ==
  ASSUME IInv, NEW t \in Tasks, NEW s \in Streams, TaskHolds(t, s)
  PROVE  /\ being[s] # "absent"
         /\ \A u \in Tasks \ {t} : ~TaskHolds(u, s)
         /\ \A c \in Clients : ~CallHolds(c, s)
<1>1. t \in Holders(s) /\ t \notin Clients
  BY ConstantsOK DEF Holders
<1>2. \A h \in Holders(s) : h = t
  BY <1>1 DEF IInv, ChainInv, OneChainPerStream
<1>3. being[s] # "absent"
  BY <1>1 DEF IInv, ChainInv, EntryMeansChain
<1>4. QED
  BY <1>1, <1>2, <1>3 DEF Holders

\* What is left of SessionOf when the entry is known.
LEMMA SessionCases ==
  ASSUME TypeOK, NEW s \in Streams
  PROVE  /\ being[s] = "absent" => SessionOf(s) = "idle"
         /\ being[s] = "true" => SessionOf(s) = "active"
         /\ being[s] = "false" /\ MayBeginFrame(s) => SessionOf(s) = "last"
         /\ being[s] = "false" /\ ~MayBeginFrame(s) => SessionOf(s) = "draining"
         /\ being[s] \in {"absent", "true", "false"}
BY DEF TypeOK, SessionOf

\* A session depends only on the entry and on whether a frame may begin.
LEMMA SameSession ==
  ASSUME NEW s \in Streams, being'[s] = being[s],
         being[s] = "false" => (MayBeginFrame(s)' <=> MayBeginFrame(s))
  PROVE  SessionOf(s)' = SessionOf(s)
<1>1. CASE being[s] = "false"
  BY <1>1 DEF SessionOf
<1>2. CASE being[s] # "false"
  BY <1>2 DEF SessionOf
<1>3. QED
  BY <1>1, <1>2

LEMMA SessionChange ==
  ASSUME NEW s \in Streams,
         \A z \in Streams \ {s} : SessionOf(z)' = SessionOf(z)
  PROVE  session' = [session EXCEPT ![s] = SessionOf(s)']
BY DEF session

LEMMA FramesMember ==
  ASSUME NEW s, NEW t
  PROVE  <<s, t>> \in FramesInProgress
           <=> t \in Tasks /\ task[t].pc = "frame" /\ task[t].key = s
BY DEF FramesInProgress

\* A step of the task t, as the other streams and tasks see it.
LEMMA OtherStreams ==
  ASSUME NEW t \in Tasks, NEW s \in Streams, task[t].key = s,
         task'[t].key = s \/ task'[t].pc = "none",
         \A u \in Tasks \ {t} : task'[u] = task[u],
         call' = call,
         \A z \in Streams \ {s} : being'[z] = being[z]
  PROVE  \A z \in Streams \ {s} : SessionOf(z)' = SessionOf(z)
<1> SUFFICES ASSUME NEW z \in Streams \ {s} PROVE SessionOf(z)' = SessionOf(z)
  OBVIOUS
<1>1. \A u \in Tasks : (task'[u].key = z /\ task'[u].pc = "begin")
                          <=> (task[u].key = z /\ task[u].pc = "begin")
  OBVIOUS
<1>2. MayBeginFrame(z)' <=> MayBeginFrame(z)
  BY <1>1 DEF MayBeginFrame, CallHolds
<1>3. QED
  BY <1>2, SameSession

\* Frames in progress after a step of the task t.
LEMMA FramesAfter ==
  ASSUME NEW t \in Tasks, \A u \in Tasks \ {t} : task'[u] = task[u]
  PROVE  /\ task[t].pc # "frame" /\ task'[t].pc # "frame" =>
              FramesInProgress' = FramesInProgress
         /\ task[t].pc # "frame" /\ task'[t].pc = "frame" =>
              FramesInProgress' = FramesInProgress \union {<<task'[t].key, t>>}
         /\ task[t].pc = "frame" /\ task'[t].pc # "frame" =>
              FramesInProgress' = FramesInProgress \ {<<task[t].key, t>>}
BY DEF FramesInProgress

\* A step that neither touches an entry nor makes or takes away the first
\* step of a chain, nor a frame, is not seen in the session.
LEMMA Unseen ==
  ASSUME being' = being,
         \A s \in Streams : being[s] = "false" => (MayBeginFrame(s)' <=> MayBeginFrame(s)),
         FramesInProgress' = FramesInProgress
  PROVE  UNCHANGED Session!vars
<1>1. \A s \in Streams : SessionOf(s)' = SessionOf(s)
  BY SameSession
<1>2. session' = session
  BY <1>1 DEF session
<1>3. QED
  BY <1>2 DEF Session!vars

LEMMA CallRefines ==
  ASSUME IInv, NEW c \in Clients, CallStep(c)
  PROVE  [Session!Next]_(Session!vars)
<1> USE DEF IInv
<1>1. PICK s \in Streams : s = call[c].key
  BY BusySlots DEF CallStep, StartMark, StartDeadline, StartSpawn, StopDeadline
<1>2. call[c] \in [pc : CallSteps, key : Streams, spawn : BOOLEAN, period : Nat]
  BY BusySlots DEF CallStep, StartMark, StartDeadline, StartSpawn, StopDeadline
<1>3. CASE StartMark(c)
  <2>1. being' = [being EXCEPT ![s] = "true"] /\ task' = task
    BY <1>1, <1>3 DEF StartMark
  <2>2. FramesInProgress' = FramesInProgress
    BY <2>1 DEF FramesInProgress
  <2>3. call'[c].key \in {s, NoStream} /\ \A d \in Clients \ {c} : call'[d] = call[d]
    <3> DEFINE r == [call[c] EXCEPT !.spawn = MustSpawn(s)]
    <3>1. DOMAIN call = Clients
      BY DEF TypeOK
    <3>2. call' = [call EXCEPT ![c] = AfterMark(r)]
      BY <1>1, <1>3 DEF StartMark
    <3>3. AfterMark(r).key \in {s, NoStream}
      BY <1>1, <1>2 DEF AfterMark, NoCall
    <3>4. QED
      <4> HIDE DEF r
      <4> QED
        BY <3>1, <3>2, <3>3
  <2>4. \A z \in Streams \ {s} : MayBeginFrame(z)' <=> MayBeginFrame(z)
    BY <1>1, <2>1, <2>3, ConstantsOK DEF MayBeginFrame, CallHolds
  <2>5. \A z \in Streams \ {s} : SessionOf(z)' = SessionOf(z)
    BY <2>1, <2>4, SameSession DEF TypeOK
  <2>6. SessionOf(s)' = "active"
    BY <2>1 DEF SessionOf, TypeOK
  <2>7. session' = [session EXCEPT ![s] = "active"]
    BY <2>5, <2>6, SessionChange
  <2>8. CASE session[s] = "active"
    BY <2>2, <2>7, <2>8 DEF Session!vars, session
  <2>9. CASE session[s] # "active"
    BY <2>2, <2>7, <2>9 DEF Session!Next, Session!Start
  <2>10. QED
    BY <2>8, <2>9
<1>4. CASE StartDeadline(c)
  <2>1. \A z \in Streams : CallHolds(c, z)' <=> CallHolds(c, z)
    BY <1>1, <1>2, <1>4 DEF StartDeadline, CallHolds, TypeOK, NoCall
  <2>2. \A z \in Streams : MayBeginFrame(z)' <=> MayBeginFrame(z)
    BY <1>4, <2>1 DEF StartDeadline, MayBeginFrame, CallHolds, TypeOK
  <2>3. being' = being /\ FramesInProgress' = FramesInProgress
    BY <1>4 DEF StartDeadline, FramesInProgress
  <2>4. QED
    BY <2>2, <2>3, Unseen
<1>5. CASE StartSpawn(c)
  <2>1. PICK t \in Tasks : task[t] = NoTask /\ task' = [task EXCEPT ![t] = NewTask(s)]
    BY <1>1, <1>5 DEF StartSpawn
  <2>2. /\ task[t].pc = "none" /\ task'[t].pc = "begin" /\ task'[t].key = s
        /\ \A u \in Tasks \ {t} : task'[u] = task[u]
    BY <2>1 DEF TypeOK, NewTask, NoTask
  <2>3. FramesInProgress' = FramesInProgress
    BY <2>2, FramesAfter
  <2>4. call'[c].pc = "none" /\ \A d \in Clients \ {c} : call'[d] = call[d]
    BY <1>5 DEF StartSpawn, TypeOK, NoCall
  <2>5. CallHolds(c, s)
    BY <1>1, <1>5 DEF StartSpawn, SpawnsWithReason, CallHolds
  <2>6. \A z \in Streams : MayBeginFrame(z)' <=> MayBeginFrame(z)
    <3>1. MayBeginFrame(s) /\ MayBeginFrame(s)'
      BY <2>2, <2>5 DEF MayBeginFrame
    <3>2. ASSUME NEW z \in Streams \ {s} PROVE MayBeginFrame(z)' <=> MayBeginFrame(z)
      BY <1>1, <2>2, <2>4 DEF MayBeginFrame, CallHolds
    <3>3. QED
      BY <3>1, <3>2
  <2>7. QED
    BY <1>5, <2>3, <2>6, Unseen DEF StartSpawn
<1>6. CASE StopDeadline(c)
  <2>1. \A z \in Streams : MayBeginFrame(z)' <=> MayBeginFrame(z)
    BY <1>6 DEF StopDeadline, MayBeginFrame, CallHolds, TypeOK, NoCall
  <2>2. being' = being /\ FramesInProgress' = FramesInProgress
    BY <1>6 DEF StopDeadline, FramesInProgress
  <2>3. QED
    BY <2>1, <2>2, Unseen
<1>7. QED
  BY <1>3, <1>4, <1>5, <1>6 DEF CallStep

\* The first step of a request: a start has changed nothing yet, a stop has
\* marked the entry.
LEMMA NewCallRefines ==
  ASSUME IInv, NEW c \in Clients, NEW s \in Streams, StartCall(c, s) \/ StopCall(c, s)
  PROVE  [Session!Next]_(Session!vars)
<1> USE DEF IInv
<1>1. task' = task /\ FramesInProgress' = FramesInProgress
  BY DEF StartCall, StopCall, FramesInProgress
<1>2. \A z \in Streams : MayBeginFrame(z)' <=> MayBeginFrame(z)
  BY <1>1, NewCallSlot DEF MayBeginFrame, CallHolds, NoCall
<1>3. CASE StartCall(c, s)
  BY <1>1, <1>2, <1>3, Unseen DEF StartCall
<1>4. CASE StopCall(c, s)
  <2>1. being' = [being EXCEPT ![s] = IF being[s] = "absent" THEN "absent" ELSE "false"]
    BY <1>4 DEF StopCall, AfterStop
  <2>2. CASE being[s] # "true"
    <3>1. being' = being
      BY <2>1, <2>2 DEF TypeOK
    <3>2. QED
      BY <1>1, <1>2, <3>1, Unseen
  <2>3. CASE being[s] = "true"
    <3>1. \A z \in Streams \ {s} : SessionOf(z)' = SessionOf(z)
      BY <1>2, <2>1, SameSession DEF TypeOK
    <3>2. being'[s] = "false"
      BY <2>1, <2>3 DEF TypeOK
    <3>3. SessionOf(s) = "active" /\ SessionOf(s)' \in {"last", "draining"}
      BY <2>3, <3>2 DEF SessionOf
    <3>4. session' = [session EXCEPT ![s] = SessionOf(s)']
      BY <3>1, SessionChange
    <3>5. Session!Stop(s)
      BY <1>1, <3>3, <3>4 DEF Session!Stop, session
    <3>6. QED
      BY <3>5 DEF Session!Next
  <2>4. QED
    BY <2>2, <2>3
<1>5. QED
  BY <1>3, <1>4

\* What a task's step leaves alone, and the slot it changes.
LEMMA TaskSlot ==
  ASSUME TypeOK, NEW t \in Tasks, TaskStep(t)
  PROVE  /\ task[t] \in [pc : TaskSteps, key : Streams, retry : BOOLEAN, expired : BOOLEAN]
         /\ task'[t].key = task[t].key \/ task'[t].pc = "none"
         /\ \A u \in Tasks \ {t} : task'[u] = task[u]
         /\ call' = call
         /\ \A z \in Streams \ {task[t].key} : being'[z] = being[z]
<1>1. task[t] \in [pc : TaskSteps, key : Streams, retry : BOOLEAN, expired : BOOLEAN]
  BY BusySlots DEF TaskStep, Begin, FrameDone, FrameFailed, TaskStop,
                   TaskStopDeadline, CheckDeadline, GoOn, EndChain
<1>2. DOMAIN task = Tasks /\ DOMAIN being = Streams
  BY DEF TypeOK
<1>3. task'[t].key = task[t].key \/ task'[t].pc = "none"
  <2>1. CASE Begin(t)
    BY <1>1, <1>2, <2>1 DEF Begin
  <2>2. CASE FrameDone(t) \/ FrameFailed(t) \/ CheckDeadline(t) \/ TaskStop(t)
    <3>1. CASE FrameDone(t)
      BY <1>1, <1>2, <3>1 DEF FrameDone
    <3>2. CASE FrameFailed(t)
      BY <1>1, <1>2, <3>2 DEF FrameFailed
    <3>3. CASE CheckDeadline(t)
      BY <1>1, <1>2, <3>3 DEF CheckDeadline
    <3>4. CASE TaskStop(t)
      BY <1>1, <1>2, <3>4 DEF TaskStop
    <3>5. QED
      BY <2>2, <3>1, <3>2, <3>3, <3>4
  <2>3. CASE GoOn(t)
    BY <1>2, <2>3 DEF GoOn, NewTask
  <2>4. CASE TaskStopDeadline(t) \/ EndChain(t)
    BY <1>2, <2>4 DEF TaskStopDeadline, EndChain, NoTask
  <2>5. QED
    BY <2>1, <2>2, <2>3, <2>4 DEF TaskStep
<1>4. \A u \in Tasks \ {t} : task'[u] = task[u]
  BY <1>2 DEF TaskStep, Begin, FrameDone, FrameFailed, TaskStop, TaskStopDeadline,
              CheckDeadline, GoOn, EndChain
<1>5. call' = call /\ \A z \in Streams \ {task[t].key} : being'[z] = being[z]
  BY <1>2 DEF TaskStep, Begin, FrameDone, FrameFailed, TaskStop, TaskStopDeadline,
              CheckDeadline, GoOn, EndChain
<1>6. QED
  BY <1>1, <1>3, <1>4, <1>5

LEMMA TaskRefines ==
  ASSUME IInv, NEW t \in Tasks, TaskStep(t)
  PROVE  [Session!Next]_(Session!vars)
<1> USE DEF IInv
<1>1. PICK s \in Streams : s = task[t].key
  BY TaskSlot
<1>2. /\ task'[t].key = s \/ task'[t].pc = "none"
      /\ \A u \in Tasks \ {t} : task'[u] = task[u]
      /\ call' = call
      /\ \A z \in Streams \ {s} : being'[z] = being[z]
  BY <1>1, TaskSlot
<1>3. session' = [session EXCEPT ![s] = SessionOf(s)']
  BY <1>1, <1>2, OtherStreams, SessionChange
<1>4. DOMAIN task = Tasks
         /\ task[t] \in [pc : TaskSteps, key : Streams, retry : BOOLEAN, expired : BOOLEAN]
  BY TaskSlot DEF TypeOK
<1>5. TaskHolds(t, s) => /\ being[s] \in {"true", "false"}
                         /\ \A u \in Tasks \ {t} : ~TaskHolds(u, s)
                         /\ \A c \in Clients : ~CallHolds(c, s)
  BY AloneWithStream DEF TypeOK
<1>6. TaskHolds(t, s) => (Session!Busy(s) <=> task[t].pc = "frame")
  <2>1. Session!Busy(s) <=> \E u \in Tasks : task[u].pc = "frame" /\ task[u].key = s
    BY FramesMember DEF Session!Busy
  <2>2. QED
    BY <1>1, <1>5, <2>1 DEF TaskHolds
<1>7. TaskHolds(t, s) => (MayBeginFrame(s) <=> task[t].pc = "begin")
  BY <1>1, <1>5 DEF MayBeginFrame, TaskHolds
<1>8. TaskHolds(t, s) => (MayBeginFrame(s)' <=> task'[t].key = s /\ task'[t].pc = "begin")
  BY <1>2, <1>5 DEF MayBeginFrame, TaskHolds, CallHolds
<1>9. session[s] = SessionOf(s)
  BY DEF session
<1>10. CASE Begin(t)
  <2>1. /\ task[t].pc = "begin" /\ TaskHolds(t, s) /\ being' = being
        /\ task'[t].key = s /\ task'[t].pc \in {"frame", "stop"}
    BY <1>1, <1>4, <1>10 DEF Begin, TaskHolds
  <2>2. /\ being[s] = "true" => SessionOf(s) = "active" /\ SessionOf(s)' = "active"
        /\ being[s] = "false" => SessionOf(s) = "last" /\ SessionOf(s)' = "draining"
    BY <1>7, <1>8, <2>1 DEF SessionOf
  <2>3. CASE task'[t].pc = "frame"
    <3>1. FramesInProgress' = FramesInProgress \union {<<s, t>>}
      BY <1>2, <2>1, <2>3, FramesAfter
    <3>2. session[s] \in {"active", "last"} /\ ~Session!Busy(s)
      BY <1>5, <1>6, <1>9, <2>1, <2>2
    <3>3. SessionOf(s)' = IF session[s] = "last" THEN "draining" ELSE session[s]
      BY <1>5, <1>9, <2>1, <2>2
    <3>4. Session!BeginFrame(s, t)
      BY <1>3, <3>1, <3>2, <3>3 DEF Session!BeginFrame, session
    <3>5. QED
      BY <3>4 DEF Session!Next
  <2>4. CASE task'[t].pc = "stop"
    <3>1. FramesInProgress' = FramesInProgress
      BY <1>2, <2>1, <2>4, FramesAfter
    <3>2. CASE being[s] = "true"
      BY <1>3, <1>9, <2>2, <3>1, <3>2 DEF Session!vars, session
    <3>3. CASE being[s] = "false"
      <4>1. Session!GiveUp(s)
        BY <1>3, <1>9, <2>2, <3>1, <3>3 DEF Session!GiveUp
      <4>2. QED
        BY <4>1 DEF Session!Next
    <3>4. QED
      BY <1>5, <2>1, <3>2, <3>3
  <2>5. QED
    BY <2>1, <2>3, <2>4
<1>11. CASE FrameDone(t) \/ FrameFailed(t)
  <2>1. /\ task[t].pc = "frame" /\ TaskHolds(t, s) /\ being' = being
        /\ task'[t].pc \in {"sleep", "stop"}
    BY <1>1, <1>4, <1>11 DEF FrameDone, FrameFailed, TaskHolds
  <2>2. FramesInProgress' = FramesInProgress \ {<<s, t>>}
    BY <1>1, <1>2, <2>1, FramesAfter
  <2>3. SessionOf(s)' = SessionOf(s)
    BY <1>7, <1>8, <2>1, SameSession
  <2>4. <<s, t>> \in FramesInProgress
    BY <1>1, <2>1, FramesMember
  <2>5. Session!EndFrame(s, t)
    BY <1>3, <2>2, <2>3, <2>4 DEF Session!EndFrame, session
  <2>6. QED
    BY <2>5 DEF Session!Next
<1>12. CASE TaskStop(t) \/ EndChain(t)
  <2>1. /\ task[t].pc \in {"stop", "check"} /\ TaskHolds(t, s)
        /\ being'[s] = "absent" /\ task'[t].pc # "frame"
    BY <1>1, <1>4, <1>12 DEF TaskStop, EndChain, TaskHolds, LeftBehind, AfterStop,
                             NoTask, TypeOK
  <2>2. FramesInProgress' = FramesInProgress
    BY <1>2, <2>1, FramesAfter
  <2>3. SessionOf(s)' = "idle"
    BY <2>1 DEF SessionOf
  <2>4. session[s] \in {"active", "draining"} /\ ~Session!Busy(s)
    BY <1>5, <1>6, <1>7, <1>9, <2>1, SessionCases
  <2>5. Session!Finish(s)
    BY <1>3, <2>2, <2>3, <2>4 DEF Session!Finish
  <2>6. QED
    BY <2>5 DEF Session!Next
<1>13. CASE TaskStopDeadline(t) \/ CheckDeadline(t)
  <2>1. /\ task[t].pc \in {"stop_deadline", "sleep"} /\ being' = being
        /\ task'[t].pc \in {"none", "check"}
    BY <1>4, <1>13 DEF TaskStopDeadline, CheckDeadline, NoTask
  <2>2. FramesInProgress' = FramesInProgress
    BY <1>2, <2>1, FramesAfter
  <2>3. \A z \in Streams : MayBeginFrame(z)' <=> MayBeginFrame(z)
    BY <1>2, <2>1 DEF MayBeginFrame, CallHolds
  <2>4. QED
    BY <2>1, <2>2, <2>3, Unseen
<1>14. CASE GoOn(t)
  <2>1. /\ task[t].pc = "check" /\ being' = being /\ being[s] = "true"
        /\ task'[t].pc = "begin"
    BY <1>1, <1>4, <1>14 DEF GoOn, GoesOn, NewTask
  <2>2. FramesInProgress' = FramesInProgress
    BY <1>2, <2>1, FramesAfter
  <2>3. SessionOf(s)' = SessionOf(s)
    BY <2>1 DEF SessionOf
  <2>4. QED
    BY <1>3, <2>2, <2>3 DEF Session!vars, session
<1>15. QED
  BY <1>10, <1>11, <1>12, <1>13, <1>14 DEF TaskStep

LEMMA StepRefines == IInv /\ [Next]_vars => [Session!Next]_(Session!vars)
<1> SUFFICES ASSUME IInv, [Next]_vars PROVE [Session!Next]_(Session!vars)
  OBVIOUS
<1>1. CASE RefreshCache \/ Tick \/ UNCHANGED vars
  <2>1. being' = being /\ task' = task /\ call' = call
    BY <1>1 DEF RefreshCache, Tick, vars
  <2>2. /\ FramesInProgress' = FramesInProgress
        /\ \A s \in Streams : MayBeginFrame(s)' <=> MayBeginFrame(s)
    BY <2>1 DEF FramesInProgress, MayBeginFrame, CallHolds
  <2>3. QED
    BY <2>1, <2>2, Unseen
<1>2. QED
  BY <1>1, CallRefines, TaskRefines, NewCallRefines DEF Next

\* The workflow implements the session: one frame of a stream at a time, at
\* most one more after a stop, and a start honoured at any moment.
THEOREM Refinement == Spec => ImplementsSession
<1>1. Init => Session!Init
  BY DEF Init, Session!Init, session, SessionOf, FramesInProgress, NoTask
<1>2. QED
  BY <1>1, StepRefines, Inductive, PTL DEF Spec, ImplementsSession, Session!Spec
=============================================================================

------------------------- MODULE FrsCopyEventsProofs -------------------------
(***************************************************************************)
(* Proofs about FrsCopyEvents, for any number of events and failures, any  *)
(* calls of bestQuality and any time to live.                              *)
(*                                                                         *)
(* IInv follows a row through a round of copying (Rounds), compares times  *)
(* of rows, of files and of cleaning (Times), and says what a restart, a   *)
(* failure or a second scheduling may have spoiled (Copies, Taken).        *)
(***************************************************************************)
EXTENDS FrsCopyEvents, TLAPS

Plain == {"unscheduled", "scheduled", "done"}

\* The copier's rows: each once, never events of special groups, under the
\* uuid of the row unless that was scheduled again.
Todo ==
  /\ \A p \in copier.todo : \A r \in copier.todo : p[1] = r[1] => p = r
  /\ \A p \in copier.todo :
       /\ writer[p[1]] # "new"
       /\ row[p[1]] \in {"absent", "scheduled", "done"}
       /\ p[1] \notin stale /\ row[p[1]] # "absent" => uuid[p[1]] = p[2]

\* The row it is at.
Current ==
  /\ copier.step = "idle" => copier.todo = {}
  /\ copier.step \in {"idle", "next"} => copier.event = NoEvent
  /\ copier.step \in {"append", "commit", "close"} =>
       /\ <<copier.event, copier.uuid>> \in copier.todo
       /\ copier.event \in Events /\ copier.uuid \in Requests
       /\ writer[copier.event] = "finished"

\* The rows that calls of bestQuality have read.
Reads ==
  \A q \in Requests : request[q].step = "read" =>
    /\ request[q].event \in Events
    /\ writer[request[q].event] # "new"
    /\ row[request[q].event] # "disabled"

Rounds == Todo /\ Current /\ Reads

\* A row is older than its files, and what is being cleaned is older still.
Times ==
  /\ \A e \in Events :
       /\ born[e] <= now
       /\ json[e] = "full" => writer[e] = "finished"
       /\ row[e] \in Plain /\ writer[e] \in {"close", "finished"} =>
            /\ e \in dat /\ born[e] <= dat_time[e]
            /\ json[e] = (IF writer[e] = "close" THEN "empty" ELSE "full")
            /\ born[e] <= json_time[e]
  /\ cleaner.step = "files" =>
       cleaner.before <= now /\ \A e \in Events : row[e] # "absent" => born[e] >= cleaner.before

\* How often an event was appended, and when its copied JSON is complete.
Copies ==
  \A e \in Events :
    /\ writer[e] = "new" => day_file[e] = 0
    /\ e \notin missed \union stale =>
         /\ day_file[e] <= 1
         /\ row[e] \in {"unscheduled", "scheduled"} =>
              day_file[e] = 0 \/ (Copying(e) /\ copier.step = "commit")
         /\ e \in RowsOf(copier.todo) =>
              day_file[e] = 0 \/ (Copying(e) /\ copier.step \in {"commit", "close"})
    /\ Copying(e) /\ copier.step = "commit" => day_file[e] > 0
    /\ day_file[e] > 0 => Copying(e) \/ e \in cut \/ copied[e] \in Requests

\* A row that is ready to be copied is among those that the copier has taken.
Taken ==
  \A e \in Events :
    /\ row[e] = "scheduled" /\ writer[e] = "finished" /\ e \notin fresh \union missed
         => e \in RowsOf(copier.todo)
    /\ Copying(e) /\ copier.step = "close" /\ row[e] = "scheduled"
         => e \in fresh \union missed

IInv == TypeOK /\ Rounds /\ Times /\ Copies /\ Taken /\ DoneMeansCopied

-----------------------------------------------------------------------------
(* Types                                                                   *)

LEMMA InitType == Init => TypeOK
BY ConstantsOK DEF Init, TypeOK, Events, NoEvent, NoRound, NoCleaning

LEMMA RestType ==
  ASSUME TypeOK, NEW p
  PROVE  Rest(p) \in [step : {"idle", "next", "append", "commit", "close"},
                      todo : SUBSET (Events \X Requests),
                      event : Events \union {NoEvent}, uuid : Requests \union {"none"}]
BY DEF Rest, NoRound, TypeOK

LEMMA FaultType == TypeOK /\ Fault => faults' \in 0..MaxFaults
BY ConstantsOK DEF TypeOK, Fault

LEMMA NextType == TypeOK /\ Rounds /\ [Next]_vars => TypeOK'
<1> SUFFICES ASSUME TypeOK, Rounds, [Next]_vars PROVE TypeOK'
  OBVIOUS
<1> USE DEF log, files, copies, history
<1>1. ASSUME NEW e \in Events, LogFace(e) PROVE TypeOK'
  BY <1>1, FaultType DEF LogFace, IsNext, TypeOK
<1>2. ASSUME NEW e \in Events, LogSpecialFace(e) PROVE TypeOK'
  BY <1>2 DEF LogSpecialFace, IsNext, TypeOK
<1>3. ASSUME NEW e \in Events, WriteData(e) PROVE TypeOK'
  <2>1. /\ dat_time' \in [Events -> Nat] /\ json_time' \in [Events -> Nat]
        /\ dat' \subseteq Events
        /\ json' \in [Events -> {"absent", "empty", "full"}]
    BY <1>3 DEF WriteData, TypeOK
  <2>2. \/ writer' = [writer EXCEPT ![e] = "close"]
        \/ writer' = [writer EXCEPT ![e] = "failed"]
    BY <1>3 DEF WriteData
  <2>3. /\ writer' \in [Events -> {"new", "data", "close", "finished", "failed"}]
        /\ \A f \in Events : writer[f] # "new" => writer'[f] # "new"
    BY <2>2 DEF TypeOK
  <2>4. faults' \in 0..MaxFaults
    <3>1. UNCHANGED faults \/ Fault
      BY <1>3 DEF WriteData
    <3> QED BY <3>1, FaultType DEF TypeOK
  <2> QED BY <1>3, <2>1, <2>3, <2>4 DEF WriteData, TypeOK
<1>4. ASSUME NEW e \in Events, CloseJson(e) PROVE TypeOK'
  <2>1. /\ dat_time' \in [Events -> Nat] /\ json_time' \in [Events -> Nat]
        /\ json' \in [Events -> {"absent", "empty", "full"}]
        /\ fresh' \subseteq Events
    BY <1>4 DEF CloseJson, TypeOK
  <2>2. /\ writer' \in [Events -> {"new", "data", "close", "finished", "failed"}]
        /\ \A f \in Events : writer[f] # "new" => writer'[f] # "new"
    BY <1>4 DEF CloseJson, TypeOK
  <2> QED BY <1>4, <2>1, <2>2 DEF CloseJson, TypeOK
<1>5. ASSUME NEW q \in Requests, NEW e \in Events, ReadRow(q, e) PROVE TypeOK'
  BY <1>5 DEF ReadRow, TypeOK
<1>6. ASSUME NEW q \in Requests, ScheduleRow(q) PROVE TypeOK'
  <2> DEFINE e == request[q].event
  <2>1. e \in Events
    BY <1>6 DEF ScheduleRow, Rounds, Reads
  <2>2. request' \in [Requests -> [step : {"new", "read", "over"},
                                   event : Events \union {NoEvent}]]
    BY <1>6 DEF ScheduleRow, TypeOK
  <2> HIDE DEF e
  <2>3. CASE row[e] # "absent"
    BY <1>6, <2>1, <2>2, <2>3, ConstantsOK DEF ScheduleRow, TypeOK, e
  <2>4. CASE row[e] = "absent"
    BY <1>6, <2>2, <2>4 DEF ScheduleRow, TypeOK, e
  <2> QED BY <2>3, <2>4
<1>7. CASE StartRound
  <2>1. Selected \subseteq Events \X Requests
    BY DEF Selected
  <2> QED BY <1>7, <2>1 DEF StartRound, NoRound, TypeOK
<1>8. ASSUME NEW p \in copier.todo,
             SkipRow(p) \/ DirectoryFails(p) \/ AbortRound(p) \/ CopyJson(p)
      PROVE  TypeOK'
  <2>1. p \in Events \X Requests /\ RowsOf(copier.todo) \subseteq Events
    BY DEF TypeOK, RowsOf
  <2>2. CASE SkipRow(p)
    BY <2>2, RestType DEF SkipRow, TypeOK
  <2>3. CASE AbortRound(p)
    BY <2>1, <2>3 DEF AbortRound, NoRound, TypeOK
  <2>4. CASE CopyJson(p)
    BY <2>1, <2>4 DEF CopyJson, TypeOK
  <2>5. CASE DirectoryFails(p)
    BY <2>1, <2>5, RestType, FaultType DEF DirectoryFails, TypeOK
  <2> QED BY <1>8, <2>2, <2>3, <2>4, <2>5
<1>9. CASE NoData
  BY <1>9 DEF NoData, TypeOK
<1>10. CASE AppendData
  BY <1>10 DEF AppendData, TypeOK
<1>11. CASE BeginFails
  <2>1. RowsOf(copier.todo) \subseteq Events /\ copier.uuid \in Requests
    BY <1>11 DEF TypeOK, RowsOf, BeginFails, Rounds, Current
  <2> QED BY <1>11, <2>1, FaultType DEF BeginFails, NoRound, TypeOK
<1>12. CASE Commit
  <2>1. copier.event \in Events
    BY <1>12 DEF Commit, Rounds, Current
  <2>2. row[copier.event] # "absent" => uuid[copier.event] # "none"
    <3>1. <<copier.event, copier.uuid>> \in copier.todo /\ copier.uuid \in Requests
      BY <1>12 DEF Commit, Rounds, Current
    <3>2. row[copier.event] \in {"absent", "scheduled", "done"}
      BY <3>1 DEF Rounds, Todo
    <3> QED BY <2>1, <3>2 DEF TypeOK
  <2> QED BY <1>12, <2>1, <2>2 DEF Commit, Done, TypeOK
<1>13. CASE Rollback
  BY <1>13, FaultType DEF Rollback, Rounds, Current, TypeOK
<1>14. CASE CloseCopy
  <2>1. copier.uuid \in Requests
    BY <1>14 DEF CloseCopy, Rounds, Current
  <2> QED BY <1>14, <2>1, RestType DEF CloseCopy, TypeOK
<1>15. CASE CleanRows
  <2>1. cleaner' \in [step : {"idle", "files"}, before : Int]
    BY <1>15, ConstantsOK DEF CleanRows, TypeOK
  <2> QED BY <1>15, <2>1 DEF CleanRows, OldRows, TypeOK
<1>16. CASE CleanRowsFails \/ EndCleaning
  BY <1>16, FaultType DEF CleanRowsFails, EndCleaning, NoCleaning, TypeOK
<1>17. ASSUME NEW e \in Events, CleanData(e) \/ CleanJson(e) PROVE TypeOK'
  <2>1. dat_time' \in [Events -> Nat] /\ json_time' \in [Events -> Nat]
    BY <1>17 DEF CleanData, CleanJson, TypeOK
  <2> QED BY <1>17, <2>1 DEF CleanData, CleanJson, TypeOK
<1>18. CASE Restart
  <2>1. RowsOf(copier.todo) \subseteq Events
    BY DEF TypeOK, RowsOf
  <2>2. /\ writer' \in [Events -> {"new", "data", "close", "finished", "failed"}]
        /\ \A f \in Events : writer[f] # "new" => writer'[f] # "new"
    BY <1>18 DEF Restart, Busy, TypeOK
  <2>3. request' \in [Requests -> [step : {"new", "read", "over"},
                                   event : Events \union {NoEvent}]]
    BY <1>18 DEF Restart, TypeOK
  <2>4. cut' \subseteq Events /\ faults' \in 0..MaxFaults
    BY <1>18, FaultType DEF Restart, TypeOK
  <2> QED BY <1>18, <2>1, <2>2, <2>3, <2>4 DEF Restart, NoRound, NoCleaning, TypeOK
<1>19. CASE Tick
  BY <1>19 DEF Tick, TypeOK
<1>20. CASE UNCHANGED vars
  BY <1>20 DEF vars, TypeOK
<1> QED
  BY <1>1, <1>2, <1>3, <1>4, <1>5, <1>6, <1>7, <1>8, <1>9, <1>10, <1>11, <1>12, <1>13,
     <1>14, <1>15, <1>16, <1>17, <1>18, <1>19, <1>20 DEF Next, Write, HandleRow, Clean

-----------------------------------------------------------------------------
(* Rounds of copying                                                       *)

LEMMA RestFacts ==
  ASSUME TypeOK, NEW p
  PROVE  /\ Rest(p).todo = copier.todo \ {p}
         /\ Rest(p).event = NoEvent
         /\ Rest(p).step \in {"idle", "next"}
         /\ Rest(p).step = "idle" => Rest(p).todo = {}
BY DEF Rest, NoRound, TypeOK

LEMMA InitRounds == Init => Rounds
BY DEF Init, Rounds, Todo, Current, Reads, NoRound

LEMMA TodoStep == TypeOK /\ Rounds /\ Times /\ [Next]_vars => Todo'
<1> SUFFICES ASSUME TypeOK, Rounds, Times, [Next]_vars PROVE Todo'
  OBVIOUS
<1> USE DEF Rounds, Todo, log, files, copies, history
<1>0. copier.todo \subseteq Events \X Requests
  BY DEF TypeOK
<1>1. ASSUME NEW e \in Events, Write(e) PROVE Todo'
  <2>1. /\ UNCHANGED <<copier, uuid, stale>>
        /\ \A f \in Events : writer[f] # "new" => writer'[f] # "new" /\ row'[f] = row[f]
    <3>1. CASE LogFace(e)
      BY <3>1 DEF LogFace, IsNext, TypeOK
    <3>2. CASE LogSpecialFace(e)
      BY <3>2 DEF LogSpecialFace, IsNext, TypeOK
    <3>3. CASE WriteData(e)
      BY <3>3 DEF WriteData, TypeOK
    <3>4. CASE CloseJson(e)
      BY <3>4 DEF CloseJson, TypeOK
    <3> QED BY <1>1, <3>1, <3>2, <3>3, <3>4 DEF Write
  <2> QED BY <1>0, <2>1
<1>2. ASSUME NEW q \in Requests, NEW e \in Events, ReadRow(q, e) PROVE Todo'
  BY <1>2 DEF ReadRow
<1>3. ASSUME NEW q \in Requests, ScheduleRow(q) PROVE Todo'
  <2> DEFINE e == request[q].event
  <2>1. e \in Events
    BY <1>3 DEF ScheduleRow, Reads
  <2> HIDE DEF e
  <2>2. CASE row[e] = "absent"
    BY <1>3, <2>2 DEF ScheduleRow, e
  <2>3. CASE row[e] # "absent"
    <3>1. /\ row' = [row EXCEPT ![e] = "scheduled"]
          /\ uuid' = [uuid EXCEPT ![e] = q]
          /\ stale' = IF row[e] = "unscheduled" THEN stale ELSE stale \union {e}
          /\ UNCHANGED <<copier, writer>>
      BY <1>3, <2>3 DEF ScheduleRow, e
    <3>2. ASSUME NEW p \in copier.todo PROVE p[1] = e => e \in stale'
      BY <2>3, <3>1
    <3> QED BY <1>0, <2>1, <3>1, <3>2 DEF TypeOK
  <2> QED BY <2>2, <2>3
<1>4. CASE StartRound
  <2>1. ASSUME NEW p \in Selected
        PROVE  /\ p[1] \in Events /\ row[p[1]] = "scheduled" /\ uuid[p[1]] = p[2]
               /\ p = <<p[1], p[2]>> /\ writer[p[1]] # "new"
    BY DEF Selected, TypeOK
  <2>2. copier'.todo \subseteq Selected /\ UNCHANGED <<writer, row, uuid, stale>>
    BY <1>4 DEF StartRound, NoRound
  <2> QED BY <2>1, <2>2
<1>5. ASSUME copier'.todo \subseteq copier.todo, UNCHANGED <<writer, row, uuid, stale>>
      PROVE  Todo'
  BY <1>5
<1>6. ASSUME NEW p \in copier.todo,
             SkipRow(p) \/ DirectoryFails(p) \/ AbortRound(p) \/ CopyJson(p)
      PROVE  Todo'
  <2>1. UNCHANGED <<writer, row, uuid, stale>>
    BY <1>6 DEF SkipRow, DirectoryFails, AbortRound, CopyJson
  <2>2. copier'.todo \subseteq copier.todo
    <3>1. CASE SkipRow(p) \/ DirectoryFails(p)
      BY <3>1, RestFacts DEF SkipRow, DirectoryFails
    <3>2. CASE AbortRound(p)
      BY <3>2 DEF AbortRound, NoRound
    <3>3. CASE CopyJson(p)
      BY <3>3 DEF CopyJson, TypeOK
    <3> QED BY <1>6, <3>1, <3>2, <3>3
  <2> QED BY <1>5, <2>1, <2>2
<1>7. CASE NoData \/ AppendData \/ BeginFails \/ Rollback \/ CloseCopy
  BY <1>5, <1>7, RestFacts
  DEF NoData, AppendData, BeginFails, Rollback, CloseCopy, NoRound, TypeOK
<1>8. CASE Commit
  <2>1. /\ copier'.todo = copier.todo /\ UNCHANGED <<writer, uuid, stale>>
        /\ row' = [row EXCEPT ![copier.event] = Done(copier.event)]
    BY <1>8 DEF Commit, TypeOK
  <2> QED BY <1>0, <2>1 DEF Done, TypeOK
<1>9. CASE Clean
  <2>1. /\ UNCHANGED <<copier, writer, stale>>
        /\ \A f \in Events : \/ row'[f] = "absent"
                             \/ row'[f] = row[f] /\ uuid'[f] = uuid[f]
    BY <1>9 DEF Clean, CleanRows, CleanRowsFails, EndCleaning, CleanData, CleanJson
  <2> QED BY <1>0, <2>1
<1>10. CASE Restart
  BY <1>10 DEF Restart, NoRound
<1>11. CASE Tick \/ UNCHANGED vars
  BY <1>11 DEF Tick, vars
<1> QED
  BY <1>1, <1>2, <1>3, <1>4, <1>6, <1>7, <1>8, <1>9, <1>10, <1>11 DEF Next, HandleRow

LEMMA CurrentStep == TypeOK /\ Rounds /\ Times /\ [Next]_vars => Current'
<1> SUFFICES ASSUME TypeOK, Rounds, Times, [Next]_vars PROVE Current'
  OBVIOUS
<1> USE DEF Rounds, Current, log, files, copies, history
<1>1. ASSUME UNCHANGED copier,
             \A f \in Events : writer[f] = "finished" => writer'[f] = "finished"
      PROVE  Current'
  BY <1>1
<1>2. ASSUME NEW e \in Events, Write(e) PROVE Current'
  BY <1>1, <1>2 DEF Write, LogFace, LogSpecialFace, IsNext, WriteData, CloseJson, TypeOK
<1>3. ASSUME NEW q \in Requests, NEW e \in Events, ReadRow(q, e) PROVE Current'
  BY <1>1, <1>3 DEF ReadRow
<1>4. ASSUME NEW q \in Requests, ScheduleRow(q) PROVE Current'
  BY <1>1, <1>4 DEF ScheduleRow
<1>5. CASE StartRound
  BY <1>5 DEF StartRound, NoRound
<1>6. ASSUME NEW p \in copier.todo, SkipRow(p) \/ DirectoryFails(p) \/ AbortRound(p)
      PROVE  Current'
  BY <1>6, RestFacts DEF SkipRow, DirectoryFails, AbortRound, NoRound
<1>7. ASSUME NEW p \in copier.todo, CopyJson(p) PROVE Current'
  <2>1. p = <<p[1], p[2]>> /\ p[1] \in Events /\ p[2] \in Requests
    BY DEF TypeOK
  <2>2. writer'[p[1]] = "finished"
    BY <1>7, <2>1 DEF CopyJson, Times
  <2> QED BY <1>7, <2>1, <2>2 DEF CopyJson, TypeOK
<1>8. CASE NoData \/ AppendData \/ Commit \/ Rollback
  BY <1>8 DEF NoData, AppendData, Commit, Rollback, TypeOK
<1>9. CASE BeginFails \/ CloseCopy
  BY <1>9, RestFacts DEF BeginFails, CloseCopy, NoRound
<1>10. CASE Clean
  BY <1>1, <1>10 DEF Clean, CleanRows, CleanRowsFails, EndCleaning, CleanData, CleanJson
<1>11. CASE Restart
  BY <1>11 DEF Restart, NoRound
<1>12. CASE Tick \/ UNCHANGED vars
  BY <1>12 DEF Tick, vars
<1> QED
  BY <1>2, <1>3, <1>4, <1>5, <1>6, <1>7, <1>8, <1>9, <1>10, <1>11, <1>12
  DEF Next, HandleRow

LEMMA ReadsStep == TypeOK /\ Rounds /\ [Next]_vars => Reads'
<1> SUFFICES ASSUME TypeOK, Rounds, [Next]_vars PROVE Reads'
  OBVIOUS
<1> USE DEF Rounds, Reads, log, files, copies, history
<1>1. ASSUME UNCHANGED request,
             \A f \in Events : writer[f] # "new" =>
               writer'[f] # "new" /\ (row[f] # "disabled" => row'[f] # "disabled")
      PROVE  Reads'
  BY <1>1
<1>2. ASSUME NEW e \in Events, Write(e) PROVE Reads'
  BY <1>1, <1>2 DEF Write, LogFace, LogSpecialFace, IsNext, WriteData, CloseJson, TypeOK
<1>3. ASSUME NEW q \in Requests, NEW e \in Events, ReadRow(q, e) PROVE Reads'
  BY <1>3 DEF ReadRow, TypeOK
<1>4. ASSUME NEW q \in Requests, ScheduleRow(q) PROVE Reads'
  BY <1>4 DEF ScheduleRow, TypeOK
<1>5. CASE StartRound \/ NoData \/ AppendData \/ BeginFails \/ Rollback \/ CloseCopy
  BY <1>5 DEF StartRound, NoData, AppendData, BeginFails, Rollback, CloseCopy
<1>6. ASSUME NEW p \in copier.todo,
             SkipRow(p) \/ DirectoryFails(p) \/ AbortRound(p) \/ CopyJson(p)
      PROVE  Reads'
  BY <1>6 DEF SkipRow, DirectoryFails, AbortRound, CopyJson
<1>7. CASE Commit
  BY <1>1, <1>7 DEF Commit, Done, TypeOK
<1>8. CASE Clean
  BY <1>1, <1>8
  DEF Clean, CleanRows, CleanRowsFails, EndCleaning, CleanData, CleanJson, TypeOK
<1>9. CASE Restart
  BY <1>9 DEF Restart, Busy, TypeOK
<1>10. CASE Tick \/ UNCHANGED vars
  BY <1>10 DEF Tick, vars
<1> QED
  BY <1>2, <1>3, <1>4, <1>5, <1>6, <1>7, <1>8, <1>9, <1>10 DEF Next, HandleRow

-----------------------------------------------------------------------------
(* Times                                                                   *)

LEMMA InitTimes == Init => Times
BY DEF Init, Times, Plain, NoCleaning

\* Times is about the rows, their files and the cleaner.
LEMMA TimesStep == TypeOK /\ Rounds /\ Times /\ [Next]_vars => Times'
<1> SUFFICES ASSUME TypeOK, Rounds, Times, [Next]_vars PROVE Times'
  OBVIOUS
<1> USE DEF Times, log, files, copies, history
<1>1. ASSUME NEW e \in Events, LogFace(e) \/ LogSpecialFace(e) PROVE Times'
  <2>1. /\ \A f \in Events : f # e =>
             row'[f] = row[f] /\ born'[f] = born[f] /\ writer'[f] = writer[f]
        /\ born'[e] = now /\ writer[e] = "new"
        /\ writer'[e] \in {"data", "finished"}
        /\ writer'[e] = "finished" => row'[e] = "disabled"
        /\ UNCHANGED <<now, files, cleaner>>
    BY <1>1 DEF LogFace, LogSpecialFace, IsNext, TypeOK
  <2> QED BY <2>1 DEF TypeOK, Plain
<1>2. ASSUME NEW e \in Events, WriteData(e) PROVE Times'
  <2>1. CASE UNCHANGED files
    BY <1>2, <2>1 DEF WriteData, TypeOK
  <2>2. CASE ~UNCHANGED files
    <3>1. /\ dat' = dat \union {e}
          /\ json' = [json EXCEPT ![e] = "empty"]
          /\ dat_time' = [dat_time EXCEPT ![e] = now]
          /\ json_time' = [json_time EXCEPT ![e] = now]
          /\ writer' = [writer EXCEPT ![e] = "close"]
          /\ UNCHANGED <<now, log, cleaner>>
      BY <1>2, <2>2 DEF WriteData
    <3> QED BY <3>1 DEF TypeOK
  <2> QED BY <2>1, <2>2
<1>3. ASSUME NEW e \in Events, CloseJson(e) PROVE Times'
  BY <1>3 DEF CloseJson, TypeOK, Plain
<1>4. ASSUME NEW q \in Requests, ScheduleRow(q) PROVE Times'
  <2> DEFINE e == request[q].event
  <2>1. e \in Events /\ row[e] # "disabled"
    BY <1>4 DEF ScheduleRow, Rounds, Reads
  <2> HIDE DEF e
  <2>2. /\ \A f \in Events : \/ row'[f] = row[f]
                             \/ row[f] \in Plain /\ row'[f] \in Plain
        /\ UNCHANGED <<now, born, writer, files, cleaner>>
    BY <1>4, <2>1 DEF ScheduleRow, TypeOK, Plain, e
  <2> QED BY <2>2 DEF Plain
<1>5. CASE UNCHANGED <<now, log, writer, files, cleaner>>
  BY <1>5
<1>6. ASSUME NEW q \in Requests, NEW e \in Events, ReadRow(q, e) PROVE Times'
  BY <1>5, <1>6 DEF ReadRow
<1>7. CASE \/ StartRound \/ NoData \/ AppendData \/ BeginFails \/ Rollback \/ CloseCopy
           \/ \E p \in copier.todo :
                SkipRow(p) \/ DirectoryFails(p) \/ AbortRound(p) \/ CopyJson(p)
  BY <1>5, <1>7 DEF StartRound, NoData, AppendData, BeginFails, Rollback, CloseCopy,
                    SkipRow, DirectoryFails, AbortRound, CopyJson
<1>8. CASE Commit
  <2>1. /\ \A f \in Events : \/ row'[f] = row[f]
                             \/ row[f] \in Plain /\ row'[f] \in Plain
        /\ UNCHANGED <<now, born, writer, files, cleaner>>
    <3>1. copier.event \in Events /\ row[copier.event] \in {"absent", "scheduled", "done"}
      BY <1>8 DEF Commit, Rounds, Current, Todo
    <3> QED BY <1>8, <3>1 DEF Commit, Done, TypeOK, Plain
  <2> QED BY <2>1 DEF Plain
<1>9. CASE CleanRows
  <2>1. /\ cleaner' = [step |-> "files", before |-> now - TTL]
        /\ \A e \in Events :
             \/ row'[e] = "absent" /\ born'[e] = 0
             \/ row'[e] = row[e] /\ born'[e] = born[e]
                  /\ (row[e] # "absent" => ~(born[e] < now - TTL))
        /\ UNCHANGED <<now, writer, files>>
    BY <1>9 DEF CleanRows, OldRows
  <2> QED BY <2>1, ConstantsOK DEF TypeOK, Plain
<1>10. CASE CleanRowsFails \/ EndCleaning
  BY <1>10 DEF CleanRowsFails, EndCleaning, NoCleaning
<1>11. ASSUME NEW e \in Events, CleanData(e) PROVE Times'
  <2>1. row[e] \in Plain /\ writer[e] \in {"close", "finished"} => FALSE
    BY <1>11 DEF CleanData, OldData, TypeOK, Plain
  <2> QED BY <1>11, <2>1 DEF CleanData, TypeOK
<1>12. ASSUME NEW e \in Events, CleanJson(e) PROVE Times'
  <2>1. row[e] \in Plain /\ writer[e] \in {"close", "finished"} => FALSE
    BY <1>12 DEF CleanJson, OldJson, TypeOK, Plain
  <2> QED BY <1>12, <2>1 DEF CleanJson, TypeOK
<1>13. CASE Restart
  <2>1. /\ \A f \in Events : writer'[f] = writer[f] \/
             (writer[f] # "finished" /\ writer'[f] = "failed")
        /\ cleaner'.step = "idle"
        /\ UNCHANGED <<now, log, files>>
    BY <1>13 DEF Restart, Busy, NoCleaning, TypeOK
  <2> QED BY <2>1
<1>14. CASE Tick
  BY <1>14 DEF Tick, TypeOK
<1>15. CASE UNCHANGED vars
  BY <1>5, <1>15 DEF vars
<1> QED
  BY <1>1, <1>2, <1>3, <1>4, <1>6, <1>7, <1>8, <1>9, <1>10, <1>11, <1>12, <1>13, <1>14, <1>15
  DEF Next, Write, HandleRow, Clean

-----------------------------------------------------------------------------
(* Copies                                                                  *)

LEMMA InitCopies == Init => Copies /\ Taken /\ DoneMeansCopied
BY DEF Init, Copies, Taken, DoneMeansCopied, Copying, NoRound, Events, NoEvent

\* Nothing that Copies speaks of gets worse.
LEMMA CopiesKept ==
  ASSUME TypeOK, Copies,
         UNCHANGED <<copier, copies, cut>>,
         missed \union stale \subseteq missed' \union stale',
         \A e \in Events : writer'[e] = "new" => writer[e] = "new",
         \A e \in Events : e \notin missed' \union stale' =>
           \/ row'[e] \notin {"unscheduled", "scheduled"}
           \/ row[e] \in {"unscheduled", "scheduled"}
           \/ writer[e] = "new"
  PROVE  Copies'
BY DEF Copies, Copying, copies, TypeOK

LEMMA CopiesStep == TypeOK /\ Rounds /\ Copies /\ [Next]_vars => Copies'
<1> SUFFICES ASSUME TypeOK, Rounds, Copies, [Next]_vars PROVE Copies'
  OBVIOUS
<1> USE DEF log, files, copies, history
<1>1. ASSUME NEW e \in Events, Write(e) PROVE Copies'
  <2>1. /\ UNCHANGED <<copier, copies, cut, missed, stale>>
        /\ \A f \in Events : writer'[f] = "new" => writer[f] = "new"
        /\ \A f \in Events : row'[f] = row[f] \/ writer[f] = "new"
    <3>1. CASE LogFace(e)
      BY <3>1 DEF LogFace, IsNext, TypeOK
    <3>2. CASE LogSpecialFace(e)
      BY <3>2 DEF LogSpecialFace, IsNext, TypeOK
    <3>3. CASE WriteData(e)
      BY <3>3 DEF WriteData, TypeOK
    <3>4. CASE CloseJson(e)
      BY <3>4 DEF CloseJson, TypeOK
    <3> QED BY <1>1, <3>1, <3>2, <3>3, <3>4 DEF Write
  <2> QED BY <2>1, CopiesKept
<1>2. CASE UNCHANGED <<row, writer, copier, copies, cut, missed, stale>>
  BY <1>2, CopiesKept
<1>3. ASSUME NEW q \in Requests, NEW e \in Events, ReadRow(q, e) PROVE Copies'
  BY <1>2, <1>3 DEF ReadRow
<1>4. ASSUME NEW q \in Requests, ScheduleRow(q) PROVE Copies'
  <2> DEFINE e == request[q].event
  <2>1. e \in Events
    BY <1>4 DEF ScheduleRow, Rounds, Reads
  <2> HIDE DEF e
  <2>2. /\ UNCHANGED <<writer, copier, copies, cut, missed>> /\ stale \subseteq stale'
        /\ \A f \in Events : row'[f] = row[f] \/ row[f] = "unscheduled" \/ f \in stale'
    BY <1>4, <2>1 DEF ScheduleRow, TypeOK, e
  <2> QED BY <2>2, CopiesKept
<1>5. CASE StartRound
  <2>1. \A p \in Selected : p[1] \in Events /\ row[p[1]] = "scheduled"
    BY DEF Selected
  <2>2. /\ copier.event = NoEvent /\ copier'.event = NoEvent
        /\ copier'.todo \subseteq Selected
        /\ UNCHANGED <<row, writer, copies, cut, missed, stale>>
    BY <1>5 DEF StartRound, NoRound, Rounds, Current
  <2>3. \A e \in Events : e \in RowsOf(copier'.todo) => row[e] = "scheduled"
    BY <2>1, <2>2 DEF RowsOf
  <2> QED BY <2>2, <2>3 DEF Copies, Copying, Events, NoEvent
<1>6. ASSUME NEW p \in copier.todo, SkipRow(p) \/ DirectoryFails(p) \/ AbortRound(p)
      PROVE  Copies'
  <2>1. /\ copier.event = NoEvent /\ copier'.event = NoEvent
        /\ copier'.todo \subseteq copier.todo
        /\ UNCHANGED <<row, writer, copies, cut, stale>> /\ missed \subseteq missed'
    BY <1>6, RestFacts DEF SkipRow, DirectoryFails, AbortRound, NoRound, Rounds, Current
  <2>2. RowsOf(copier'.todo) \subseteq RowsOf(copier.todo)
    BY <2>1 DEF RowsOf
  <2> QED BY <2>1, <2>2 DEF Copies, Copying, Events, NoEvent
<1>7. ASSUME NEW p \in copier.todo, CopyJson(p) PROVE Copies'
  <2>1. /\ copier.event = NoEvent /\ copier'.event = p[1] /\ p[1] \in Events
        /\ copier'.todo = copier.todo /\ copier'.step = "append"
        /\ copied' = [copied EXCEPT ![p[1]] = "empty"]
        /\ UNCHANGED <<row, writer, day_file, cut, missed, stale>>
    BY <1>7 DEF CopyJson, Rounds, Current, TypeOK
  <2>2. RowsOf(copier.todo)' = RowsOf(copier.todo)
    BY <2>1 DEF RowsOf
  <2>3. \A e \in Events : copier.event # e
    BY <2>1 DEF Events, NoEvent
  <2>4. \A e \in Events : e # p[1] => copied'[e] = copied[e]
    BY <2>1 DEF TypeOK
  <2> QED BY <2>1, <2>2, <2>3, <2>4 DEF Copies, Copying
<1>8. CASE NoData
  <2>1. /\ copier'.event = copier.event /\ copier'.todo = copier.todo
        /\ copier.step = "append" /\ copier'.step = "close"
        /\ UNCHANGED <<row, writer, copies, cut, missed, stale>>
    BY <1>8 DEF NoData, TypeOK
  <2> QED BY <2>1 DEF Copies, Copying
<1>9. CASE AppendData
  <2>1. /\ copier'.event = copier.event /\ copier'.todo = copier.todo
        /\ copier.step = "append" /\ copier'.step = "commit"
        /\ day_file' = [day_file EXCEPT ![copier.event] = @ + 1]
        /\ UNCHANGED <<row, writer, copied, cut, missed, stale>>
    BY <1>9 DEF AppendData, TypeOK
  <2>2. copier.event \in Events /\ copier.event \in RowsOf(copier.todo)
        /\ writer[copier.event] = "finished"
    BY <2>1 DEF Rounds, Current, RowsOf
  <2> QED BY <2>1, <2>2 DEF Copies, Copying, TypeOK
<1>10. CASE BeginFails
  <2>1. /\ copier'.event = NoEvent /\ copier'.todo = {} /\ copier'.step = "idle"
        /\ copied' = [copied EXCEPT ![copier.event] = copier.uuid]
        /\ missed' = missed \union RowsOf(copier.todo) /\ copier.step = "append"
        /\ UNCHANGED <<row, writer, day_file, cut, stale>>
    BY <1>10 DEF BeginFails, NoRound
  <2>2. copier.event \in Events /\ copier.uuid \in Requests
    BY <2>1 DEF Rounds, Current
  <2> QED BY <2>1, <2>2 DEF Copies, Copying, RowsOf, Events, NoEvent, TypeOK
<1>11. CASE Commit
  <2>1. /\ copier'.event = copier.event /\ copier'.todo = copier.todo
        /\ copier.step = "commit" /\ copier'.step = "close"
        /\ row' = [row EXCEPT ![copier.event] = Done(copier.event)]
        /\ UNCHANGED <<writer, copies, cut, missed, stale>>
    BY <1>11 DEF Commit, TypeOK
  <2>2. copier.event \in Events
    BY <2>1 DEF Rounds, Current
  <2> QED BY <2>1, <2>2 DEF Copies, Copying, Done, TypeOK
<1>12. CASE Rollback
  <2>1. /\ copier'.event = copier.event /\ copier'.todo = copier.todo
        /\ copier.step = "commit" /\ copier'.step = "close"
        /\ missed' = missed \union {copier.event}
        /\ UNCHANGED <<row, writer, copies, cut, stale>>
    BY <1>12 DEF Rollback, TypeOK
  <2> QED BY <2>1 DEF Copies, Copying
<1>13. CASE CloseCopy
  <2>1. /\ copier'.event = NoEvent
        /\ copier'.todo = copier.todo \ {<<copier.event, copier.uuid>>}
        /\ copied' = [copied EXCEPT ![copier.event] = copier.uuid]
        /\ UNCHANGED <<row, writer, day_file, cut, missed, stale>>
    BY <1>13, RestFacts DEF CloseCopy
  <2>2. /\ copier.event \in Events /\ copier.uuid \in Requests /\ copier.step = "close"
        /\ <<copier.event, copier.uuid>> \in copier.todo
    BY <1>13 DEF CloseCopy, Rounds, Current
  <2>3. /\ copier.event \notin RowsOf(copier'.todo)
        /\ RowsOf(copier'.todo) \subseteq RowsOf(copier.todo)
    BY <2>1, <2>2 DEF Rounds, Todo, RowsOf
  <2>4. \A e \in Events :
          /\ e # NoEvent
          /\ copied'[e] = IF e = copier.event THEN copier.uuid ELSE copied[e]
    BY <2>1 DEF TypeOK, Events, NoEvent
  <2> HIDE DEF NoEvent
  <2> QED BY <2>1, <2>2, <2>3, <2>4 DEF Copies, Copying
<1>14. CASE Clean
  <2>1. /\ UNCHANGED <<writer, copier, copies, cut, missed, stale>>
        /\ \A f \in Events : row'[f] = row[f] \/ row'[f] = "absent"
    BY <1>14 DEF Clean, CleanRows, CleanRowsFails, EndCleaning, CleanData, CleanJson
  <2> QED BY <2>1, CopiesKept
<1>15. CASE Restart
  <2>1. /\ copier'.event = NoEvent /\ copier'.todo = {} /\ copier'.step = "idle"
        /\ missed' = missed \union RowsOf(copier.todo)
        /\ cut' = cut \union ({copier.event} \ {NoEvent})
        /\ \A f \in Events : writer'[f] = "new" => writer[f] = "new"
        /\ UNCHANGED <<row, copies, stale>>
    BY <1>15 DEF Restart, NoRound, Busy
  <2>2. \A e \in Events : Copying(e) => e \in missed' /\ e \in cut'
    BY <2>1 DEF Copying, Rounds, Current, RowsOf, TypeOK, Events, NoEvent
  <2> QED BY <2>1, <2>2 DEF Copies, Copying, RowsOf, Events, NoEvent
<1>16. CASE Tick \/ UNCHANGED vars
  BY <1>2, <1>16 DEF Tick, vars
<1> QED
  BY <1>1, <1>3, <1>4, <1>5, <1>6, <1>7, <1>8, <1>9, <1>10, <1>11, <1>12, <1>13, <1>14,
     <1>15, <1>16 DEF Next, HandleRow

-----------------------------------------------------------------------------
(* What a row marked as copied says                                        *)

\* The row, its copy and the copier's place stay as they are, or the row goes.
LEMMA DoneKept ==
  ASSUME DoneMeansCopied, UNCHANGED <<copies, stale, cut>>,
         copier'.event = copier.event,
         \A e \in Events : row'[e] = "done" => row[e] = "done" /\ uuid'[e] = uuid[e]
  PROVE  DoneMeansCopied'
BY DEF DoneMeansCopied, Copying, copies

LEMMA DoneStep ==
  TypeOK /\ Rounds /\ Copies /\ DoneMeansCopied /\ [Next]_vars => DoneMeansCopied'
<1> SUFFICES ASSUME TypeOK, Rounds, Copies, DoneMeansCopied, [Next]_vars
             PROVE  DoneMeansCopied'
  OBVIOUS
<1> USE DEF log, files, copies, history
<1>1. ASSUME NEW e \in Events, Write(e) PROVE DoneMeansCopied'
  <2>1. /\ UNCHANGED <<uuid, copier, copies, stale, cut>>
        /\ \A f \in Events : row'[f] = row[f] \/ row'[f] # "done"
    BY <1>1 DEF Write, LogFace, LogSpecialFace, WriteData, CloseJson, TypeOK
  <2> QED BY <2>1, DoneKept
<1>2. CASE UNCHANGED <<row, uuid, copies, stale, cut>> /\ copier'.event = copier.event
  BY <1>2, DoneKept
<1>3. ASSUME NEW q \in Requests, NEW e \in Events, ReadRow(q, e) PROVE DoneMeansCopied'
  BY <1>2, <1>3 DEF ReadRow
<1>4. ASSUME NEW q \in Requests, ScheduleRow(q) PROVE DoneMeansCopied'
  <2> DEFINE e == request[q].event
  <2>1. e \in Events
    BY <1>4 DEF ScheduleRow, Rounds, Reads
  <2> HIDE DEF e
  <2>2. /\ UNCHANGED <<copier, copies, cut>> /\ stale \subseteq stale'
        /\ \A f \in Events : \/ row'[f] = row[f] /\ uuid'[f] = uuid[f]
                             \/ row'[f] = "scheduled"
    BY <1>4, <2>1 DEF ScheduleRow, TypeOK, e
  <2> QED BY <2>2 DEF DoneMeansCopied, Copying
<1>5. CASE StartRound
  BY <1>2, <1>5 DEF StartRound, NoRound, Rounds, Current
<1>6. ASSUME NEW p \in copier.todo, SkipRow(p) \/ DirectoryFails(p) \/ AbortRound(p)
      PROVE  DoneMeansCopied'
  BY <1>2, <1>6, RestFacts DEF SkipRow, DirectoryFails, AbortRound, NoRound, Rounds, Current
<1>7. ASSUME NEW p \in copier.todo, CopyJson(p) PROVE DoneMeansCopied'
  <2>1. /\ copier.event = NoEvent /\ copier'.event = p[1] /\ p[1] \in Events
        /\ copied' = [copied EXCEPT ![p[1]] = "empty"]
        /\ UNCHANGED <<row, uuid, day_file, cut, stale>>
    BY <1>7 DEF CopyJson, Rounds, Current, TypeOK
  <2> QED BY <2>1 DEF DoneMeansCopied, Copying, Events, NoEvent, TypeOK
<1>8. CASE NoData \/ Rollback
  BY <1>2, <1>8 DEF NoData, Rollback, TypeOK
<1>9. CASE AppendData
  <2>1. /\ copier'.event = copier.event /\ copier.event \in Events
        /\ day_file' = [day_file EXCEPT ![copier.event] = @ + 1]
        /\ UNCHANGED <<row, uuid, copied, cut, stale>>
    BY <1>9 DEF AppendData, Rounds, Current, TypeOK
  <2> QED BY <2>1 DEF DoneMeansCopied, Copying, TypeOK
<1>10. CASE BeginFails \/ CloseCopy
  <2>1. /\ copied' = [copied EXCEPT ![copier.event] = copier.uuid]
        /\ copier'.event = NoEvent
        /\ UNCHANGED <<row, uuid, day_file, cut, stale>>
    BY <1>10, RestFacts DEF BeginFails, CloseCopy, NoRound
  <2>2. /\ copier.event \in Events
        /\ <<copier.event, copier.uuid>> \in copier.todo
    BY <1>10 DEF BeginFails, CloseCopy, Rounds, Current
  <2>3. row[copier.event] = "done" /\ copier.event \notin stale
          => uuid[copier.event] = copier.uuid
    BY <2>2 DEF Rounds, Todo
  <2> QED BY <2>1, <2>2, <2>3 DEF DoneMeansCopied, Copying, TypeOK
<1>11. CASE Commit
  <2>1. /\ copier'.event = copier.event /\ copier.event \in Events
        /\ row' = [row EXCEPT ![copier.event] = Done(copier.event)]
        /\ day_file[copier.event] > 0
        /\ UNCHANGED <<uuid, copies, cut, stale>>
    BY <1>11 DEF Commit, Rounds, Current, Copies, Copying, TypeOK
  <2> QED BY <2>1 DEF DoneMeansCopied, Copying, TypeOK
<1>12. CASE Clean
  <2>1. /\ UNCHANGED <<copier, copies, stale, cut>>
        /\ \A f \in Events : \/ row'[f] = row[f] /\ uuid'[f] = uuid[f]
                             \/ row'[f] = "absent"
    BY <1>12 DEF Clean, CleanRows, CleanRowsFails, EndCleaning, CleanData, CleanJson
  <2> QED BY <2>1, DoneKept
<1>13. CASE Restart
  <2>1. /\ cut' = cut \union ({copier.event} \ {NoEvent})
        /\ UNCHANGED <<row, uuid, copies, stale>>
    BY <1>13 DEF Restart
  <2> QED BY <2>1 DEF DoneMeansCopied, Copying, Events, NoEvent
<1>14. CASE Tick \/ UNCHANGED vars
  BY <1>2, <1>14 DEF Tick, vars
<1> QED
  BY <1>1, <1>3, <1>4, <1>5, <1>6, <1>7, <1>8, <1>9, <1>10, <1>11, <1>12, <1>13, <1>14
  DEF Next, HandleRow

-----------------------------------------------------------------------------
(* What a round takes                                                      *)

\* The copier stays where it is, and nothing new becomes ready.
LEMMA TakenKept ==
  ASSUME Taken, UNCHANGED copier, fresh \union missed \subseteq fresh' \union missed',
         \A e \in Events : row'[e] = "scheduled" /\ writer'[e] = "finished" =>
           \/ row[e] = "scheduled" /\ writer[e] = "finished"
           \/ e \in fresh' \union missed',
         \A e \in Events : Copying(e) => writer'[e] = "finished"
  PROVE  Taken'
BY DEF Taken, Copying

LEMMA TakenStep == TypeOK /\ Rounds /\ Times /\ Taken /\ [Next]_vars => Taken'
<1> SUFFICES ASSUME TypeOK, Rounds, Times, Taken, [Next]_vars PROVE Taken'
  OBVIOUS
<1> USE DEF log, files, copies, history
<1>0. \A e \in Events : Copying(e) => writer[e] = "finished"
  BY DEF Copying, Rounds, Current, TypeOK, Events, NoEvent
<1>1. ASSUME NEW e \in Events, Write(e) PROVE Taken'
  <2>1. /\ UNCHANGED <<copier, missed>> /\ fresh \subseteq fresh'
        /\ \A f \in Events : writer[f] = "finished" => writer'[f] = "finished"
        /\ \A f \in Events : row'[f] = "scheduled" /\ writer'[f] = "finished" =>
             (row[f] = "scheduled" /\ writer[f] = "finished") \/ f \in fresh'
    <3>1. CASE LogFace(e)
      BY <3>1 DEF LogFace, IsNext, TypeOK
    <3>2. CASE LogSpecialFace(e)
      BY <3>2 DEF LogSpecialFace, IsNext, TypeOK
    <3>3. CASE WriteData(e)
      BY <3>3 DEF WriteData, TypeOK
    <3>4. CASE CloseJson(e)
      BY <3>4 DEF CloseJson, TypeOK
    <3> QED BY <1>1, <3>1, <3>2, <3>3, <3>4 DEF Write
  <2> QED BY <1>0, <2>1, TakenKept
<1>2. CASE UNCHANGED <<row, writer, copier, fresh, missed>>
  BY <1>2 DEF Taken, Copying
<1>3. ASSUME NEW q \in Requests, NEW e \in Events, ReadRow(q, e) PROVE Taken'
  BY <1>2, <1>3 DEF ReadRow
<1>4. ASSUME NEW q \in Requests, ScheduleRow(q) PROVE Taken'
  <2> DEFINE e == request[q].event
  <2>1. e \in Events
    BY <1>4 DEF ScheduleRow, Rounds, Reads
  <2> HIDE DEF e
  <2>2. /\ UNCHANGED <<copier, writer, missed>> /\ fresh \subseteq fresh'
        /\ \A f \in Events : row'[f] = row[f] \/ (writer[f] = "finished" => f \in fresh')
    BY <1>4, <2>1 DEF ScheduleRow, TypeOK, e
  <2> QED BY <1>0, <2>2, TakenKept
<1>5. CASE StartRound
  <2>1. /\ copier'.event = NoEvent /\ copier'.todo = Selected
        /\ UNCHANGED <<row, writer, missed>>
    BY <1>5 DEF StartRound, NoRound
  <2>2. \A e \in Events : row[e] = "scheduled" => e \in RowsOf(Selected)
    <3>1. SUFFICES ASSUME NEW e \in Events, row[e] = "scheduled"
                   PROVE  e \in RowsOf(Selected)
      OBVIOUS
    <3>2. <<e, uuid[e]>> \in Selected
      BY <3>1 DEF Selected, TypeOK
    <3> QED BY <3>2 DEF RowsOf
  <2> QED BY <2>1, <2>2 DEF Taken, Copying, Events, NoEvent
<1>6. ASSUME NEW p \in copier.todo, SkipRow(p) PROVE Taken'
  <2>1. /\ copier'.event = NoEvent /\ copier'.todo = copier.todo \ {p}
        /\ UNCHANGED <<row, writer, fresh, missed>> /\ json[p[1]] = "absent"
    BY <1>6, RestFacts DEF SkipRow
  <2>2. p[1] \in Events /\ ~(row[p[1]] = "scheduled" /\ writer[p[1]] = "finished")
    BY <2>1 DEF Times, Plain, TypeOK
  <2>3. \A e \in Events : e # p[1] /\ e \in RowsOf(copier.todo) => e \in RowsOf(copier'.todo)
    BY <2>1 DEF RowsOf
  <2>4. \A e \in Events : copier'.event # e
    BY <2>1 DEF Events, NoEvent
  <2>5. ASSUME NEW e \in Events, row[e] = "scheduled", writer[e] = "finished",
               e \notin fresh \union missed
        PROVE  e \in RowsOf(copier'.todo)
    <3>1. e \in RowsOf(copier.todo) /\ e # p[1]
      BY <2>2, <2>5 DEF Taken
    <3> QED BY <3>1, <2>3
  <2>6. RowsOf(copier'.todo) = RowsOf(copier.todo)'
    BY DEF RowsOf
  <2> QED BY <2>1, <2>4, <2>5, <2>6 DEF Taken, Copying
<1>17. ASSUME NEW p \in copier.todo, DirectoryFails(p) PROVE Taken'
  <2>1. /\ copier'.event = NoEvent /\ copier'.todo = copier.todo \ {p}
        /\ UNCHANGED <<row, writer, fresh>> /\ missed' = missed \union {p[1]}
    BY <1>17, RestFacts DEF DirectoryFails
  <2>2. \A e \in Events : e # p[1] /\ e \in RowsOf(copier.todo) => e \in RowsOf(copier'.todo)
    BY <2>1 DEF RowsOf
  <2>3. \A e \in Events : copier'.event # e /\ copier.event # e
    BY <1>17, <2>1 DEF DirectoryFails, Rounds, Current, Events, NoEvent
  <2>4. ASSUME NEW e \in Events, row[e] = "scheduled", writer[e] = "finished",
               e \notin fresh \union missed'
        PROVE  e \in RowsOf(copier'.todo)
    <3>1. e \in RowsOf(copier.todo) /\ e # p[1]
      BY <2>1, <2>3, <2>4 DEF Taken, Copying
    <3> QED BY <3>1, <2>2
  <2>5. RowsOf(copier'.todo) = RowsOf(copier.todo)'
    BY DEF RowsOf
  <2> QED BY <2>1, <2>3, <2>4, <2>5 DEF Taken, Copying
<1>7. CASE BeginFails \/ \E p \in copier.todo : AbortRound(p)
  <2>1. /\ copier'.event = NoEvent /\ missed' = missed \union RowsOf(copier.todo)
        /\ UNCHANGED <<row, writer, fresh>>
    BY <1>7 DEF BeginFails, AbortRound, NoRound
  <2> QED BY <2>1 DEF Taken, Copying, Events, NoEvent
<1>8. ASSUME NEW p \in copier.todo, CopyJson(p) PROVE Taken'
  <2>1. /\ copier'.step = "append" /\ copier'.todo = copier.todo
        /\ UNCHANGED <<row, writer, fresh, missed>>
    BY <1>8 DEF CopyJson, TypeOK
  <2> QED BY <2>1 DEF Taken
<1>9. CASE NoData
  <2>1. /\ copier'.event = copier.event /\ copier'.todo = copier.todo
        /\ copier.event \in Events /\ copier.event \notin dat
        /\ UNCHANGED <<row, writer, fresh, missed>>
    BY <1>9 DEF NoData, Rounds, Current, TypeOK
  <2>2. row[copier.event] # "scheduled"
    BY <1>0, <2>1 DEF Times, Plain, Copying
  <2> QED BY <2>1, <2>2 DEF Taken, Copying
<1>10. CASE AppendData
  <2>1. /\ copier'.step = "commit" /\ copier'.todo = copier.todo
        /\ UNCHANGED <<row, writer, fresh, missed>>
    BY <1>10 DEF AppendData, TypeOK
  <2> QED BY <2>1 DEF Taken
<1>11. CASE Commit
  <2>1. /\ copier'.event = copier.event /\ copier'.todo = copier.todo
        /\ copier.event \in Events
        /\ row' = [row EXCEPT ![copier.event] = Done(copier.event)]
        /\ UNCHANGED <<writer, fresh, missed>>
    BY <1>11 DEF Commit, Rounds, Current, TypeOK
  <2> QED BY <2>1 DEF Taken, Copying, Done, TypeOK
<1>12. CASE Rollback
  <2>1. /\ copier'.event = copier.event /\ copier'.todo = copier.todo
        /\ missed' = missed \union {copier.event}
        /\ UNCHANGED <<row, writer, fresh>>
    BY <1>12 DEF Rollback, TypeOK
  <2> QED BY <2>1 DEF Taken, Copying
<1>13. CASE CloseCopy
  <2>1. /\ copier'.event = NoEvent
        /\ copier'.todo = copier.todo \ {<<copier.event, copier.uuid>>}
        /\ UNCHANGED <<row, writer, fresh, missed>> /\ copier.step = "close"
    BY <1>13, RestFacts DEF CloseCopy
  <2>2. \A e \in Events :
          e # copier.event /\ e \in RowsOf(copier.todo) => e \in RowsOf(copier'.todo)
    BY <2>1 DEF RowsOf
  <2> QED BY <2>1, <2>2 DEF Taken, Copying, Events, NoEvent
<1>14. CASE Clean
  <2>1. /\ UNCHANGED <<writer, copier, fresh, missed>>
        /\ \A f \in Events : row'[f] = row[f] \/ row'[f] = "absent"
    BY <1>14 DEF Clean, CleanRows, CleanRowsFails, EndCleaning, CleanData, CleanJson
  <2> QED BY <1>0, <2>1, TakenKept
<1>15. CASE Restart
  <2>1. /\ copier'.event = NoEvent /\ missed' = missed \union RowsOf(copier.todo)
        /\ \A f \in Events : writer'[f] = "finished" => writer[f] = "finished"
        /\ UNCHANGED <<row, fresh>>
    BY <1>15 DEF Restart, NoRound
  <2> QED BY <2>1 DEF Taken, Copying, Events, NoEvent
<1>16. CASE Tick \/ UNCHANGED vars
  BY <1>2, <1>16 DEF Tick, vars
<1> QED
  BY <1>1, <1>3, <1>4, <1>5, <1>6, <1>7, <1>8, <1>9, <1>10, <1>11, <1>12, <1>13, <1>14,
     <1>15, <1>16, <1>17 DEF Next, HandleRow

-----------------------------------------------------------------------------
(* Theorems                                                                *)

LEMMA Invariance == Spec => []IInv
<1>1. Init => IInv
  BY InitType, InitRounds, InitTimes, InitCopies DEF IInv
<1>2. IInv /\ [Next]_vars => IInv'
  BY NextType, TodoStep, CurrentStep, ReadsStep, TimesStep, CopiesStep, DoneStep, TakenStep
  DEF IInv, Rounds
<1> QED BY <1>1, <1>2, PTL DEF Spec

\* Types, for addLogFace, bestQuality and both maintenance tasks.
THEOREM TypeCorrect == Spec => []TypeOK
<1>1. IInv => TypeOK
  BY DEF IInv
<1> QED BY <1>1, Invariance, PTL

\* doCopyEventsMaintenance appends an event once, failures and second
\* schedulings by bestQuality apart.
THEOREM Appended_Once == Spec => []AppendedOnce
<1>1. IInv => AppendedOnce
  BY DEF IInv, Copies, AppendedOnce
<1> QED BY <1>1, Invariance, PTL

\* doOldLogMaintenance leaves the data files of an event as long as its row.
THEOREM Files_OutliveRow == Spec => []FilesOutliveRow
<1>1. IInv => FilesOutliveRow
  BY DEF IInv, Times, Plain, FilesOutliveRow
<1> QED BY <1>1, Invariance, PTL

\* copy_data 2 means that doCopyEventsMaintenance has copied the event.
THEOREM Done_MeansCopied == Spec => []DoneMeansCopied
<1>1. IInv => DoneMeansCopied
  BY DEF IInv
<1> QED BY <1>1, Invariance, PTL

\* searchFaces finds what has been copied, and what has not in the log.
THEOREM Search_Finds == Spec => []SearchFinds
<1>1. IInv => SearchFinds
  BY DEF IInv, TypeOK, Copies, SearchFinds, Hits
<1> QED BY <1>1, Invariance, PTL

\* doOldLogMaintenance removes no scheduled row that a round has had the time
\* to copy, unless the round failed.
THEOREM Lost_WasLate == Spec => LostWasLate
<1>1. IInv => \A e \in Events : row[e] = "scheduled" /\ writer[e] = "finished"
                => e \in fresh \union missed \/ copier.step # "idle"
  BY DEF IInv, Taken, Rounds, Current, RowsOf
<1>2. IInv /\ [Next]_vars =>
        [\A e \in Events :
           row[e] = "scheduled" /\ row'[e] = "absent" /\ writer[e] = "finished"
             => e \in fresh \union missed \/ copier.step # "idle"]_vars
  BY <1>1
<1> QED BY <1>2, Invariance, PTL DEF Spec, LostWasLate

=============================================================================

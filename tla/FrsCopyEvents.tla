---------------------------- MODULE FrsCopyEvents ----------------------------
(***************************************************************************)
(* The face event log of FRS and its copy.  A recognition commits a row of *)
(* log_faces and afterwards writes the descriptors and the JSON data of    *)
(* the event to files.  bestQuality schedules an event for copying, under  *)
(* the uuid of a host event.  One periodic task copies scheduled events:   *)
(* the JSON with the uuid, the descriptors appended to the events file of  *)
(* the day.  Another one removes rows and files past their time to live.   *)
(*                                                                         *)
(* The events belong to one video stream, whose frames are processed one   *)
(* at a time, and to one day.  A file stream is buffered: short JSON data  *)
(* reaches its file when the stream is closed, while the descriptors (2 KB *)
(* each) are written through.                                              *)
(***************************************************************************)
EXTENDS Integers

CONSTANTS
  MaxEvent,   \* the last event (a bound)
  Requests,   \* calls of bestQuality; each has a host event uuid of its own
  TTL,        \* log-faces-ttl
  MaxTime,    \* the clock stops here (a bound)
  MaxFaults   \* failures and restarts (a bound)

\* Events are numbered in the order in which they are logged.
Events == 1..MaxEvent
NoEvent == 0

ASSUME ConstantsOK ==
  /\ MaxEvent \in Nat /\ TTL \in Nat /\ MaxTime \in Nat /\ MaxFaults \in Nat
  /\ {"none", "absent", "empty"} \intersect Requests = {}

VARIABLES
  now,      \* the system clock
  row,      \* copy_data of the row in log_faces, or "absent"
  uuid,     \* its ext_event_uuid
  born,     \* its log_date
  writer,   \* the recognition that writes the event
  dat,      \* events that have a descriptor file
  json,     \* their JSON files
  dat_time, \* when the descriptor file was written
  json_time, \* when the JSON file was last written
  request,  \* what has become of the calls of bestQuality
  copier,   \* doCopyEventsMaintenance
  day_file, \* how often the event was appended to the day's events file
  copied,   \* its copied JSON file: the uuid it carries
  cleaner,  \* doOldLogMaintenance
  faults,   \* failures and restarts so far
  stale,    \* history: events scheduled on a copy_data read too early
  missed,   \* history: events a round of copying took and failed
  cut,      \* history: events whose copying a restart cut off
  fresh     \* history: events ready to be copied since the last round began

log == <<row, uuid, born>>
files == <<dat, json, dat_time, json_time>>
copies == <<day_file, copied>>
history == <<stale, missed, cut, fresh>>
vars == <<now, log, writer, files, request, copier, copies, cleaner,
          faults, history>>

NoRound == [step |-> "idle", todo |-> {}, event |-> NoEvent, uuid |-> "none"]
NoCleaning == [step |-> "idle", before |-> 0]

\* A scheduled row has a uuid, and no row comes before its event.
TypeOK ==
  /\ now \in Nat /\ faults \in 0..MaxFaults
  /\ row \in [Events -> {"absent", "disabled", "unscheduled", "scheduled", "done"}]
  /\ uuid \in [Events -> Requests \union {"none"}]
  /\ born \in [Events -> Nat]
  /\ dat_time \in [Events -> Nat] /\ json_time \in [Events -> Nat]
  /\ writer \in [Events -> {"new", "data", "close", "finished", "failed"}]
  /\ dat \subseteq Events
  /\ json \in [Events -> {"absent", "empty", "full"}]
  /\ request \in [Requests -> [step : {"new", "read", "over"},
                               event : Events \union {NoEvent}]]
  /\ copier \in [step : {"idle", "next", "append", "commit", "close"},
                 todo : SUBSET (Events \X Requests),
                 event : Events \union {NoEvent}, uuid : Requests \union {"none"}]
  /\ day_file \in [Events -> Nat]
  /\ copied \in [Events -> Requests \union {"absent", "empty"}]
  /\ cleaner \in [step : {"idle", "files"}, before : Int]
  /\ stale \subseteq Events /\ missed \subseteq Events
  /\ cut \subseteq Events /\ fresh \subseteq Events
  /\ \A e \in Events : /\ row[e] \in {"scheduled", "done"} => uuid[e] # "none"
                       /\ row[e] # "absent" => writer[e] # "new"

Init ==
  /\ now = 0 /\ faults = 0
  /\ row = [e \in Events |-> "absent"]
  /\ uuid = [e \in Events |-> "none"]
  /\ born = [e \in Events |-> 0]
  /\ dat_time = [e \in Events |-> 0]
  /\ json_time = [e \in Events |-> 0]
  /\ writer = [e \in Events |-> "new"]
  /\ dat = {}
  /\ json = [e \in Events |-> "absent"]
  /\ request = [q \in Requests |-> [step |-> "new", event |-> NoEvent]]
  /\ copier = NoRound
  /\ day_file = [e \in Events |-> 0]
  /\ copied = [e \in Events |-> "absent"]
  /\ cleaner = NoCleaning
  /\ stale = {} /\ missed = {} /\ cut = {} /\ fresh = {}

Busy(e) == writer[e] \in {"data", "close"}

\* The next event of the stream.
IsNext(e) ==
  /\ writer[e] = "new"
  /\ \A f \in Events : ~Busy(f) /\ (f < e => writer[f] # "new")

Fault == faults < MaxFaults /\ faults' = faults + 1

-----------------------------------------------------------------------------
(* The recognition                                                         *)

\* addLogFace: when its transaction fails, the frame goes on without a row.
LogFace(e) ==
  /\ IsNext(e)
  /\ \/ row' = [row EXCEPT ![e] = "unscheduled"] /\ UNCHANGED faults
     \/ UNCHANGED row /\ Fault
  /\ born' = [born EXCEPT ![e] = now]
  /\ writer' = [writer EXCEPT ![e] = "data"]
  /\ UNCHANGED <<now, uuid, files, request, copier, copies, cleaner, history>>

\* An event of a special group: never copied, and without data files.
LogSpecialFace(e) ==
  /\ IsNext(e)
  /\ row' = [row EXCEPT ![e] = "disabled"]
  /\ born' = [born EXCEPT ![e] = now]
  /\ writer' = [writer EXCEPT ![e] = "finished"]
  /\ UNCHANGED <<now, uuid, files, request, copier, copies, cleaner,
                 faults, history>>

\* The screenshot and the callback come before; either may end the frame.  The
\* descriptors are written and the JSON file is opened.
WriteData(e) ==
  /\ writer[e] = "data"
  /\ \/ /\ dat' = dat \union {e}
        /\ json' = [json EXCEPT ![e] = "empty"]
        /\ dat_time' = [dat_time EXCEPT ![e] = now]
        /\ json_time' = [json_time EXCEPT ![e] = now]
        /\ writer' = [writer EXCEPT ![e] = "close"]
        /\ UNCHANGED faults
     \/ /\ Fault
        /\ writer' = [writer EXCEPT ![e] = "failed"]
        /\ UNCHANGED files
  /\ UNCHANGED <<now, log, request, copier, copies, cleaner, history>>

\* (Should the file have been removed meanwhile, nobody sees what is written.)
CloseJson(e) ==
  /\ writer[e] = "close"
  /\ json' = [json EXCEPT ![e] = IF @ = "absent" THEN @ ELSE "full"]
  /\ json_time' = [json_time EXCEPT ![e] = now]
  /\ fresh' = IF row[e] = "scheduled" THEN fresh \union {e} ELSE fresh
  /\ writer' = [writer EXCEPT ![e] = "finished"]
  /\ UNCHANGED <<now, log, dat, dat_time, request, copier, copies, cleaner, faults,
                 stale, missed, cut>>

-----------------------------------------------------------------------------
(* bestQuality, with a uuid in a group that has flag-copy-event-data       *)

\* The row, found by its id or as the best of an interval, with its copy_data.
\* Only a row never scheduled before is going to be scheduled.
ReadRow(q, e) ==
  /\ request[q].step = "new"
  /\ row[e] # "absent"
  /\ request' = [request EXCEPT ![q] =
       IF row[e] = "unscheduled" THEN [step |-> "read", event |-> e]
                                 ELSE [step |-> "over", event |-> NoEvent]]
  /\ UNCHANGED <<now, log, writer, files, copier, copies, cleaner, faults, history>>

\* A statement of its own, whatever copy_data is by now.
ScheduleRow(q) ==
  /\ request[q].step = "read"
  /\ request' = [request EXCEPT ![q] = [step |-> "over", event |-> NoEvent]]
  /\ LET e == request[q].event IN
     IF row[e] # "absent"
     THEN /\ row' = [row EXCEPT ![e] = "scheduled"]
          /\ uuid' = [uuid EXCEPT ![e] = q]
          /\ fresh' = IF writer[e] = "finished" THEN fresh \union {e} ELSE fresh
          /\ stale' = IF row[e] = "unscheduled" THEN stale ELSE stale \union {e}
     ELSE UNCHANGED <<row, uuid, fresh, stale>>
  /\ UNCHANGED <<now, born, writer, files, copier, copies, cleaner, faults,
                 missed, cut>>

-----------------------------------------------------------------------------
(* doCopyEventsMaintenance                                                 *)

SelectedFaulty == {p \in Events \X Requests :
                     row[p[1]] \in {"scheduled", "done"} /\ uuid[p[1]] = p[2]}

\* The scheduled rows, with their uuids as of the beginning of the round.
Selected == {p \in Events \X Requests : row[p[1]] = "scheduled" /\ uuid[p[1]] = p[2]}

StartRoundFaulty ==
  /\ copier.step = "idle"
  /\ fresh' = {}
  /\ copier' = IF Selected = {} THEN NoRound
               ELSE [NoRound EXCEPT !.step = "next", !.todo = {CHOOSE p \in Selected : TRUE}]
  /\ UNCHANGED <<now, log, writer, files, request, copies, cleaner, faults,
                 stale, missed, cut>>

StartRound ==
  /\ copier.step = "idle"
  /\ fresh' = {}
  /\ copier' = IF Selected = {} THEN NoRound
               ELSE [NoRound EXCEPT !.step = "next", !.todo = Selected]
  /\ UNCHANGED <<now, log, writer, files, request, copies, cleaner, faults,
                 stale, missed, cut>>

\* The round goes on with the remaining rows, if any.
Rest(p) ==
  IF copier.todo = {p} THEN NoRound
  ELSE [NoRound EXCEPT !.step = "next", !.todo = copier.todo \ {p}]

RowsOf(todo) == {p[1] : p \in todo}

SkipRowFaulty(p) ==
  /\ copier.step = "next" /\ p \in copier.todo
  /\ json[p[1]] = "absent"
  /\ copier' = NoRound
  /\ UNCHANGED <<now, log, writer, files, request, copies, cleaner, faults, history>>

\* The next row whose JSON file is missing is skipped.
SkipRow(p) ==
  /\ copier.step = "next" /\ p \in copier.todo
  /\ json[p[1]] = "absent"
  /\ copier' = Rest(p)
  /\ UNCHANGED <<now, log, writer, files, request, copies, cleaner, faults, history>>

\* So is one for whose copy no directory can be made.
DirectoryFails(p) ==
  /\ copier.step = "next" /\ p \in copier.todo
  /\ json[p[1]] # "absent"
  /\ Fault
  /\ missed' = missed \union {p[1]}
  /\ copier' = Rest(p)
  /\ UNCHANGED <<now, log, writer, files, request, copies, cleaner, stale, cut, fresh>>

\* A JSON file that cannot be parsed ends the round, as an exception.
AbortRound(p) ==
  /\ copier.step = "next" /\ p \in copier.todo
  /\ json[p[1]] = "empty"
  /\ copier' = NoRound
  /\ missed' = missed \union RowsOf(copier.todo)
  /\ UNCHANGED <<now, log, writer, files, request, copies, cleaner, faults,
                 stale, cut, fresh>>

CopyJsonFaulty(p) ==
  /\ copier.step = "next" /\ p \in copier.todo
  /\ json[p[1]] = "full"
  /\ copied' = [copied EXCEPT ![p[1]] = "empty"]
  /\ \E first \in copier.todo :
       copier' = [copier EXCEPT !.step = "append", !.event = p[1], !.uuid = first[2]]
  /\ UNCHANGED <<now, log, writer, files, request, day_file, cleaner, faults, history>>

\* The copied JSON is truncated and its new contents are buffered.
CopyJson(p) ==
  /\ copier.step = "next" /\ p \in copier.todo
  /\ json[p[1]] = "full"
  /\ copied' = [copied EXCEPT ![p[1]] = "empty"]
  /\ copier' = [copier EXCEPT !.step = "append", !.event = p[1], !.uuid = p[2]]
  /\ UNCHANGED <<now, log, writer, files, request, day_file, cleaner, faults, history>>

\* No descriptors, no transaction: only the JSON is copied.
NoData ==
  /\ copier.step = "append"
  /\ copier.event \notin dat
  /\ copier' = [copier EXCEPT !.step = "close"]
  /\ UNCHANGED <<now, log, writer, files, request, copies, cleaner, faults, history>>

AppendData ==
  /\ copier.step = "append"
  /\ copier.event \in dat
  /\ day_file' = [day_file EXCEPT ![copier.event] = @ + 1]
  /\ copier' = [copier EXCEPT !.step = "commit"]
  /\ UNCHANGED <<now, log, writer, files, request, copied, cleaner, faults, history>>

\* The transaction begins before the descriptors are appended: when it cannot,
\* the exception ends the round and closes the JSON.
BeginFails ==
  /\ copier.step = "append"
  /\ copier.event \in dat
  /\ Fault
  /\ copied' = [copied EXCEPT ![copier.event] = copier.uuid]
  /\ missed' = missed \union RowsOf(copier.todo)
  /\ copier' = NoRound
  /\ UNCHANGED <<now, log, writer, files, request, day_file, cleaner, stale, cut, fresh>>

\* copy_data of the copied row: it may be gone by now.
Done(e) == IF row[e] = "absent" THEN "absent" ELSE "done"

Commit ==
  /\ copier.step = "commit"
  /\ row' = [row EXCEPT ![copier.event] = Done(copier.event)]
  /\ copier' = [copier EXCEPT !.step = "close"]
  /\ UNCHANGED <<now, uuid, born, writer, files, request, copies, cleaner,
                 faults, history>>

RollbackFaulty ==
  /\ copier.step = "commit"
  /\ Fault
  /\ missed' = missed \union {copier.event}
  /\ copier' = Rest(<<copier.event, copier.uuid>>)
  /\ UNCHANGED <<now, log, writer, files, request, copies, cleaner, stale, cut, fresh>>

Rollback ==
  /\ copier.step = "commit"
  /\ Fault
  /\ missed' = missed \union {copier.event}
  /\ copier' = [copier EXCEPT !.step = "close"]
  /\ UNCHANGED <<now, log, writer, files, request, copies, cleaner, stale, cut, fresh>>

\* The copied JSON is closed last.
CloseCopy ==
  /\ copier.step = "close"
  /\ copied' = [copied EXCEPT ![copier.event] = copier.uuid]
  /\ copier' = Rest(<<copier.event, copier.uuid>>)
  /\ UNCHANGED <<now, log, writer, files, request, day_file, cleaner, faults, history>>

-----------------------------------------------------------------------------
(* doOldLogMaintenance                                                     *)

OldRows(before) == {e \in Events : row[e] # "absent" /\ born[e] < before}
OldData(before) == {e \in dat : dat_time[e] < before}
OldJson(before) == {e \in Events : json[e] # "absent" /\ json_time[e] < before}

\* Rows first, by log_date.  When that fails, the files stay as well.  (A round
\* that finds nothing old leaves everything as it is.)
CleanRows ==
  /\ cleaner.step = "idle"
  /\ LET before == now - TTL IN
     LET old == OldRows(before) IN
     /\ old \union OldData(before) \union OldJson(before) # {}
     /\ row' = [e \in Events |-> IF e \in old THEN "absent" ELSE row[e]]
     /\ uuid' = [e \in Events |-> IF e \in old THEN "none" ELSE uuid[e]]
     /\ born' = [e \in Events |-> IF e \in old THEN 0 ELSE born[e]]
     /\ cleaner' = [step |-> "files", before |-> before]
  /\ UNCHANGED <<now, writer, files, request, copier, copies, faults, history>>

CleanRowsFailsFaulty ==
  /\ cleaner.step = "idle"
  /\ Fault
  /\ cleaner' = [step |-> "files", before |-> now - TTL]
  /\ UNCHANGED <<now, log, writer, files, request, copier, copies, history>>

CleanRowsFails ==
  /\ cleaner.step = "idle"
  /\ Fault
  /\ UNCHANGED <<now, log, writer, files, request, copier, copies, cleaner, history>>

\* Then the files, one by one, by the time they were last written.
CleanData(e) ==
  /\ cleaner.step = "files"
  /\ e \in OldData(cleaner.before)
  /\ dat' = dat \ {e}
  /\ dat_time' = [dat_time EXCEPT ![e] = 0]
  /\ UNCHANGED <<now, log, writer, json, json_time, request, copier, copies,
                 cleaner, faults, history>>

CleanJson(e) ==
  /\ cleaner.step = "files"
  /\ e \in OldJson(cleaner.before)
  /\ json' = [json EXCEPT ![e] = "absent"]
  /\ json_time' = [json_time EXCEPT ![e] = 0]
  /\ UNCHANGED <<now, log, writer, dat, dat_time, request, copier, copies,
                 cleaner, faults, history>>

\* A file that cannot be removed is left for the next time.
EndCleaning ==
  /\ cleaner.step = "files"
  /\ cleaner' = NoCleaning
  /\ UNCHANGED <<now, log, writer, files, request, copier, copies, faults, history>>

-----------------------------------------------------------------------------
(* The service and the clock                                               *)

\* What is in memory is lost: the frames, the requests, the round and the
\* buffers of open files.
Restart ==
  /\ Fault
  /\ writer' = [e \in Events |->
       IF Busy(e) THEN "failed" ELSE writer[e]]
  /\ request' = [q \in Requests |->
       IF request[q].step = "read" THEN [step |-> "over", event |-> NoEvent]
                                   ELSE request[q]]
  /\ copier' = NoRound
  /\ missed' = missed \union RowsOf(copier.todo)
  /\ cut' = cut \union ({copier.event} \ {NoEvent})
  /\ cleaner' = NoCleaning
  /\ UNCHANGED <<now, log, files, copies, stale, fresh>>

Tick ==
  /\ now < MaxTime
  /\ now' = now + 1
  /\ UNCHANGED <<log, writer, files, request, copier, copies, cleaner, faults, history>>

Write(e) == LogFace(e) \/ LogSpecialFace(e) \/ WriteData(e) \/ CloseJson(e)

HandleRow ==
  \/ \E p \in copier.todo : SkipRow(p) \/ DirectoryFails(p) \/ AbortRound(p) \/ CopyJson(p)
  \/ NoData \/ AppendData \/ BeginFails \/ Commit \/ Rollback \/ CloseCopy

Clean ==
  \/ CleanRows \/ CleanRowsFails \/ EndCleaning
  \/ \E e \in Events : CleanData(e) \/ CleanJson(e)

Next ==
  \/ \E e \in Events : Write(e)
  \/ \E q \in Requests : ScheduleRow(q) \/ \E e \in Events : ReadRow(q, e)
  \/ StartRound \/ HandleRow
  \/ Clean
  \/ Restart \/ Tick

Spec == Init /\ [][Next]_vars

\* A frame that is being processed goes on, and so does the periodic task.
Fairness ==
  /\ \A e \in Events : WF_vars(WriteData(e) \/ CloseJson(e))
  /\ WF_vars(StartRound) /\ WF_vars(HandleRow)

FairSpec == Spec /\ Fairness

-----------------------------------------------------------------------------
(* Properties                                                              *)

Copying(e) == copier.event = e

\* The descriptors of an event get into the events file once, unless a round
\* failed on the event, or bestQuality scheduled it again because it had read
\* copy_data before the event was scheduled by another call.
AppendedOnce ==
  \A e \in Events : day_file[e] <= 1 \/ e \in missed \union stale

\* log_date is before the time of any write, and rows are deleted before
\* files: as long as an event has its row, its data files are there to copy.
FilesOutliveRow ==
  \A e \in Events :
    row[e] \in {"unscheduled", "scheduled", "done"} /\ writer[e] = "finished"
      => e \in dat /\ json[e] = "full"

\* An event that copy_data says is copied has its descriptors in the events
\* file and its JSON under the uuid it was scheduled with; the JSON may be wrong
\* if the event was scheduled twice, or a restart came before it was closed.
DoneMeansCopied ==
  \A e \in Events :
    row[e] = "done" =>
      /\ day_file[e] > 0
      /\ Copying(e) \/ e \in stale \union cut \/ copied[e] = uuid[e]

\* What searchFaces finds of an event whose face it is looking for: records of
\* the events file with their copied JSON; and a log entry only if the events
\* file has none.
Hits(e) ==
  IF day_file[e] > 0 THEN (IF copied[e] \in Requests THEN day_file[e] ELSE 0)
  ELSE IF e \in dat /\ json[e] = "full" THEN 1 ELSE 0

\* Copying never hides an event from searchFaces, except while it is being
\* copied or when a restart cut its copying off: an event that has been copied
\* or is in the log is found.
SearchFinds ==
  \A e \in Events :
    /\ day_file[e] > 0 \/ (e \in dat /\ json[e] = "full")
    /\ ~Copying(e) /\ e \notin cut
    => Hits(e) > 0

\* The time to live takes a scheduled event from the log before it is copied
\* only when it became ready to be copied after the last round began, when that
\* round is not over, or when a round failed on it.
LostWasLate ==
  [][\A e \in Events :
       row[e] = "scheduled" /\ row'[e] = "absent" /\ writer[e] = "finished"
         => e \in fresh \union missed \/ copier.step # "idle"]_vars

\* An event that cannot be parsed, and never will be.
Torn(e) == json[e] = "empty" /\ writer[e] = "failed" /\ row[e] = "scheduled"

\* A scheduled event whose files are written gets copied or expires, while no
\* torn event stands in the way of every round.
ScheduledIsCopied ==
  \A e \in Events :
    row[e] = "scheduled" /\ writer[e] = "finished"
      ~> row[e] # "scheduled" \/ \E b \in Events : Torn(b)

\* What the comment on copy_data says of 2, "done copy": once nobody is
\* copying the event, its JSON is there under the uuid the row has.
DoneIsCopied ==
  \A e \in Events :
    row[e] = "done" /\ ~Copying(e) => copied[e] = uuid[e]

=============================================================================

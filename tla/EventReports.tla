---------------------------- MODULE EventReports ----------------------------
(***************************************************************************)
(* From a frame to the callback, and what is left of it later: what LPRS   *)
(* and FRS do alike with a recognised number or face.  A frame with        *)
(* something to report is logged as a row, its screenshot is written to a  *)
(* file, and the backend of the stream is called, in this order; requests  *)
(* of the backend then read the row.  A periodic task deletes rows past    *)
(* their time to live and afterwards files past it.  A stream that is      *)
(* removed takes its rows with it (its files stay).                        *)
(*                                                                         *)
(* One of the two services runs.  The frames of one stream are processed   *)
(* one at a time, those of different streams side by side.  An event has   *)
(* the id that the serial column gives it, which no other event gets, even *)
(* when its insertion is rolled back.  FRS deletes a removed stream when   *)
(* its maintenance finds it marked for long enough: here the stream is     *)
(* removed at that moment.                                                 *)
(***************************************************************************)
EXTENDS Integers

CONSTANTS
  MaxEvent,   \* the last frame with something to report (a bound)
  Streams,    \* video streams of the backend's group
  Subjects,   \* numbers of LPRS, registered faces of FRS
  Contents,   \* sets of subjects that frames hold (a bound)
  Ttl,        \* events-log-ttl, log-faces-ttl
  MaxTime,    \* the clock stops here (a bound)
  MaxFaults   \* failures and restarts (a bound)

ASSUME ReportsConstants ==
  /\ MaxEvent \in Nat
  /\ Ttl \in Nat /\ MaxTime \in Nat /\ MaxFaults \in Nat
  /\ Streams # {} /\ Contents \subseteq SUBSET Subjects

\* Events in the order in which they are detected, and the ids of their rows.
Events == 1..MaxEvent
NoId == -1

VARIABLES
  service,   \* which of the two services this is
  now,       \* the system clock
  faults,    \* failures and restarts so far
  vstreams,  \* streams in the database
  known,     \* vstream_group_cache_ of LPRS (FRS has none)
  frame,     \* how far the frame of an event has got
  source,    \* its stream
  subject,   \* what was recognised in it
  rows,      \* events in events_log or log_faces
  date,      \* log_date
  files,     \* events whose screenshot file exists
  written,   \* when it was last written
  id,        \* the result of addEventLog or addLogFace
  call,      \* the callback on its way to the backend
  stale      \* files the maintenance task is about to remove

frameVars == <<frame, source, subject, date, id>>
reportVars == <<service, now, faults, vstreams, known, frameVars, rows, files,
                written, call, stale>>

FrameSteps == {"none", "log", "write", "call", "over"}

ReportsTypeOK ==
  /\ service \in {"LPRS", "FRS"}
  /\ now \in 0..MaxTime /\ faults \in 0..MaxFaults
  /\ vstreams \subseteq Streams /\ known \subseteq Streams
  /\ frame \in [Events -> FrameSteps]
  /\ source \in [Events -> Streams]
  /\ subject \in [Events -> SUBSET Subjects]
  /\ date \in [Events -> 0..MaxTime] /\ written \in [Events -> 0..MaxTime]
  /\ rows \subseteq Events /\ files \subseteq Events /\ stale \subseteq files
  /\ id \in [Events -> Events \union {NoId}]
  /\ call \in [Events -> {"none", "sent", "received", "lost"}]

\* The streams are in the database; a stream added within the last minute is
\* not in the cache of groups yet.
ReportsInit ==
  /\ service \in {"LPRS", "FRS"}
  /\ now = 0 /\ faults = 0
  /\ vstreams = Streams
  /\ known \in SUBSET Streams /\ (service = "FRS" => known = {})
  /\ frame = [e \in Events |-> "none"]
  /\ source = [e \in Events |-> CHOOSE s \in Streams : TRUE]
  /\ subject = [e \in Events |-> {}]
  /\ rows = {} /\ files = {} /\ stale = {}
  /\ date = [e \in Events |-> 0] /\ written = [e \in Events |-> 0]
  /\ id = [e \in Events |-> NoId]
  /\ call = [e \in Events |-> "none"]

Working(e) == frame[e] \in {"log", "write", "call"}

\* A failure in a handler or a request: one that uses up a fault.
Fault == faults < MaxFaults /\ faults' = faults + 1

\* Mutant: the callback is made before the screenshot is written.
AfterFaulty == [log |-> "call", call |-> "write", write |-> "over"]

\* The order of the three things a frame does.
After == [log |-> "write", write |-> "call", call |-> "over"]

-----------------------------------------------------------------------------
(* The task of a frame. *)

\* A frame of stream s holds the subjects S, or something else to report when
\* there are none; log_date is taken.  FRS logs the best face of a frame.
Detect(e, s, S) ==
  /\ frame[e] = "none"
  /\ \A d \in Events : d < e => frame[d] # "none"
  /\ s \in vstreams
  /\ \A d \in Events : source[d] = s => ~Working(d)
  /\ service = "FRS" => \A x, y \in S : x = y
  /\ frame' = [frame EXCEPT ![e] = "log"]
  /\ source' = [source EXCEPT ![e] = s]
  /\ subject' = [subject EXCEPT ![e] = S]
  /\ date' = [date EXCEPT ![e] = now]
  /\ UNCHANGED <<service, now, faults, vstreams, known, rows, files, written,
                 id, call, stale>>

\* addEventLog, addLogFace: the row is committed.
Log(e) ==
  /\ frame[e] = "log"
  /\ source[e] \in vstreams
  /\ rows' = rows \union {e}
  /\ id' = [id EXCEPT ![e] = e]
  /\ frame' = [frame EXCEPT ![e] = After["log"]]
  /\ UNCHANGED <<service, now, faults, vstreams, known, source, subject, date,
                 files, written, call, stale>>

\* The insertion fails, as it does when the stream is gone; the frame goes on
\* with -1.
LogRefused(e) ==
  /\ frame[e] = "log"
  /\ \/ source[e] \notin vstreams /\ UNCHANGED faults
     \/ Fault
  /\ frame' = [frame EXCEPT ![e] = After["log"]]
  /\ UNCHANGED <<service, now, vstreams, known, source, subject, date, rows,
                 files, written, id, call, stale>>

\* The commit fails and is rolled back: the id is already set and is used.
CommitFails(e) ==
  /\ frame[e] = "log"
  /\ source[e] \in vstreams
  /\ Fault
  /\ id' = [id EXCEPT ![e] = e]
  /\ frame' = [frame EXCEPT ![e] = After["log"]]
  /\ UNCHANGED <<service, now, vstreams, known, source, subject, date, rows,
                 files, written, call, stale>>

\* The transaction cannot begin, or its rollback fails too (the database may
\* have committed it): the exception ends the frame.
LogThrows(e) ==
  /\ frame[e] = "log"
  /\ Fault
  /\ \/ UNCHANGED rows
     \/ source[e] \in vstreams /\ rows' = rows \union {e}
  /\ frame' = [frame EXCEPT ![e] = "over"]
  /\ UNCHANGED <<service, now, vstreams, known, source, subject, date, files,
                 written, id, call, stale>>

WriteScreenshot(e) ==
  /\ frame[e] = "write"
  /\ files' = files \union {e}
  /\ written' = [written EXCEPT ![e] = now]
  /\ frame' = [frame EXCEPT ![e] = After["write"]]
  /\ UNCHANGED <<service, now, faults, vstreams, known, source, subject, date,
                 rows, id, call, stale>>

\* The directory, the file or its mode cannot be written: the exception ends
\* the frame before the callback.
ScreenshotFails(e) ==
  /\ frame[e] = "write"
  /\ Fault
  /\ \/ UNCHANGED <<files, written>>
     \/ /\ files' = files \union {e}
        /\ written' = [written EXCEPT ![e] = now]
  /\ frame' = [frame EXCEPT ![e] = "over"]
  /\ UNCHANGED <<service, now, vstreams, known, source, subject, date, rows, id,
                 call, stale>>

\* Mutant: LPRS, too, keeps silent about an event that was not stored.
ReportsFaulty(e) == id[e] # NoId /\ (service = "FRS" => subject[e] # {})

\* LPRS calls the backend whatever the id is; FRS does so for a registered
\* face whose row it believes to be stored.
Reports(e) == service = "FRS" => id[e] # NoId /\ subject[e] # {}

\* The callback is posted once; the frame is over when it is answered or has
\* timed out, and what the answer was makes no difference.
Callback(e) ==
  /\ frame[e] = "call"
  /\ IF Reports(e) THEN call' = [call EXCEPT ![e] = "sent"] ELSE UNCHANGED call
  /\ frame' = [frame EXCEPT ![e] = After["call"]]
  /\ UNCHANGED <<service, now, faults, vstreams, known, source, subject, date,
                 rows, files, written, id, stale>>

-----------------------------------------------------------------------------
(* doEventsLogMaintenance of LPRS, doOldLogMaintenance of FRS. *)

OldRows == {e \in rows : date[e] < now - Ttl}
OldFiles == {e \in files : written[e] < now - Ttl}

\* Mutant: only the files of the rows just deleted are removed.
CleanRowsFaulty ==
  /\ stale = {}
  /\ rows' = rows \ OldRows
  /\ stale' = OldFiles \intersect OldRows
  /\ UNCHANGED <<service, now, faults, vstreams, known, frameVars, files,
                 written, call>>

CleanRows ==
  /\ stale = {}
  /\ rows' = rows \ OldRows
  /\ stale' = OldFiles
  /\ UNCHANGED <<service, now, faults, vstreams, known, frameVars, files,
                 written, call>>

\* Mutant: the return after the failure is missing.
CleanRowsFailsFaulty ==
  /\ stale = {}
  /\ Fault
  /\ stale' = OldFiles
  /\ UNCHANGED <<service, now, vstreams, known, frameVars, rows, files, written,
                 call>>

\* When rows cannot be deleted the files are left alone, too.
CleanRowsFails ==
  /\ stale = {}
  /\ Fault
  /\ UNCHANGED <<service, now, vstreams, known, frameVars, rows, files, written,
                 call, stale>>

CleanFile(e) ==
  /\ e \in stale
  /\ files' = files \ {e}
  /\ stale' = stale \ {e}
  /\ UNCHANGED <<service, now, faults, vstreams, known, frameVars, rows,
                 written, call>>

\* A file that cannot be removed ends the round of LPRS with an exception and
\* is passed over by FRS.
CleanFileFails(e) ==
  /\ e \in stale
  /\ Fault
  /\ stale' = IF service = "LPRS" THEN {} ELSE stale \ {e}
  /\ UNCHANGED <<service, now, vstreams, known, frameVars, rows, files, written,
                 call>>

-----------------------------------------------------------------------------
(* The rest of the service and its surroundings. *)

\* removeStream of LPRS; doFlagDeletedMaintenance of FRS on a marked stream.
RemoveStream(s) ==
  /\ s \in vstreams
  /\ vstreams' = vstreams \ {s}
  /\ rows' = {e \in rows : source[e] # s}
  /\ UNCHANGED <<service, now, faults, known, frameVars, files, written, call,
                 stale>>

ReloadGroups ==
  /\ service = "LPRS"
  /\ known' = vstreams
  /\ UNCHANGED <<service, now, faults, vstreams, frameVars, rows, files,
                 written, call, stale>>

\* The service process is started anew: what its tasks were doing is gone.
Restart ==
  /\ Fault
  /\ frame' = [e \in Events |-> IF Working(e) THEN "over" ELSE frame[e]]
  /\ known' = IF service = "LPRS" THEN vstreams ELSE known
  /\ stale' = {}
  /\ UNCHANGED <<service, now, vstreams, source, subject, date, rows, files,
                 written, id, call>>

Tick ==
  /\ now < MaxTime
  /\ now' = now + 1
  /\ UNCHANGED <<service, faults, vstreams, known, frameVars, rows, files,
                 written, call, stale>>

\* Mutant: FRS looks for the stream in a cache it does not have.
ReadableFaulty(d) == d \in rows /\ source[d] \in known

\* getEventData and bestQuality by event id: the rows the backend may read.
\* LPRS looks for the group of the stream in its cache, FRS in the database.
Readable(d) ==
  /\ d \in rows
  /\ service = "LPRS" => source[d] \in known

FrameStep(e) == Log(e) \/ LogRefused(e) \/ WriteScreenshot(e) \/ Callback(e)

ServiceNext ==
  \/ \E e \in Events : \/ \E s \in Streams, S \in Contents : Detect(e, s, S)
                       \/ FrameStep(e)
                       \/ CommitFails(e) \/ LogThrows(e) \/ ScreenshotFails(e)
                       \/ CleanFile(e) \/ CleanFileFails(e)
  \/ CleanRows \/ CleanRowsFails \/ ReloadGroups \/ Restart \/ Tick
  \/ \E s \in Streams : RemoveStream(s)

=============================================================================

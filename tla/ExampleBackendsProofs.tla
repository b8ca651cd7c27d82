------------------------ MODULE ExampleBackendsProofs ------------------------
(***************************************************************************)
(* What holds of events, their files and the example backends for any      *)
(* number of events, streams, failures, and any time to live: types, that  *)
(* an event which the backend was told of has its picture as long as it    *)
(* has its row, what can bring a backend down, and what it saves.          *)
(***************************************************************************)
EXTENDS ExampleBackends, TLAPS

-----------------------------------------------------------------------------
(* The inductive invariant                                                 *)

\* The callback of e is about to be made, or has been.
Called(e) == frame[e] = "call" \/ call[e] # "none"

\* Row and file come into being in the steps of the frame that write them, the
\* file no earlier than the row is dated.  Once the backend is told, the file
\* is there and not about to be removed, or the event has expired and its row
\* is gone for good.  A backend loads the picture of the event it was told of.
EventOK(e) ==
  /\ date[e] <= now
  /\ e \in files => date[e] <= written[e]
  /\ frame[e] \in {"none", "log"} => e \notin rows
  /\ frame[e] \in {"none", "log", "write"} => e \notin files
  /\ call[e] # "none" => frame[e] = "over"
  /\ Called(e) => \/ e \in files /\ e \notin stale
                  \/ e \notin rows /\ Expired(e)
  /\ id[e] \in {NoId, e}
  /\ stage[e] # "none" => call[e] # "none"
  /\ stage[e] = "loading" => id[e] = e

EventsInv == \A e \in Events : EventOK(e)

\* While a handler is at work, its variable holds what its own callback said,
\* although the handlers of other callbacks have run since.
HeardInv == \A e \in Events : Busy(e) => heard[e] = Told(e)

\* What is saved is of an event whose frame is over.
SavedInv ==
  /\ \A p \in pictures : frame[p.name] = "over" /\ p.of = Told(p.name)
  /\ \A t \in texts : t.of = Told(t.name) /\ \E p \in pictures : p.name = t.name

IInv == TypeOK /\ EventsInv /\ HeardInv /\ SavedInv

\* The invariant holds initially.
LEMMA InitInv == Init => IInv
<1> SUFFICES ASSUME Init PROVE IInv
  OBVIOUS
<1> USE DEF Init, ReportsInit
<1>1. (CHOOSE s \in Streams : TRUE) \in Streams
  BY ReportsConstants
<1>2. TypeOK
  <2>1. now \in 0..MaxTime /\ faults \in 0..MaxFaults
    BY ReportsConstants
  <2> QED BY <1>1, <2>1 DEF TypeOK, ReportsTypeOK, FrameSteps, Busy, Notes
<1>3. EventsInv
  BY DEF EventsInv, EventOK, Called
<1>4. HeardInv /\ SavedInv
  BY DEF HeardInv, SavedInv, Busy
<1> QED BY <1>2, <1>3, <1>4 DEF IInv

-----------------------------------------------------------------------------
(* Types                                                                   *)

\* The services keep the types.
LEMMA ServiceType ==
  ASSUME TypeOK, ServiceNext, UNCHANGED backendVars PROVE TypeOK'
<1> USE DEF TypeOK, ReportsTypeOK, frameVars, backendVars, memory, Busy, Notes
<1>a. FrameSteps = {"none", "log", "write", "call", "over"}
  BY DEF FrameSteps
<1>b. After["log"] \in FrameSteps /\ After["write"] \in FrameSteps
      /\ After["call"] \in FrameSteps
  BY <1>a DEF After
<1>c. ASSUME Fault PROVE faults' \in 0..MaxFaults
  BY <1>c, ReportsConstants DEF Fault
<1>1. ASSUME NEW e \in Events, NEW s \in Streams, NEW S \in Contents, Detect(e, s, S)
      PROVE  TypeOK'
  BY <1>1, <1>a, ReportsConstants DEF Detect
<1>2. ASSUME NEW e \in Events, Log(e) PROVE TypeOK'
  BY <1>2, <1>b DEF Log
<1>3. ASSUME NEW e \in Events, LogRefused(e) PROVE TypeOK'
  BY <1>3, <1>b, <1>c DEF LogRefused
<1>4. ASSUME NEW e \in Events, CommitFails(e) PROVE TypeOK'
  BY <1>4, <1>b, <1>c DEF CommitFails
<1>5. ASSUME NEW e \in Events, LogThrows(e) PROVE TypeOK'
  BY <1>5, <1>a, <1>c DEF LogThrows
<1>6. ASSUME NEW e \in Events, WriteScreenshot(e) PROVE TypeOK'
  BY <1>6, <1>b DEF WriteScreenshot
<1>7. ASSUME NEW e \in Events, ScreenshotFails(e) PROVE TypeOK'
  BY <1>7, <1>a, <1>c DEF ScreenshotFails
<1>8. ASSUME NEW e \in Events, Callback(e) PROVE TypeOK'
  BY <1>8, <1>b DEF Callback
<1>9. ASSUME NEW e \in Events, CleanFile(e) PROVE TypeOK'
  BY <1>9 DEF CleanFile
<1>10. ASSUME NEW e \in Events, CleanFileFails(e) PROVE TypeOK'
  BY <1>10, <1>c DEF CleanFileFails
<1>11. CASE CleanRows
  BY <1>11 DEF CleanRows, OldRows, OldFiles
<1>12. CASE CleanRowsFails
  BY <1>12, <1>c DEF CleanRowsFails
<1>13. CASE ReloadGroups
  BY <1>13 DEF ReloadGroups
<1>14. CASE Restart
  BY <1>14, <1>a, <1>c DEF Restart
<1>15. CASE Tick
  BY <1>15, ReportsConstants DEF Tick
<1>16. ASSUME NEW s \in Streams, RemoveStream(s) PROVE TypeOK'
  BY <1>16 DEF RemoveStream
<1> QED
  BY <1>1, <1>2, <1>3, <1>4, <1>5, <1>6, <1>7, <1>8, <1>9, <1>10, <1>11, <1>12,
     <1>13, <1>14, <1>15, <1>16 DEF ServiceNext, FrameStep

\* A rejection leaves nothing in progress when it ends the process.
LEMMA RejectedType ==
  ASSUME TypeOK, NEW e \in Events, Busy(e), Rejected(e)
  PROVE  /\ up' \in BOOLEAN
         /\ stage' \in [Events -> {"none", "asking", "loading", "saved", "ended", "lost"}]
         /\ ~up' => \A d \in Events : ~Busy(d)'
BY BackendConstants DEF Rejected, TypeOK, Busy

\* What a backend saves is about an event.
LEMMA NotesType ==
  ASSUME TypeOK, NEW e \in Events, id[e] \in files,
         NEW S \in SUBSET Subjects
  PROVE  [name |-> id[e], of |-> S] \in Notes
BY DEF TypeOK, ReportsTypeOK, Notes

\* What a handler has heard and what it draws are subjects.
LEMMA HeardType ==
  ASSUME TypeOK, NEW e \in Events
  PROVE  /\ subject[e] \in SUBSET Subjects /\ FaceName(e) \in SUBSET Subjects
         /\ heard[Scope(e)] \in SUBSET Subjects
         /\ id[e] \in files => subject[id[e]] \in SUBSET Subjects
BY DEF TypeOK, ReportsTypeOK, FaceName, Scope

\* So do the backends.
LEMMA BackendType ==
  ASSUME TypeOK, BackendNext PROVE TypeOK'
<1> USE DEF TypeOK, ReportsTypeOK, frameVars, reportVars, backendVars, memory
<1>c. ASSUME Fault PROVE faults' \in 0..MaxFaults
  BY <1>c, ReportsConstants DEF Fault
<1>1. CASE LprsListen \/ FrsListen
  BY <1>1 DEF LprsListen, FrsListen, Forget, Busy
<1>2. ASSUME NEW e \in Events, LprsCallback(e) \/ FrsCallback(e) PROVE TypeOK'
  <2>1. heard' \in [Events -> SUBSET Subjects]
    BY <1>2, HeardType DEF LprsCallback, FrsCallback, Scope
  <2> QED BY <1>2, <2>1 DEF LprsCallback, FrsCallback, Busy
<1>3. ASSUME NEW e \in Events, CallLost(e) PROVE TypeOK'
  BY <1>3, <1>c DEF CallLost, Busy
<1>4. ASSUME NEW e \in Events, Answered(e) \/ AnsweredEmpty(e) PROVE TypeOK'
  BY <1>4 DEF Answered, AnsweredEmpty, Busy
<1>5. ASSUME NEW e \in Events, AskFails(e) PROVE TypeOK'
  BY <1>5, <1>c DEF AskFails, Busy
<1>6. ASSUME NEW e \in Events, ImageMissing(e) PROVE TypeOK'
  BY <1>6, RejectedType DEF ImageMissing, Busy
<1>7. ASSUME NEW e \in Events, ImageFails(e) PROVE TypeOK'
  BY <1>7, <1>c, RejectedType DEF ImageFails, Busy
<1>8. ASSUME NEW e \in Events, LprsSave(e) \/ FrsSave(e) PROVE TypeOK'
  <2>1. /\ buffer' \in SUBSET Subjects
        /\ [name |-> id[e], of |-> buffer'] \in Notes
        /\ [name |-> id[e], of |-> heard[Scope(e)]] \in Notes
    BY <1>8, HeardType, NotesType DEF LprsSave, FrsSave, Draw
  <2>2. pictures' \subseteq Notes /\ texts' \subseteq Notes
    BY <1>8, <2>1 DEF LprsSave, FrsSave, SavePicture
  <2> QED BY <1>8, <2>1, <2>2 DEF LprsSave, FrsSave, Busy
<1>9. ASSUME NEW e \in Events, LprsSaveFails(e) \/ FrsSaveFails(e) PROVE TypeOK'
  <2>1. buffer' \in SUBSET Subjects /\ [name |-> id[e], of |-> buffer'] \in Notes
    BY <1>9, HeardType, NotesType DEF LprsSaveFails, FrsSaveFails, Draw
  <2>2. pictures' \subseteq Notes
    BY <1>9, <2>1 DEF LprsSaveFails, FrsSaveFails, SavePicture
  <2> QED BY <1>9, <1>c, <2>1, <2>2, RejectedType DEF LprsSaveFails, FrsSaveFails, Busy
<1> QED
  BY <1>1, <1>2, <1>3, <1>4, <1>5, <1>6, <1>7, <1>8, <1>9 DEF BackendNext, BackendStep

-----------------------------------------------------------------------------
(* Events                                                                  *)

\* The services: a row comes before its file, its file before the callback,
\* and the file goes after the row.
LEMMA ServiceEvents ==
  ASSUME IInv, ServiceNext, UNCHANGED backendVars, NEW d \in Events
  PROVE  EventOK(d)'
<1>a. TypeOK /\ EventOK(d)
  BY DEF IInv, EventsInv
<1> USE DEF EventOK, Called, Expired, frameVars, backendVars
<1>t. /\ now \in Int /\ Ttl \in Int /\ date[d] \in Int /\ written[d] \in Int
      /\ stale \subseteq files
  BY <1>a, ReportsConstants DEF TypeOK, ReportsTypeOK
<1> USE DEF TypeOK, ReportsTypeOK
<1>1. ASSUME NEW e \in Events, NEW s \in Streams, NEW S \in Contents, Detect(e, s, S)
      PROVE  EventOK(d)'
  BY <1>1, <1>a, <1>t DEF Detect
<1>2. ASSUME NEW e \in Events, Log(e) PROVE EventOK(d)'
  BY <1>2, <1>a, <1>t DEF Log, After
<1>3. ASSUME NEW e \in Events, LogRefused(e) PROVE EventOK(d)'
  BY <1>3, <1>a, <1>t DEF LogRefused, After
<1>4. ASSUME NEW e \in Events, CommitFails(e) PROVE EventOK(d)'
  BY <1>4, <1>a, <1>t DEF CommitFails, After
<1>5. ASSUME NEW e \in Events, LogThrows(e) PROVE EventOK(d)'
  BY <1>5, <1>a, <1>t DEF LogThrows
<1>6. ASSUME NEW e \in Events, WriteScreenshot(e) PROVE EventOK(d)'
  BY <1>6, <1>a, <1>t DEF WriteScreenshot, After
<1>7. ASSUME NEW e \in Events, ScreenshotFails(e) PROVE EventOK(d)'
  BY <1>7, <1>a, <1>t DEF ScreenshotFails
<1>8. ASSUME NEW e \in Events, Callback(e) PROVE EventOK(d)'
  BY <1>8, <1>a, <1>t DEF Callback, After
<1>9. ASSUME NEW e \in Events, CleanFile(e) PROVE EventOK(d)'
  BY <1>9, <1>a, <1>t DEF CleanFile
<1>10. ASSUME NEW e \in Events, CleanFileFails(e) PROVE EventOK(d)'
  BY <1>10, <1>a, <1>t DEF CleanFileFails
<1>11. CASE CleanRows
  <2>1. d \in stale' => date[d] < now - Ttl /\ d \notin rows'
    BY <1>11, <1>a, <1>t DEF CleanRows, OldFiles, OldRows
  <2>2. rows' \subseteq rows
    BY <1>11 DEF CleanRows
  <2> QED BY <1>11, <1>a, <1>t, <2>1, <2>2 DEF CleanRows
<1>12. CASE CleanRowsFails \/ ReloadGroups
  BY <1>12, <1>a DEF CleanRowsFails, ReloadGroups
<1>13. CASE Restart
  BY <1>13, <1>a, <1>t DEF Restart, Working
<1>14. CASE Tick
  BY <1>14, <1>a, <1>t DEF Tick
<1>15. ASSUME NEW s \in Streams, RemoveStream(s) PROVE EventOK(d)'
  BY <1>15, <1>a DEF RemoveStream
<1> QED
  BY <1>1, <1>2, <1>3, <1>4, <1>5, <1>6, <1>7, <1>8, <1>9, <1>10, <1>11, <1>12,
     <1>13, <1>14, <1>15 DEF ServiceNext, FrameStep

\* What Node.js makes of a rejection starts no work.
LEMMA RejectedStage ==
  ASSUME TypeOK, NEW e \in Events, stage[e] = "loading", Rejected(e), NEW d \in Events
  PROVE  /\ stage'[d] # "none" => stage[d] # "none"
         /\ stage'[d] = "loading" => stage[d] = "loading"
BY DEF Rejected, TypeOK, Busy

\* The backends: an image is loaded for the event whose row was read.
LEMMA BackendEvents ==
  ASSUME IInv, BackendNext, NEW d \in Events PROVE EventOK(d)'
<1>a. TypeOK /\ EventOK(d)
  BY DEF IInv, EventsInv
<1> USE DEF EventOK, Called, Expired, frameVars, reportVars
<1>1. CASE LprsListen \/ FrsListen
  BY <1>1, <1>a DEF LprsListen, FrsListen
<1>2. ASSUME NEW e \in Events, LprsCallback(e) \/ FrsCallback(e) PROVE EventOK(d)'
  BY <1>2, <1>a DEF LprsCallback, FrsCallback, TypeOK, ReportsTypeOK
<1>3. ASSUME NEW e \in Events, CallLost(e) PROVE EventOK(d)'
  BY <1>3, <1>a DEF CallLost, TypeOK, ReportsTypeOK, backendVars
<1>4. ASSUME NEW e \in Events, Answered(e) PROVE EventOK(d)'
  <2>1. id[e] \in rows /\ rows \subseteq Events /\ NoId \notin Events
    BY <1>4, <1>a DEF Answered, Readable, TypeOK, ReportsTypeOK, NoId, Events
  <2>2. e = d => id[d] = d
    BY <1>a, <2>1
  <2> QED BY <1>4, <1>a, <2>2 DEF Answered, TypeOK
<1>5. ASSUME NEW e \in Events, AnsweredEmpty(e) \/ AskFails(e) PROVE EventOK(d)'
  BY <1>5, <1>a DEF AnsweredEmpty, AskFails, TypeOK
<1>6. ASSUME NEW e \in Events,
             ImageMissing(e) \/ ImageFails(e) \/ LprsSaveFails(e) \/ FrsSaveFails(e)
      PROVE  EventOK(d)'
  <2>1. /\ stage'[d] # "none" => stage[d] # "none"
        /\ stage'[d] = "loading" => stage[d] = "loading"
    BY <1>6, <1>a, RejectedStage
       DEF ImageMissing, ImageFails, LprsSaveFails, FrsSaveFails
  <2> QED
    BY <1>6, <1>a, <2>1 DEF ImageMissing, ImageFails, LprsSaveFails, FrsSaveFails
<1>7. ASSUME NEW e \in Events, LprsSave(e) \/ FrsSave(e) PROVE EventOK(d)'
  BY <1>7, <1>a DEF LprsSave, FrsSave, TypeOK
<1> QED
  BY <1>1, <1>2, <1>3, <1>4, <1>5, <1>6, <1>7 DEF BackendNext, BackendStep

-----------------------------------------------------------------------------
(* What is saved                                                           *)

\* An event that a backend loads a picture for is over, under its own id.
LEMMA LoadingIsOver ==
  ASSUME IInv, NEW e \in Events, stage[e] = "loading"
  PROVE  id[e] = e /\ frame[e] = "over"
BY DEF IInv, EventsInv, EventOK

\* A service does not touch the subjects of a frame that is over.
LEMMA ServiceSaved ==
  ASSUME IInv, ServiceNext, UNCHANGED backendVars PROVE HeardInv' /\ SavedInv'
<1>1. ASSUME NEW d \in Events, frame[d] = "over"
      PROVE  frame'[d] = "over" /\ subject'[d] = subject[d]
  <2>1. ASSUME NEW e \in Events, NEW s \in Streams, NEW S \in Contents, Detect(e, s, S)
        PROVE  frame'[d] = "over" /\ subject'[d] = subject[d]
    BY <1>1, <2>1 DEF Detect, IInv, TypeOK, ReportsTypeOK
  <2>2. ASSUME NEW e \in Events,
               \/ FrameStep(e) \/ CommitFails(e) \/ LogThrows(e) \/ ScreenshotFails(e)
               \/ CleanFile(e) \/ CleanFileFails(e)
        PROVE  frame'[d] = "over" /\ subject'[d] = subject[d]
    BY <1>1, <2>2 DEF FrameStep, Log, LogRefused, WriteScreenshot, Callback, CommitFails,
       LogThrows, ScreenshotFails, CleanFile, CleanFileFails, frameVars, IInv, TypeOK,
       ReportsTypeOK
  <2>3. CASE CleanRows \/ CleanRowsFails \/ ReloadGroups \/ Restart \/ Tick
    BY <1>1, <2>3 DEF CleanRows, CleanRowsFails, ReloadGroups, Restart, Tick, Working,
       frameVars
  <2>4. ASSUME NEW s \in Streams, RemoveStream(s)
        PROVE  frame'[d] = "over" /\ subject'[d] = subject[d]
    BY <1>1, <2>4 DEF RemoveStream, frameVars
  <2> QED BY <2>1, <2>2, <2>3, <2>4 DEF ServiceNext
<1>2. /\ \A p \in pictures : p.name \in Events
      /\ \A t \in texts : t.name \in Events
  BY DEF IInv, TypeOK, Notes
<1>3. service' = service
  BY DEF ServiceNext, FrameStep, Detect, Log, LogRefused, WriteScreenshot, Callback,
     CommitFails, LogThrows, ScreenshotFails, CleanFile, CleanFileFails, CleanRows,
     CleanRowsFails, ReloadGroups, Restart, Tick, RemoveStream
<1>4. \A d \in Events : frame[d] = "over" => Told(d)' = Told(d)
  BY <1>1, <1>3 DEF Told, FaceName
<1>5. \A d \in Events : Busy(d) => frame[d] = "over"
  BY DEF Busy, IInv, EventsInv, EventOK
<1>6. HeardInv'
  BY <1>4, <1>5 DEF IInv, HeardInv, Busy, backendVars, memory
<1>7. SavedInv'
  BY <1>1, <1>2, <1>4 DEF IInv, SavedInv, backendVars
<1> QED BY <1>6, <1>7

\* No backend step changes what an event is about.
LEMMA BackendTold ==
  ASSUME BackendNext
  PROVE  /\ UNCHANGED <<frame, subject, service>>
         /\ \A d : Told(d)' = Told(d)
<1>1. UNCHANGED <<frame, subject, service>>
  BY DEF BackendNext, BackendStep, LprsListen, FrsListen, LprsCallback, FrsCallback,
     CallLost, Answered, AnsweredEmpty, AskFails, ImageMissing, ImageFails, LprsSave,
     FrsSave, LprsSaveFails, FrsSaveFails, reportVars, frameVars
<1> QED BY <1>1 DEF Told, FaceName

\* Handlers run in turns, and each finds its variable as it has left it.
LEMMA BackendHeard ==
  ASSUME IInv, BackendNext PROVE HeardInv'
<1>a. /\ HeardInv /\ stage \in [Events -> {"none", "asking", "loading", "saved", "ended", "lost"}]
      /\ heard \in [Events -> SUBSET Subjects]
      /\ ~up => \A e \in Events : ~Busy(e)
  BY DEF IInv, TypeOK
<1>b. \A d : Told(d)' = Told(d)
  BY BackendTold
<1>1. CASE LprsListen \/ FrsListen
  BY <1>1, <1>a DEF LprsListen, FrsListen, HeardInv, Busy
<1>2. ASSUME NEW e \in Events, LprsCallback(e) \/ FrsCallback(e) PROVE HeardInv'
  <2>1. /\ heard' = [heard EXCEPT ![e] = Told(e)]
        /\ stage' = [stage EXCEPT ![e] = "asking"]
    BY <1>2 DEF LprsCallback, FrsCallback, Scope, Told
  <2> QED BY <1>a, <1>b, <2>1 DEF HeardInv, Busy
<1>3. ASSUME UNCHANGED heard, \A d \in Events : Busy(d)' => Busy(d) PROVE HeardInv'
  BY <1>3, <1>a, <1>b DEF HeardInv
<1>4. ASSUME NEW e \in Events, CallLost(e) \/ Answered(e) \/ AnsweredEmpty(e) \/ AskFails(e)
      PROVE  HeardInv'
  <2>1. UNCHANGED heard /\ \A d \in Events : Busy(d)' => Busy(d)
    BY <1>4, <1>a DEF CallLost, Answered, AnsweredEmpty, AskFails, Busy, backendVars, memory
  <2> QED BY <2>1, <1>3
<1>5. ASSUME NEW e \in Events,
             \/ ImageMissing(e) \/ ImageFails(e) \/ LprsSaveFails(e) \/ FrsSaveFails(e)
      PROVE  HeardInv'
  <2>1. UNCHANGED heard /\ Rejected(e)
    BY <1>5 DEF ImageMissing, ImageFails, LprsSaveFails, FrsSaveFails, memory
  <2>2. \A d \in Events : Busy(d)' => Busy(d)
    BY <2>1, <1>a DEF Rejected, Busy
  <2> QED BY <2>1, <2>2, <1>3
<1>6. ASSUME NEW e \in Events, LprsSave(e) \/ FrsSave(e) PROVE HeardInv'
  <2>1. UNCHANGED heard /\ \A d \in Events : Busy(d)' => Busy(d)
    BY <1>6, <1>a DEF LprsSave, FrsSave, Busy
  <2> QED BY <2>1, <1>3
<1> QED BY <1>1, <1>2, <1>4, <1>5, <1>6 DEF BackendNext, BackendStep

\* A backend adds pictures and texts of the event it was told of.
LEMMA BackendSaved ==
  ASSUME IInv, BackendNext PROVE SavedInv'
<1>a. SavedInv
  BY DEF IInv
<1>b. UNCHANGED frame /\ \A d : Told(d)' = Told(d)
  BY BackendTold
<1>1. ASSUME NEW e \in Events, stage[e] = "loading"
      PROVE  /\ id[e] = e /\ frame[e] = "over" /\ heard[Scope(e)] = Told(e)
             /\ service = "LPRS" => subject[id[e]] = Told(e)
  BY <1>1, LoadingIsOver DEF IInv, HeardInv, Busy, Scope, Told
<1>2. ASSUME NEW e \in Events, LprsSave(e) PROVE SavedInv'
  <2>1. /\ pictures' = pictures \union {[name |-> e, of |-> Told(e)]}
        /\ texts' = texts \union {[name |-> e, of |-> Told(e)]}
        /\ frame[e] = "over"
    BY <1>1, <1>2 DEF LprsSave, Draw, SavePicture
  <2> QED BY <1>a, <1>b, <2>1 DEF SavedInv
<1>3. ASSUME NEW e \in Events, FrsSave(e) PROVE SavedInv'
  <2>1. /\ pictures' = pictures \union {[name |-> e, of |-> Told(e)]}
        /\ texts' = texts /\ frame[e] = "over"
    BY <1>1, <1>3 DEF FrsSave, Draw, SavePicture
  <2> QED BY <1>a, <1>b, <2>1 DEF SavedInv
<1>4. ASSUME NEW e \in Events, LprsSaveFails(e) PROVE SavedInv'
  <2>1. /\ pictures' \in {pictures, pictures \union {[name |-> e, of |-> Told(e)]}}
        /\ texts' = texts /\ frame[e] = "over"
    BY <1>1, <1>4 DEF LprsSaveFails, Draw, SavePicture
  <2> QED BY <1>a, <1>b, <2>1 DEF SavedInv
<1>5. CASE UNCHANGED <<pictures, texts>>
  BY <1>a, <1>b, <1>5 DEF SavedInv
<1> QED
  BY <1>2, <1>3, <1>4, <1>5
     DEF BackendNext, BackendStep, LprsListen, FrsListen, LprsCallback, FrsCallback,
         CallLost, Answered, AnsweredEmpty, AskFails, ImageMissing, ImageFails,
         FrsSaveFails, backendVars

\* The invariant is preserved by every step.
LEMMA NextInv == IInv /\ [Next]_vars => IInv'
<1> SUFFICES ASSUME IInv, [Next]_vars PROVE IInv'
  OBVIOUS
<1>1. CASE ServiceNext /\ UNCHANGED backendVars
  BY <1>1, ServiceType, ServiceEvents, ServiceSaved DEF IInv, EventsInv
<1>2. CASE BackendNext
  BY <1>2, BackendType, BackendEvents, BackendHeard, BackendSaved DEF IInv, EventsInv
<1>3. CASE UNCHANGED vars
  BY <1>3 DEF vars, reportVars, frameVars, backendVars, memory, IInv, TypeOK, ReportsTypeOK,
     Busy, EventsInv, EventOK, Called, Expired, HeardInv, SavedInv, Told, FaceName
<1> QED BY <1>1, <1>2, <1>3 DEF Next

\* The invariant holds in every reachable state.
LEMMA Invariance == Spec => []IInv
BY InitInv, NextInv, PTL DEF Spec

-----------------------------------------------------------------------------
(* Theorems                                                                *)

\* Services and backends keep their types, and a backend that is down has
\* nothing in progress.
THEOREM TypeCorrect == Spec => []TypeOK
<1>1. IInv => TypeOK
  BY DEF IInv
<1> QED BY <1>1, Invariance, PTL

\* However retention, removal of streams, failures and restarts fall together,
\* a row whose callback was made has its screenshot.
THEOREM Told_HasPicture == Spec => []ToldHasPicture
<1>1. IInv => ToldHasPicture
  BY DEF IInv, EventsInv, EventOK, Called, ToldHasPicture, TypeOK, ReportsTypeOK
<1> QED BY <1>1, Invariance, PTL

\* Any number of handlers that run in turns do not mix up what they were told:
\* what is saved of an event is what the service knows of it.
THEOREM Saved_IsOwn == Spec => []SavedIsOwn
<1>1. IInv => SavedIsOwn
  BY DEF IInv, SavedInv, SavedIsOwn
<1> QED BY <1>1, Invariance, PTL

\* Without a failure only an event that expired while its picture was on its
\* way ends the process of a backend.
THEOREM Down_NeedsCause == Spec => DownNeedsCause
<1>1. ASSUME IInv, [Next]_vars, up, ~up'
      PROVE  \/ faults' > faults
             \/ \E e \in Events : stage[e] = "loading" /\ Expired(id[e])
  <2>1. ASSUME Fault PROVE faults' > faults
    BY <1>1, <2>1 DEF Fault, IInv, TypeOK, ReportsTypeOK
  <2>2. PICK e \in Events :
          ImageMissing(e) \/ ImageFails(e) \/ LprsSaveFails(e) \/ FrsSaveFails(e)
    BY <1>1 DEF Next, BackendNext, BackendStep, LprsListen, FrsListen, LprsCallback,
       FrsCallback, CallLost, Answered, AnsweredEmpty, AskFails, LprsSave, FrsSave,
       backendVars, vars
  <2>3. CASE ImageMissing(e)
    <3>1. stage[e] = "loading" /\ id[e] \notin files /\ EventOK(e)
      BY <1>1, <2>3 DEF ImageMissing, IInv, EventsInv
    <3> QED BY <3>1 DEF EventOK, Called
  <2>4. CASE ImageFails(e) \/ LprsSaveFails(e) \/ FrsSaveFails(e)
    BY <2>1, <2>4 DEF ImageFails, LprsSaveFails, FrsSaveFails
  <2> QED BY <2>2, <2>3, <2>4
<1>2. IInv /\ [Next]_vars =>
        [up /\ ~up' => \/ faults' > faults
                       \/ \E e \in Events : stage[e] = "loading" /\ Expired(id[e])]_vars
  BY <1>1
<1> QED BY Invariance, <1>2, PTL DEF Spec, DownNeedsCause
=============================================================================

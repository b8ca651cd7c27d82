--------------------------- MODULE ExampleBackends ---------------------------
(***************************************************************************)
(* The backends that come with the services as examples, and the services  *)
(* they talk to (EventReports).  A backend is one Node.js process: an      *)
(* action here is what runs between two turns of its event loop.  It       *)
(* answers a callback first, then looks for registered subjects in it,     *)
(* asks the service for the event's data, fetches the screenshot that the  *)
(* answer names, draws on it and saves the picture.                        *)
(*                                                                         *)
(* The promise of loadImage is neither awaited nor returned: an error in   *)
(* it, or in what is done with the image, is an unhandled rejection, which *)
(* ends the process (since Node.js 15; before, it is a warning).  Errors   *)
(* of the request for the data are caught and logged.                      *)
(***************************************************************************)
EXTENDS EventReports

CONSTANTS
  Registered,       \* registered_numbers, registered_faces
  ExitOnRejection   \* Node.js exits on an unhandled rejection

ASSUME BackendConstants == Registered \subseteq Subjects /\ ExitOnRejection \in BOOLEAN

VARIABLES
  up,        \* the backend is listening
  stage,     \* what it does about the callback of an event
  heard,     \* all_plates, txt: what a handler remembers of its callback
  buffer,    \* what is drawn: one for all handlers, as nothing declares it
  opened,    \* events on which it opens the gate or door
  pictures,  \* saved .jpg files: the event they are named after, what is drawn
  texts      \* saved .txt files (LPRS): the same, with the numbers in them

memory == <<heard, buffer>>
backendVars == <<up, stage, memory, opened, pictures, texts>>
vars == <<reportVars, backendVars>>

Notes == [name : Events, of : SUBSET Subjects]
Busy(e) == stage[e] \in {"asking", "loading"}

TypeOK ==
  /\ ReportsTypeOK
  /\ up \in BOOLEAN
  /\ stage \in [Events -> {"none", "asking", "loading", "saved", "ended", "lost"}]
  /\ heard \in [Events -> SUBSET Subjects] /\ buffer \in SUBSET Subjects
  /\ opened \subseteq Events
  /\ pictures \subseteq Notes /\ texts \subseteq Notes
  /\ ~up => \A e \in Events : ~Busy(e)

Init ==
  /\ ReportsInit
  /\ up = FALSE
  /\ stage = [e \in Events |-> "none"]
  /\ heard = [e \in Events |-> {}] /\ buffer = {}
  /\ opened = {} /\ pictures = {} /\ texts = {}

-----------------------------------------------------------------------------
(* What the two backends do with a callback.                               *)

\* A new process remembers nothing.
Forget == heard' = [e \in Events |-> {}] /\ buffer' = {}

LprsListen ==
  /\ service = "LPRS" /\ ~up
  /\ up' = TRUE
  /\ Forget
  /\ UNCHANGED <<reportVars, stage, opened, pictures, texts>>

FrsListen ==
  /\ service = "FRS" /\ ~up
  /\ up' = TRUE
  /\ Forget
  /\ UNCHANGED <<reportVars, stage, opened, pictures, texts>>

\* Whose all_plates or txt the handler of e reads and writes: var gives each
\* handler its own.  Mutant: without it they have one, the first's, in common.
ScopeFaulty(e) == 1

Scope(e) == e

\* allowed: the registered numbers among the plates (none, when plates is not
\* in the callback).
Allowed(e) == subject[e] \intersect Registered

\* The name of the registered face that faceId stands for, if there is one.
FaceName(e) == {s \in subject[e] : s \in Registered}

\* The callback is answered and getEventData asked for.
LprsCallback(e) ==
  /\ service = "LPRS" /\ up
  /\ call[e] = "sent"
  /\ call' = [call EXCEPT ![e] = "received"]
  /\ opened' = IF Allowed(e) # {} THEN opened \union {e} ELSE opened
  /\ stage' = [stage EXCEPT ![e] = "asking"]
  /\ heard' = [heard EXCEPT ![Scope(e)] = subject[e]]
  /\ UNCHANGED <<service, now, faults, vstreams, known, frameVars, rows, files,
                 written, stale, up, buffer, pictures, texts>>

\* The callback is answered and bestQuality asked for.
FrsCallback(e) ==
  /\ service = "FRS" /\ up
  /\ call[e] = "sent"
  /\ call' = [call EXCEPT ![e] = "received"]
  /\ opened' = IF FaceName(e) # {} THEN opened \union {e} ELSE opened
  /\ stage' = [stage EXCEPT ![e] = "asking"]
  /\ heard' = [heard EXCEPT ![Scope(e)] = FaceName(e)]
  /\ UNCHANGED <<service, now, faults, vstreams, known, frameVars, rows, files,
                 written, stale, up, buffer, pictures, texts>>

\* The connection is refused while the backend is down, or fails.
CallLost(e) ==
  /\ call[e] = "sent"
  /\ \/ ~up /\ UNCHANGED faults
     \/ Fault
  /\ call' = [call EXCEPT ![e] = "lost"]
  /\ UNCHANGED <<service, now, vstreams, known, frameVars, rows, files, written,
                 stale, backendVars>>

-----------------------------------------------------------------------------
(* The answer of the service. *)

\* The answer is on its way to the backend as soon as the row was read.
Answered(e) ==
  /\ stage[e] = "asking"
  /\ Readable(id[e])
  /\ stage' = [stage EXCEPT ![e] = "loading"]
  /\ UNCHANGED <<reportVars, up, memory, opened, pictures, texts>>

\* No content: response.data.data is undefined, which the catch takes.
AnsweredEmpty(e) ==
  /\ stage[e] = "asking"
  /\ ~Readable(id[e])
  /\ stage' = [stage EXCEPT ![e] = "ended"]
  /\ UNCHANGED <<reportVars, up, memory, opened, pictures, texts>>

\* The request fails: caught as well.
AskFails(e) ==
  /\ stage[e] = "asking"
  /\ Fault
  /\ stage' = [stage EXCEPT ![e] = "ended"]
  /\ UNCHANGED <<service, now, vstreams, known, frameVars, rows, files, written,
                 call, stale, up, memory, opened, pictures, texts>>

-----------------------------------------------------------------------------
(* The image. *)

\* An unhandled rejection while e is worked on: the process ends, and with it
\* everything it has accepted and not finished.
Rejected(e) ==
  IF ExitOnRejection
  THEN /\ up' = FALSE
       /\ stage' = [d \in Events |-> IF Busy(d) THEN "lost" ELSE stage[d]]
  ELSE /\ UNCHANGED up
       /\ stage' = [stage EXCEPT ![e] = "lost"]

\* The screenshot is gone.
ImageMissing(e) ==
  /\ stage[e] = "loading"
  /\ id[e] \notin files
  /\ Rejected(e)
  /\ UNCHANGED <<reportVars, memory, opened, pictures, texts>>

\* The screenshot cannot be fetched or decoded.
ImageFails(e) ==
  /\ stage[e] = "loading"
  /\ Fault
  /\ Rejected(e)
  /\ UNCHANGED <<service, now, vstreams, known, frameVars, rows, files, written,
                 call, stale, memory, opened, pictures, texts>>

\* canvas.toBuffer and writeFileSync, in one turn of the event loop: no other
\* handler has the buffer in between.
Draw(S) == buffer' = S
SavePicture(e) == pictures' = pictures \union {[name |-> id[e], of |-> buffer']}

\* The picture shows the vehicles and plates that the answer has; the text is
\* all_plates.
LprsSave(e) ==
  /\ service = "LPRS"
  /\ stage[e] = "loading"
  /\ id[e] \in files
  /\ Draw(subject[id[e]]) /\ SavePicture(e)
  /\ texts' = texts \union {[name |-> id[e], of |-> heard[Scope(e)]]}
  /\ stage' = [stage EXCEPT ![e] = "saved"]
  /\ UNCHANGED <<reportVars, up, heard, opened>>

\* The face that the answer has, with txt, the name found in the callback.
FrsSave(e) ==
  /\ service = "FRS"
  /\ stage[e] = "loading"
  /\ id[e] \in files
  /\ Draw(heard[Scope(e)]) /\ SavePicture(e)
  /\ stage' = [stage EXCEPT ![e] = "saved"]
  /\ UNCHANGED <<reportVars, up, heard, opened, texts>>

\* One of the two files cannot be written.
LprsSaveFails(e) ==
  /\ service = "LPRS"
  /\ stage[e] = "loading"
  /\ id[e] \in files
  /\ Fault
  /\ Draw(subject[id[e]]) /\ (SavePicture(e) \/ UNCHANGED pictures)
  /\ Rejected(e)
  /\ UNCHANGED <<service, now, vstreams, known, frameVars, rows, files, written,
                 call, stale, heard, opened, texts>>

FrsSaveFails(e) ==
  /\ service = "FRS"
  /\ stage[e] = "loading"
  /\ id[e] \in files
  /\ Fault
  /\ Draw(heard[Scope(e)])
  /\ Rejected(e)
  /\ UNCHANGED <<service, now, vstreams, known, frameVars, rows, files, written,
                 call, stale, heard, opened, pictures, texts>>

-----------------------------------------------------------------------------
BackendStep(e) ==
  \/ LprsCallback(e) \/ FrsCallback(e) \/ CallLost(e)
  \/ Answered(e) \/ AnsweredEmpty(e)
  \/ ImageMissing(e) \/ LprsSave(e) \/ FrsSave(e)

BackendNext ==
  \/ LprsListen \/ FrsListen
  \/ \E e \in Events : \/ BackendStep(e)
                       \/ AskFails(e) \/ ImageFails(e)
                       \/ LprsSaveFails(e) \/ FrsSaveFails(e)

Next ==
  \/ ServiceNext /\ UNCHANGED backendVars
  \/ BackendNext

\* What is under way gets done, the maintenance task comes round, and files
\* are removed: no fairness for frames, removals of streams, the restart of a
\* backend and failures.
Fairness ==
  /\ \A e \in Events : /\ WF_vars(FrameStep(e) /\ UNCHANGED backendVars)
                       /\ WF_vars(CleanFile(e) /\ UNCHANGED backendVars)
                       /\ WF_vars(BackendStep(e))
  /\ WF_vars(CleanRows /\ UNCHANGED backendVars)

Spec == Init /\ [][Next]_vars /\ Fairness

-----------------------------------------------------------------------------
Expired(e) == now > date[e] + Ttl

\* What the backends know of the frame of an event: LPRS tells them all of its
\* numbers, and FRS the face, which may be registered.
Told(e) == IF service = "LPRS" THEN subject[e] ELSE FaceName(e)

\* The handlers of two callbacks run in turns, from the callback to the answer
\* and on to the image, and share a process: what is saved under the name of an
\* event shows what was told and stored of that event and nothing of another,
\* in whatever order answers and images arrive, fail, or end the process.  A
\* text has its picture.
SavedIsOwn ==
  /\ \A p \in pictures : p.of = Told(p.name)
  /\ \A t \in texts : /\ t.of = Told(t.name)
                      /\ \E p \in pictures : p.name = t.name

\* An event that the backend was told of and that is still in the database has
\* its screenshot: it is written before the callback, and the time to live of
\* the file ends after that of the row (processPipeline and the maintenance of
\* both services).
ToldHasPicture ==
  \A e \in rows : call[e] # "none" => e \in files

\* Only two things bring the backend down, with all it has accepted: a failure
\* or, without any failure, an event that expires between the answer to
\* getEventData or bestQuality and the request for its screenshot.
DownNeedsCause ==
  [][up /\ ~up' => \/ faults' > faults
                   \/ \E e \in Events : stage[e] = "loading" /\ Expired(id[e])]_vars

\* What keeps an event from being saved.
Excused(e) ==
  \/ faults > 0
  \/ ~up
  \/ Expired(e)
  \/ source[e] \notin vstreams
  \/ service = "LPRS" /\ source[e] \notin known

\* An event that is to be reported ends up in a saved picture, unless something
\* fails, the backend is down, the event expires first, its stream is removed,
\* or LPRS does not know the stream's group yet.
EventIsSaved ==
  \A e \in Events :
    frame[e] = "log" /\ (service = "LPRS" \/ subject[e] # {})
      ~> Excused(e) \/ stage[e] = "saved"

\* A registered number or face opens the gate: LPRS reports it even when its
\* event could not be stored.
GateOpens ==
  \A e \in Events :
    frame[e] = "log" /\ Allowed(e) # {}
      ~> \/ e \in opened
         \/ ~up \/ faults > 0
         \/ service = "FRS" /\ source[e] \notin vstreams

\* Old screenshots disappear, those of events without a row included: of
\* insertions that failed and of streams that were removed.
OldFilesGo ==
  \A e \in Events : written[e] + Ttl < now /\ e \in files ~> e \notin files

=============================================================================

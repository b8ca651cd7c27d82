------------------------------- MODULE LprsBan -------------------------------
(***************************************************************************)
(* What becomes of the license plates that one video stream recognises:    *)
(* the two-stage ban that keeps a number from being reported over and over *)
(* (ban_data, ban_special_data and doBanMaintenance of lprs_workflow.cpp). *)
(*                                                                         *)
(* LprsWorkflow shows that the frames of a stream are processed one at a   *)
(* time, so the model has one frame in progress.  ban_data is shared with  *)
(* the maintenance task, which may run between any two numbers of a frame. *)
(***************************************************************************)
EXTENDS Integers

CONSTANTS
  Numbers,      \* license plate numbers
  Places,       \* plate positions in the frame
  Near,         \* pairs of places whose iou exceeds ban-iou-threshold
  BanDuration,  \* ban-duration: first stage
  BanArea,      \* ban-duration-area: second stage
  MaxLag,       \* how long a frame may stay in its loop over the numbers
  MaxTime,      \* the clock stops here (a bound)
  NoBan,        \* ban_data has no entry for the number
  Never         \* no time yet

ASSUME ConstantsOK ==
  /\ BanDuration \in Nat /\ BanArea \in Nat /\ MaxLag \in Nat /\ MaxTime \in Nat
  /\ Near \subseteq Places \X Places
  /\ NoBan \notin [tp1 : Int, tp2 : Int, place : Places]
  /\ Never \notin Int

VARIABLES
  now,           \* the steady clock
  ban,           \* ban_data: end of the stages, place of the plate
  special_until, \* ban_special_data
  frame,         \* the frame in progress
  passed,        \* history: when the number last passed the ban
  trail,         \* history: where it was seen since then, there included
  seen,          \* history: when the number was last seen
  special_seen   \* history: when a special vehicle was last marked

history == <<passed, trail, seen>>
vars == <<now, ban, special_until, frame, history, special_seen>>

Entry == [tp1 : Int, tp2 : Int, place : Places]

Steps == {"idle", "recognise", "numbers", "report", "mark"}

\* plates: recognised and not checked yet; report: those that passed the ban.
Frame == [pc : Steps, at : Nat, plates : SUBSET (Numbers \X Places),
          report : SUBSET Numbers, special : BOOLEAN, hushed : BOOLEAN]

Idle == [pc |-> "idle", at |-> 0, plates |-> {}, report |-> {},
         special |-> FALSE, hushed |-> FALSE]

TypeOK ==
  /\ now \in Nat
  /\ ban \in [Numbers -> Entry \union {NoBan}]
  /\ special_until \in Nat \union {Never}
  /\ frame \in Frame
  /\ passed \in [Numbers -> Nat \union {Never}]
  /\ seen \in [Numbers -> Nat \union {Never}]
  /\ trail \in [Numbers -> SUBSET Places]
  /\ special_seen \in Nat \union {Never}

Init ==
  /\ now = 0
  /\ ban = [n \in Numbers |-> NoBan]
  /\ special_until = Never
  /\ frame = Idle
  /\ passed = [n \in Numbers |-> Never]
  /\ seen = [n \in Numbers |-> Never]
  /\ trail = [n \in Numbers |-> {}]
  /\ special_seen = Never

-----------------------------------------------------------------------------
(* The ban                                                                 *)

\* Either duration set to zero switches the ban off.
BanEnabled == BanDuration > 0 /\ BanArea > 0

\* Mutant: the first stage ends with the second.
FirstStageFaulty(n, t) == ban[n] # NoBan /\ ban[n].tp2 > t

FirstStage(n, t) == ban[n] # NoBan /\ ban[n].tp1 > t

SecondStage(n, p, t) ==
  ban[n] # NoBan /\ ban[n].tp1 <= t /\ <<p, ban[n].place>> \in Near

Banned(n, p, t) == BanEnabled /\ (FirstStage(n, t) \/ SecondStage(n, p, t))

\* The entry written whether the number is banned or not.  A sighting in the
\* second stage keeps the place and the end of the first stage.
NewEntryFaulty(n, p, t) == [tp1 |-> t, tp2 |-> t + BanArea, place |-> p]

NewEntry(n, p, t) ==
  IF SecondStage(n, p, t)
  THEN [tp1 |-> ban[n].tp1, tp2 |-> t + BanArea, place |-> ban[n].place]
  ELSE [tp1 |-> t + BanDuration, tp2 |-> t + BanArea, place |-> p]

-----------------------------------------------------------------------------
(* The frame                                                               *)

\* Before the plates are looked for: are special vehicles banned now?
Capture ==
  /\ frame.pc = "idle"
  /\ LET hushed == special_until # Never /\ special_until > now IN
     /\ frame' = [Idle EXCEPT !.pc = "recognise", !.hushed = hushed]
     /\ special_until' = IF hushed THEN special_until ELSE Never
  /\ UNCHANGED <<now, ban, history, special_seen>>

\* Inference is over; from here on the frame's time is the time now.
Recognise ==
  /\ frame.pc = "recognise"
  /\ \E plates \in SUBSET (Numbers \X Places), special \in BOOLEAN :
       frame' = [frame EXCEPT !.pc = "numbers", !.at = now,
                              !.plates = plates, !.special = special]
  /\ UNCHANGED <<now, ban, special_until, history, special_seen>>

\* One recognised number, under the lock of ban_data.
CheckNumber(n, p) ==
  /\ frame.pc = "numbers"
  /\ <<n, p>> \in frame.plates
  /\ LET t == frame.at
         hit == Banned(n, p, t)
     IN
     /\ ban' = IF BanEnabled THEN [ban EXCEPT ![n] = NewEntry(n, p, t)] ELSE ban
     /\ frame' = [frame EXCEPT !.plates = @ \ {<<n, p>>},
                               !.report = IF hit THEN @ ELSE @ \union {n}]
     /\ passed' = IF hit THEN passed ELSE [passed EXCEPT ![n] = t]
     /\ trail' = [trail EXCEPT ![n] = IF hit THEN @ \union {p} ELSE {p}]
     /\ seen' = [seen EXCEPT ![n] = t]
  /\ UNCHANGED <<now, special_until, special_seen>>

\* An event is made for numbers that passed, or for a special vehicle.
HasEvent == frame.report # {} \/ (frame.special /\ ~frame.hushed)

NumbersChecked ==
  /\ frame.pc = "numbers"
  /\ frame.plates = {}
  /\ frame' = [frame EXCEPT !.pc = IF HasEvent THEN "report" ELSE "mark"]
  /\ UNCHANGED <<now, ban, special_until, history, special_seen>>

\* The event row (a failed insert goes on with id -1), the screenshot file,
\* and the callback, whose failure is only logged.
Report ==
  /\ frame.pc = "report"
  /\ frame' = [frame EXCEPT !.pc = "mark"]
  /\ UNCHANGED <<now, ban, special_until, history, special_seen>>

\* Inference fails, the event's transaction cannot begin or the screenshot
\* file cannot be written: the exception ends the frame.
Fail ==
  /\ frame.pc \in {"recognise", "report"}
  /\ frame' = Idle
  /\ UNCHANGED <<now, ban, special_until, history, special_seen>>

SpecialBanFaulty == special_until

SpecialBan == IF frame.special THEN frame.at + BanDuration ELSE special_until

\* The frame is over; a special vehicle in it (re)starts its ban.
Mark ==
  /\ frame.pc = "mark"
  /\ special_until' = SpecialBan
  /\ special_seen' = IF frame.special THEN frame.at ELSE special_seen
  /\ frame' = Idle
  /\ UNCHANGED <<now, ban, history>>

-----------------------------------------------------------------------------
(* The maintenance task and the clock                                      *)

OverFaulty(n) == ban[n] # NoBan /\ ban[n].tp1 < now

Over(n) == ban[n] # NoBan /\ ban[n].tp2 < now

BanMaintenance ==
  /\ ban' = [n \in Numbers |-> IF Over(n) THEN NoBan ELSE ban[n]]
  /\ UNCHANGED <<now, special_until, frame, history, special_seen>>

Tick ==
  /\ now < MaxTime
  /\ frame.pc = "numbers" => now < frame.at + MaxLag
  /\ now' = now + 1
  /\ UNCHANGED <<ban, special_until, frame, history, special_seen>>

-----------------------------------------------------------------------------
Next ==
  \/ Capture \/ Recognise
  \/ \E n \in Numbers, p \in Places : CheckNumber(n, p)
  \/ NumbersChecked \/ Report \/ Fail \/ Mark
  \/ BanMaintenance
  \/ Tick

Spec == Init /\ [][Next]_vars

-----------------------------------------------------------------------------
(* Properties                                                              *)

\* The number n passes the ban in this step.
Passes(n) == frame.pc = "numbers" /\ n \in frame'.report \ frame.report

\* The durations leave room for a frame that is slow between taking its time
\* and checking its numbers, and a plate is near itself.
SpacedOut == MaxLag + BanDuration <= BanArea
NearItself == \A p \in Places : <<p, p>> \in Near

\* The first stage: after a number has been let through it is not let through
\* again for ban-duration, wherever it is seen, and whatever the maintenance
\* task does meanwhile (processPipeline and doBanMaintenance share ban_data).
\* It relies on SpacedOut.
FirstStageHolds ==
  [][\A n \in Numbers :
       Passes(n) /\ passed[n] # Never => frame.at >= passed[n] + BanDuration]_vars

\* The second stage: a car that stays where it was reported, and is seen often
\* enough for the ban not to run out, is not reported a second time.
\* It relies on NearItself.
ParkedCarReportedOnce ==
  [][\A n \in Numbers, p \in Places :
       BanEnabled /\ Passes(n) /\ CheckNumber(n, p) /\ trail[n] = {p}
         => now > seen[n] + BanArea]_vars

\* The special ban of processPipeline: an event for nothing but a special
\* vehicle comes at least ban-duration after the last frame marked with one.
SpecialSpacedOut ==
  [][frame.pc = "numbers" /\ frame'.pc = "report" /\ frame.report = {}
       /\ special_seen # Never => frame.at >= special_seen + BanDuration]_vars

\* The number n is seen at p and ignored.
Ignored(n, p) == CheckNumber(n, p) /\ n \notin frame'.report

\* The ban ends by itself: a number is ignored only if it was seen less than
\* ban-duration ago, or near one of the places where it was seen since it was
\* let through, however its sightings prolonged either stage and whether or not
\* anybody was told of it.  So a number that a failing frame has silenced gets
\* through when it is seen elsewhere after a pause.
IgnoredWithReason ==
  [][\A n \in Numbers, p \in Places :
       Ignored(n, p) => \/ frame.at < seen[n] + BanDuration
                        \/ \E q \in trail[n] : <<p, q>> \in Near]_vars

=============================================================================

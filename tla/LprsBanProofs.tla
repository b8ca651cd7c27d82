--------------------------- MODULE LprsBanProofs ----------------------------
(***************************************************************************)
(* Proofs about LprsBan for any numbers, places, durations and clock bound. *)
(*                                                                         *)
(* The argument: an entry of ban_data always belongs to the last sighting  *)
(* of its number (BanInv), so when doBanMaintenance has erased it, the     *)
(* second stage counted from that sighting is over; TimesInv relates that  *)
(* to the time of the frame in progress.                                   *)
(***************************************************************************)
EXTENDS LprsBan, TLAPS

\* No sighting is later than the clock or than the frame in progress, and the
\* frame's time lags behind the clock by MaxLag at most.
TimesInv ==
  /\ \A n \in Numbers :
       /\ passed[n] # Never => seen[n] # Never /\ passed[n] <= seen[n]
       /\ trail[n] # {} => seen[n] # Never
       /\ seen[n] # Never =>
            seen[n] <= now /\ (frame.pc = "numbers" => seen[n] <= frame.at)
  /\ frame.pc = "numbers" => frame.at <= now /\ now <= frame.at + MaxLag

\* A number that has been seen has an entry that stems from its last sighting,
\* whose first stage lies between ban-duration after the number was let through
\* and ban-duration after that sighting; or its second stage is over.
BanInv ==
  BanEnabled => \A n \in Numbers :
    /\ ban[n] # NoBan =>
         /\ seen[n] # Never /\ ban[n].tp2 = seen[n] + BanArea
         /\ passed[n] # Never => ban[n].tp1 >= passed[n] + BanDuration
         /\ ban[n].tp1 <= seen[n] + BanDuration
         /\ ban[n].place \in trail[n]
    /\ ban[n] = NoBan /\ seen[n] # Never => now > seen[n] + BanArea

\* A special ban that is gone has run out, and a frame that is not hushed has
\* found none.
SpecialInv ==
  special_seen # Never =>
    /\ special_until \in {Never, special_seen + BanDuration}
    /\ special_until = Never =>
         /\ special_seen + BanDuration <= now
         /\ frame.pc = "numbers" => special_seen + BanDuration <= frame.at
    /\ frame.pc \in {"recognise", "numbers"} /\ ~frame.hushed => special_until = Never

IInv == TypeOK /\ TimesInv /\ BanInv /\ SpecialInv

-----------------------------------------------------------------------------
(* Initially                                                               *)

\* The initial state has the types and satisfies the invariant.
LEMMA InitInv == Init => IInv
BY ConstantsOK, SMTT(30)
   DEF Init, IInv, TypeOK, TimesInv, BanInv, SpecialInv, Idle, Frame, Steps,
       Entry, BanEnabled

-----------------------------------------------------------------------------
(* Type correctness                                                        *)

\* The entry written for a sighting is an entry.
LEMMA NewEntryType ==
  ASSUME TypeOK, NEW n \in Numbers, NEW p \in Places, NEW t \in Nat
  PROVE  NewEntry(n, p, t) \in Entry
BY ConstantsOK DEF TypeOK, NewEntry, SecondStage, Entry

LEMMA NextType == TypeOK /\ [Next]_vars => TypeOK'
<1> SUFFICES ASSUME TypeOK, [Next]_vars PROVE TypeOK'
  OBVIOUS
<1>1. CASE Capture
  BY <1>1, ConstantsOK DEF Capture, TypeOK, Frame, Steps, Idle, history
<1>2. CASE Recognise
  <2>1. PICK plates \in SUBSET (Numbers \X Places), special \in BOOLEAN :
          frame' = [frame EXCEPT !.pc = "numbers", !.at = now,
                                 !.plates = plates, !.special = special]
    BY <1>2 DEF Recognise
  <2>2. frame' \in Frame
    BY <2>1 DEF TypeOK, Frame, Steps
  <2> QED BY <1>2, <2>2 DEF Recognise, TypeOK, history
<1>3. ASSUME NEW n \in Numbers, NEW p \in Places, CheckNumber(n, p) PROVE TypeOK'
  <2>1. frame.at \in Nat
    BY DEF TypeOK, Frame
  <2>2. ban' \in [Numbers -> Entry \union {NoBan}]
    BY <1>3, <2>1, NewEntryType DEF CheckNumber, TypeOK
  <2>3. frame' \in Frame
    BY <1>3 DEF CheckNumber, TypeOK, Frame
  <2>4. passed' \in [Numbers -> Nat \union {Never}]
    BY <1>3, <2>1 DEF CheckNumber, TypeOK
  <2>5. trail' \in [Numbers -> SUBSET Places]
    BY <1>3 DEF CheckNumber, TypeOK
  <2>6. seen' \in [Numbers -> Nat \union {Never}]
    BY <1>3, <2>1 DEF CheckNumber, TypeOK
  <2> QED BY <1>3, <2>2, <2>3, <2>4, <2>5, <2>6 DEF CheckNumber, TypeOK
<1>4. CASE NumbersChecked
  BY <1>4 DEF NumbersChecked, TypeOK, Frame, Steps, history
<1>5. CASE Report
  BY <1>5 DEF Report, TypeOK, Frame, Steps, history
<1>6. CASE Fail
  BY <1>6 DEF Fail, TypeOK, Frame, Steps, Idle, history
<1>7. CASE Mark
  BY <1>7, ConstantsOK DEF Mark, SpecialBan, TypeOK, Frame, Steps, Idle, history
<1>8. CASE BanMaintenance
  BY <1>8 DEF BanMaintenance, TypeOK, history
<1>9. CASE Tick
  BY <1>9 DEF Tick, TypeOK, history
<1>10. CASE UNCHANGED vars
  BY <1>10 DEF vars, TypeOK, history
<1> QED
  BY <1>1, <1>2, <1>3, <1>4, <1>5, <1>6, <1>7, <1>8, <1>9, <1>10 DEF Next

-----------------------------------------------------------------------------
(* The step of one number                                                  *)

\* What a sighting does to the entry of its number.
LEMMA EntryOfSighting ==
  ASSUME IInv, BanEnabled, NEW n \in Numbers, NEW p \in Places, CheckNumber(n, p)
  PROVE  /\ ban'[n] # NoBan
         /\ ban'[n].tp2 = seen'[n] + BanArea
         /\ passed'[n] # Never => ban'[n].tp1 >= passed'[n] + BanDuration
         /\ ban'[n].tp1 <= seen'[n] + BanDuration
         /\ ban'[n].place \in trail'[n]
<1> DEFINE t == frame.at
<1>1. /\ t \in Nat
      /\ ban \in [Numbers -> Entry \union {NoBan}]
      /\ passed \in [Numbers -> Nat \union {Never}]
      /\ seen \in [Numbers -> Nat \union {Never}]
      /\ trail \in [Numbers -> SUBSET Places]
  BY DEF IInv, TypeOK, Frame
<1>2. /\ ban'[n] = NewEntry(n, p, t)
      /\ passed'[n] = IF Banned(n, p, t) THEN passed[n] ELSE t
      /\ seen'[n] = t
      /\ trail'[n] = IF Banned(n, p, t) THEN trail[n] \union {p} ELSE {p}
  BY <1>1 DEF CheckNumber
<1>3. NewEntry(n, p, t) \in Entry
  BY <1>1, NewEntryType DEF IInv
<1>4. passed[n] # Never => passed[n] <= t
  <2>1. passed[n] # Never => seen[n] # Never /\ passed[n] <= seen[n] /\ seen[n] <= t
    BY DEF IInv, TimesInv, CheckNumber
  <2> QED BY <2>1, <1>1
<1>5. ban[n] # NoBan =>
        /\ passed[n] # Never => ban[n].tp1 >= passed[n] + BanDuration
        /\ ban[n].place \in trail[n]
  BY DEF IInv, BanInv
<1>6. NoBan \notin Entry /\ BanDuration \in Nat /\ BanArea \in Nat /\ Never \notin Int
  BY ConstantsOK DEF Entry
<1>7. CASE SecondStage(n, p, t)
  <2>1. NewEntry(n, p, t) =
          [tp1 |-> ban[n].tp1, tp2 |-> t + BanArea, place |-> ban[n].place]
    BY <1>7 DEF NewEntry
  <2>2. Banned(n, p, t) /\ ban[n] # NoBan
    BY <1>7 DEF Banned, SecondStage
  <2>3. ban'[n] # NoBan /\ ban'[n].tp2 = seen'[n] + BanArea
    BY <1>2, <1>3, <1>6, <2>1
  <2>4. passed'[n] # Never => ban'[n].tp1 >= passed'[n] + BanDuration
    BY <1>2, <1>5, <2>1, <2>2
  <2>5. ban'[n].tp1 <= seen'[n] + BanDuration
    <3>1. ban[n].tp1 <= t /\ ban[n].tp1 \in Int
      BY <1>1, <1>7, <2>2 DEF SecondStage, Entry
    <3> QED BY <1>1, <1>2, <1>6, <2>1, <3>1
  <2>6. ban'[n].place \in trail'[n]
    BY <1>2, <1>5, <2>1, <2>2
  <2> QED BY <2>3, <2>4, <2>5, <2>6
<1>8. CASE ~SecondStage(n, p, t)
  <2>1. NewEntry(n, p, t) =
          [tp1 |-> t + BanDuration, tp2 |-> t + BanArea, place |-> p]
    BY <1>8 DEF NewEntry
  <2>2. passed'[n] # Never => t + BanDuration >= passed'[n] + BanDuration
    BY <1>1, <1>2, <1>4, <1>6
  <2>3. ban'[n].place \in trail'[n]
    BY <1>2, <2>1
  <2>4. ban'[n].tp1 = seen'[n] + BanDuration /\ ban'[n].tp2 = seen'[n] + BanArea
    BY <1>2, <2>1
  <2>5. ban'[n].tp1 <= seen'[n] + BanDuration
    BY <1>1, <1>2, <1>6, <2>4
  <2> QED BY <1>2, <1>3, <1>6, <2>1, <2>2, <2>3, <2>4, <2>5
<1> QED BY <1>7, <1>8

\* A number that passes the ban has no entry, or its first stage is over and it
\* is not near the place of the entry.
LEMMA PassingStep ==
  ASSUME IInv, [Next]_vars, NEW n \in Numbers, Passes(n)
  PROVE  \E p \in Places :
           CheckNumber(n, p) /\ frame.at \in Nat /\ ~Banned(n, p, frame.at)
<1>1. frame.pc = "numbers" /\ n \in frame'.report /\ n \notin frame.report
  BY DEF Passes
<1>2. ~(Capture \/ Recognise \/ Report \/ Fail \/ Mark)
  BY <1>1 DEF Capture, Recognise, Report, Fail, Mark
<1>3. frame \in Frame
  BY DEF IInv, TypeOK
<1>4. ~NumbersChecked
  BY <1>1, <1>3 DEF NumbersChecked, Frame
<1>5. ~(BanMaintenance \/ Tick \/ UNCHANGED vars)
  BY <1>1 DEF BanMaintenance, Tick, vars
<1>6. PICK m \in Numbers, p \in Places : CheckNumber(m, p)
  BY <1>2, <1>4, <1>5 DEF Next
<1>7. frame'.report = IF Banned(m, p, frame.at) THEN frame.report
                      ELSE frame.report \union {m}
  BY <1>3, <1>6 DEF CheckNumber, Frame
<1> QED BY <1>1, <1>3, <1>6, <1>7 DEF Frame

-----------------------------------------------------------------------------
(* The invariant                                                           *)

LEMMA NextTimes == IInv /\ [Next]_vars => TimesInv'
<1> SUFFICES ASSUME IInv, [Next]_vars PROVE TimesInv'
  OBVIOUS
<1>a. /\ now \in Nat /\ frame \in Frame
      /\ passed \in [Numbers -> Nat \union {Never}]
      /\ seen \in [Numbers -> Nat \union {Never}]
      /\ trail \in [Numbers -> SUBSET Places]
      /\ MaxLag \in Nat /\ Never \notin Int
  BY ConstantsOK DEF IInv, TypeOK
<1>b. TimesInv
  BY DEF IInv
<1>1. CASE Capture
  BY <1>1, <1>a, <1>b DEF Capture, TimesInv, Idle, history
<1>2. CASE Recognise
  <2>1. frame'.at = now /\ UNCHANGED <<now, passed, seen, trail>>
    BY <1>2, <1>a DEF Recognise, Frame, history
  <2> QED BY <2>1, <1>a, <1>b DEF TimesInv
<1>3. ASSUME NEW n \in Numbers, NEW p \in Places, CheckNumber(n, p) PROVE TimesInv'
  <2>1. /\ frame.pc = "numbers" /\ frame'.pc = "numbers" /\ frame'.at = frame.at
        /\ frame.at \in Nat /\ now' = now
    BY <1>3, <1>a DEF CheckNumber, Frame
  <2>2. /\ seen' = [seen EXCEPT ![n] = frame.at]
        /\ passed' \in {passed, [passed EXCEPT ![n] = frame.at]}
        /\ \A m \in Numbers \ {n} : trail'[m] = trail[m]
    BY <1>3, <1>a DEF CheckNumber
  <2>3. frame.at <= now /\ now <= frame.at + MaxLag
    BY <1>b, <2>1 DEF TimesInv
  <2>4. ASSUME NEW m \in Numbers
        PROVE  /\ passed'[m] # Never => seen'[m] # Never /\ passed'[m] <= seen'[m]
               /\ trail'[m] # {} => seen'[m] # Never
               /\ seen'[m] # Never => seen'[m] <= now /\ seen'[m] <= frame.at
    <3>1. /\ passed[m] # Never => seen[m] # Never /\ passed[m] <= seen[m]
          /\ trail[m] # {} => seen[m] # Never
          /\ seen[m] # Never => seen[m] <= now /\ seen[m] <= frame.at
      BY <1>b, <2>1 DEF TimesInv
    <3>2. CASE m = n
      BY <3>1, <3>2, <2>1, <2>2, <2>3, <1>a
    <3>3. CASE m # n
      BY <3>1, <3>3, <2>2, <1>a
    <3> QED BY <3>2, <3>3
  <2> QED BY <2>1, <2>3, <2>4 DEF TimesInv
<1>4. CASE NumbersChecked
  <2>1. frame'.pc # "numbers" /\ UNCHANGED <<now, passed, seen, trail>>
    BY <1>4, <1>a DEF NumbersChecked, Frame, history
  <2> QED BY <2>1, <1>b DEF TimesInv
<1>5. CASE Report \/ Fail \/ Mark
  <2>1. frame'.pc # "numbers" /\ UNCHANGED <<now, passed, seen, trail>>
    BY <1>5, <1>a DEF Report, Fail, Mark, Frame, Idle, history
  <2> QED BY <2>1, <1>b DEF TimesInv
<1>6. CASE BanMaintenance \/ UNCHANGED vars
  BY <1>6, <1>b DEF BanMaintenance, vars, history, TimesInv
<1>7. CASE Tick
  BY <1>7, <1>a, <1>b DEF Tick, TimesInv, Frame, history
<1> QED
  BY <1>1, <1>2, <1>3, <1>4, <1>5, <1>6, <1>7 DEF Next

LEMMA NextBan == IInv /\ [Next]_vars => BanInv'
<1> SUFFICES ASSUME IInv, [Next]_vars, BanEnabled PROVE BanInv'
  BY DEF BanInv, BanEnabled
<1>a. /\ now \in Nat
      /\ ban \in [Numbers -> Entry \union {NoBan}]
      /\ passed \in [Numbers -> Nat \union {Never}]
      /\ seen \in [Numbers -> Nat \union {Never}]
      /\ trail \in [Numbers -> SUBSET Places]
      /\ NoBan \notin Entry /\ Never \notin Int /\ BanArea \in Nat
  BY ConstantsOK DEF IInv, TypeOK, Entry
<1>b. BanInv
  BY DEF IInv
<1>1. CASE UNCHANGED <<now, ban, passed, trail, seen>>
  BY <1>1, <1>b DEF BanInv, BanEnabled
<1>2. ASSUME NEW n \in Numbers, NEW p \in Places, CheckNumber(n, p) PROVE BanInv'
  <2>1. now' = now /\ seen'[n] # Never
    BY <1>2, <1>a DEF CheckNumber, IInv, TypeOK, Frame
  <2>2. \A m \in Numbers \ {n} :
          /\ ban'[m] = ban[m] /\ passed'[m] = passed[m] /\ seen'[m] = seen[m]
          /\ trail'[m] = trail[m]
    BY <1>2, <1>a DEF CheckNumber
  <2>3. /\ ban'[n] # NoBan
        /\ ban'[n].tp2 = seen'[n] + BanArea
        /\ passed'[n] # Never => ban'[n].tp1 >= passed'[n] + BanDuration
        /\ ban'[n].tp1 <= seen'[n] + BanDuration
        /\ ban'[n].place \in trail'[n]
    BY <1>2, EntryOfSighting
  <2> QED BY <1>b, <2>1, <2>2, <2>3 DEF BanInv, BanEnabled
<1>3. CASE BanMaintenance
  <2>1. UNCHANGED <<now, passed, trail, seen>>
    BY <1>3 DEF BanMaintenance, history
  <2>2. ASSUME NEW m \in Numbers, ban'[m] # NoBan PROVE ban'[m] = ban[m]
    BY <1>3, <1>a, <2>2 DEF BanMaintenance
  <2>3. ASSUME NEW m \in Numbers, ban'[m] = NoBan, seen[m] # Never
        PROVE  now > seen[m] + BanArea
    <3>1. CASE ban[m] = NoBan
      BY <3>1, <1>b, <2>3 DEF BanInv
    <3>2. CASE ban[m] # NoBan
      <4>1. ban[m].tp2 < now
        BY <3>2, <1>3, <2>3 DEF BanMaintenance, Over
      <4>2. ban[m].tp2 = seen[m] + BanArea
        BY <3>2, <1>b DEF BanInv
      <4> QED BY <4>1, <4>2, <1>a, <2>3
    <3> QED BY <3>1, <3>2
  <2> QED BY <2>1, <2>2, <2>3, <1>b DEF BanInv, BanEnabled
<1>4. CASE Tick
  <2>1. now' = now + 1 /\ UNCHANGED <<ban, passed, trail, seen>>
    BY <1>4 DEF Tick, history
  <2>2. \A m \in Numbers : seen[m] # Never => seen[m] \in Nat
    BY <1>a
  <2> QED BY <2>1, <2>2, <1>a, <1>b DEF BanInv, BanEnabled
<1>5. CASE Capture \/ Recognise \/ NumbersChecked \/ Report \/ Fail \/ Mark
           \/ UNCHANGED vars
  BY <1>5, <1>1
     DEF Capture, Recognise, NumbersChecked, Report, Fail, Mark, vars, history
<1> QED
  BY <1>2, <1>3, <1>4, <1>5 DEF Next

LEMMA NextSpecial == IInv /\ [Next]_vars => SpecialInv'
<1> SUFFICES ASSUME IInv, [Next]_vars PROVE SpecialInv'
  OBVIOUS
<1>a. /\ now \in Nat /\ frame \in Frame
      /\ special_until \in Nat \union {Never}
      /\ special_seen \in Nat \union {Never}
      /\ BanDuration \in Nat /\ Never \notin Int
  BY ConstantsOK DEF IInv, TypeOK
<1>b. SpecialInv
  BY DEF IInv
<1>1. CASE Capture
  <2> DEFINE hushed == special_until # Never /\ special_until > now
  <2>1. /\ frame'.pc = "recognise" /\ frame'.hushed = hushed
        /\ now' = now /\ special_seen' = special_seen
    BY <1>1 DEF Capture, Idle
  <2>2. CASE hushed
    <3>1. special_until' = special_until /\ frame'.hushed /\ special_until # Never
      BY <1>1, <2>1, <2>2 DEF Capture
    <3> QED BY <2>1, <3>1, <1>b DEF SpecialInv
  <2>3. CASE ~hushed
    <3>1. special_until' = Never
      BY <1>1, <2>3 DEF Capture
    <3>2. special_seen # Never => special_seen + BanDuration <= now
      BY <1>a, <1>b, <2>3 DEF SpecialInv
    <3> QED BY <2>1, <3>1, <3>2 DEF SpecialInv
  <2> QED BY <2>2, <2>3
<1>2. CASE Recognise
  <2>1. /\ frame.pc = "recognise" /\ frame'.at = now
        /\ frame'.hushed = frame.hushed
        /\ UNCHANGED <<now, special_until, special_seen>>
    BY <1>2, <1>a DEF Recognise, Frame
  <2> QED BY <2>1, <1>a, <1>b DEF SpecialInv
<1>3. ASSUME NEW n \in Numbers, NEW p \in Places, CheckNumber(n, p) PROVE SpecialInv'
  <2>1. /\ frame'.pc = frame.pc /\ frame'.at = frame.at
        /\ frame'.hushed = frame.hushed
        /\ UNCHANGED <<now, special_until, special_seen>>
    BY <1>3, <1>a DEF CheckNumber, Frame
  <2> QED BY <2>1, <1>b DEF SpecialInv
<1>4. CASE NumbersChecked \/ Report \/ Fail
  <2>1. /\ frame'.pc \notin {"recognise", "numbers"}
        /\ UNCHANGED <<now, special_until, special_seen>>
    BY <1>4, <1>a DEF NumbersChecked, Report, Fail, Frame, Idle
  <2> QED BY <2>1, <1>b DEF SpecialInv
<1>5. CASE Mark
  <2>1. frame'.pc = "idle" /\ now' = now /\ frame.at \in Nat
    BY <1>5, <1>a DEF Mark, Idle, Frame
  <2> QED BY <2>1, <1>5, <1>a, <1>b DEF Mark, SpecialBan, SpecialInv
<1>6. CASE BanMaintenance \/ UNCHANGED vars
  BY <1>6, <1>b DEF BanMaintenance, vars, SpecialInv
<1>7. CASE Tick
  BY <1>7, <1>a, <1>b DEF Tick, SpecialInv
<1> QED
  BY <1>1, <1>2, <1>3, <1>4, <1>5, <1>6, <1>7 DEF Next

\* The invariant is preserved by every step.
LEMMA NextInv == IInv /\ [Next]_vars => IInv'
BY NextType, NextTimes, NextBan, NextSpecial DEF IInv

\* The invariant holds in every reachable state.
LEMMA Invariant == Spec => []IInv
BY InitInv, NextInv, PTL DEF Spec

-----------------------------------------------------------------------------
(* Theorems                                                                *)

\* The ban data, the frame in progress and the clock keep their types.
THEOREM TypeCorrect == Spec => []TypeOK
<1>1. IInv => TypeOK
  BY DEF IInv
<1> QED BY <1>1, Invariant, PTL

\* processPipeline lets a number through at most once in ban-duration, although
\* doBanMaintenance erases entries meanwhile, provided the second stage is
\* longer than the first by the time a frame may lag.
THEOREM FirstStage_Holds ==
  ASSUME SpacedOut PROVE Spec => FirstStageHolds
<1>1. ASSUME IInv, [Next]_vars, NEW n \in Numbers, Passes(n), passed[n] # Never
      PROVE  frame.at >= passed[n] + BanDuration
  <2>1. PICK p \in Places :
          CheckNumber(n, p) /\ frame.at \in Nat /\ ~Banned(n, p, frame.at)
    BY <1>1, PassingStep
  <2>2. /\ passed[n] \in Nat /\ seen[n] \in Nat /\ now \in Nat
        /\ ban[n] \in Entry \union {NoBan}
        /\ passed[n] <= seen[n] /\ seen[n] <= frame.at
        /\ now <= frame.at + MaxLag
    BY <1>1, <2>1, ConstantsOK DEF IInv, TypeOK, TimesInv, CheckNumber
  <2>3. BanDuration \in Nat /\ BanArea \in Nat /\ MaxLag \in Nat
        /\ MaxLag + BanDuration <= BanArea
    BY ConstantsOK DEF SpacedOut
  <2>4. CASE ~BanEnabled
    BY <2>2, <2>3, <2>4, <2>1 DEF BanEnabled
  <2>5. CASE BanEnabled /\ ban[n] # NoBan
    <3>1. ban[n].tp1 >= passed[n] + BanDuration
      BY <1>1, <2>5 DEF IInv, BanInv
    <3>2. ~(ban[n].tp1 > frame.at)
      BY <2>1, <2>5 DEF Banned, FirstStage
    <3>3. ban[n].tp1 \in Int
      BY <2>2, <2>5 DEF Entry
    <3> QED BY <3>1, <3>2, <3>3, <2>1, <2>2, <2>3
  <2>6. CASE BanEnabled /\ ban[n] = NoBan
    <3>1. now > seen[n] + BanArea
      BY <1>1, <2>2, <2>6, ConstantsOK DEF IInv, BanInv
    <3> QED BY <3>1, <2>1, <2>2, <2>3
  <2> QED BY <2>4, <2>5, <2>6
<1>2. IInv /\ [Next]_vars =>
        [\A n \in Numbers :
           Passes(n) /\ passed[n] # Never => frame.at >= passed[n] + BanDuration]_vars
  BY <1>1
<1> QED BY <1>2, Invariant, PTL DEF Spec, FirstStageHolds

\* A car that stays in one place is reported once, as long as no pause between
\* two sightings of it is longer than ban-duration-area.
THEOREM ParkedCar_ReportedOnce ==
  ASSUME NearItself PROVE Spec => ParkedCarReportedOnce
<1>1. ASSUME IInv, [Next]_vars, NEW n \in Numbers, NEW p \in Places, BanEnabled,
             Passes(n), CheckNumber(n, p), trail[n] = {p}
      PROVE  now > seen[n] + BanArea
  <2>1. ~Banned(n, p, frame.at) /\ frame.at \in Nat
    <3>1. n \in frame'.report /\ n \notin frame.report /\ frame \in Frame
      BY <1>1 DEF Passes, IInv, TypeOK
    <3> QED BY <1>1, <3>1 DEF CheckNumber, Frame
  <2>2. ban[n] \in Entry \union {NoBan} /\ seen[n] # Never
    BY <1>1 DEF IInv, TypeOK, TimesInv
  <2>3. CASE ban[n] # NoBan
    <3>1. ban[n].place = p
      BY <1>1, <2>3 DEF IInv, BanInv
    <3>2. ban[n].tp1 > frame.at \/ ban[n].tp1 <= frame.at
      BY <2>1, <2>2, <2>3 DEF Entry
    <3> QED
      BY <1>1, <2>1, <2>3, <3>1, <3>2 DEF Banned, FirstStage, SecondStage, NearItself
  <2>4. CASE ban[n] = NoBan
    BY <1>1, <2>2, <2>4 DEF IInv, BanInv
  <2> QED BY <2>3, <2>4
<1>2. IInv /\ [Next]_vars =>
        [\A n \in Numbers, p \in Places :
           BanEnabled /\ Passes(n) /\ CheckNumber(n, p) /\ trail[n] = {p}
             => now > seen[n] + BanArea]_vars
  BY <1>1
<1> QED BY <1>2, Invariant, PTL DEF Spec, ParkedCarReportedOnce

\* Events for nothing but a special vehicle are ban-duration apart.
THEOREM Special_SpacedOut == Spec => SpecialSpacedOut
<1>1. ASSUME IInv, [Next]_vars, frame.pc = "numbers", frame'.pc = "report",
             frame.report = {}, special_seen # Never
      PROVE  frame.at >= special_seen + BanDuration
  <2>1. frame \in Frame /\ special_seen \in Nat /\ BanDuration \in Nat
    BY <1>1, ConstantsOK DEF IInv, TypeOK
  <2>2. HasEvent
    <3>1. ~(Capture \/ Recognise \/ Report \/ Fail \/ Mark)
      BY <1>1 DEF Capture, Recognise, Report, Fail, Mark
    <3>2. ~(BanMaintenance \/ Tick \/ UNCHANGED vars)
      BY <1>1 DEF BanMaintenance, Tick, vars
    <3>3. ~(\E n \in Numbers, p \in Places : CheckNumber(n, p))
      BY <1>1, <2>1 DEF CheckNumber, Frame
    <3>4. NumbersChecked
      BY <1>1, <3>1, <3>2, <3>3 DEF Next
    <3> QED BY <1>1, <2>1, <3>4 DEF NumbersChecked, Frame
  <2>3. special_until = Never
    BY <1>1, <2>2 DEF HasEvent, IInv, SpecialInv
  <2>4. special_seen + BanDuration <= frame.at
    BY <1>1, <2>3 DEF IInv, SpecialInv
  <2> QED BY <2>1, <2>4 DEF Frame
<1>2. IInv /\ [Next]_vars =>
        [frame.pc = "numbers" /\ frame'.pc = "report" /\ frame.report = {}
           /\ special_seen # Never => frame.at >= special_seen + BanDuration]_vars
  BY <1>1
<1> QED BY <1>2, Invariant, PTL DEF Spec, SpecialSpacedOut

\* A number is ignored only shortly after it was seen, or near a place where it
\* was seen since it was let through: the entry never outlasts what its last
\* sighting gave it, and keeps a place from the trail, even if it was entered by
\* a frame that failed.
THEOREM Ignored_WithReason == Spec => IgnoredWithReason
<1>1. ASSUME IInv, [Next]_vars, NEW n \in Numbers, NEW p \in Places, Ignored(n, p)
      PROVE  \/ frame.at < seen[n] + BanDuration
             \/ \E q \in trail[n] : <<p, q>> \in Near
  <2>1. Banned(n, p, frame.at) /\ frame.at \in Nat
    <3>1. CheckNumber(n, p) /\ n \notin frame'.report /\ frame \in Frame
      BY <1>1 DEF Ignored, IInv, TypeOK
    <3> QED BY <3>1 DEF CheckNumber, Frame
  <2>2. /\ ban[n] # NoBan /\ ban[n] \in Entry
        /\ seen[n] \in Nat
        /\ ban[n].tp1 <= seen[n] + BanDuration
        /\ ban[n].place \in trail[n]
    BY <1>1, <2>1 DEF Banned, FirstStage, SecondStage, IInv, BanInv, TypeOK
  <2>3. CASE FirstStage(n, frame.at)
    BY <2>1, <2>2, <2>3, ConstantsOK DEF FirstStage, Entry
  <2>4. CASE SecondStage(n, p, frame.at)
    BY <2>2, <2>4 DEF SecondStage
  <2> QED BY <2>1, <2>3, <2>4 DEF Banned
<1>2. IInv /\ [Next]_vars =>
        [\A n \in Numbers, p \in Places :
           Ignored(n, p) => \/ frame.at < seen[n] + BanDuration
                            \/ \E q \in trail[n] : <<p, q>> \in Near]_vars
  BY <1>1
<1> QED BY <1>2, Invariant, PTL DEF Spec, IgnoredWithReason
=============================================================================

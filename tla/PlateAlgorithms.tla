---------------------------- MODULE PlateAlgorithms ----------------------------
(***************************************************************************)
(* From what the neural networks of LPRS detect in a frame to the numbers  *)
(* of a plate: suppression of vehicles and of each vehicle's plates, the   *)
(* removal of plates found on two vehicles (removeDuplicatePlates, one step*)
(* for each comparison), and the assembly of one plate's characters into   *)
(* numbers (doInferenceLprNet).                                            *)
(*                                                                         *)
(* Sequences of detections come sorted by confidence.  A plate is its box: *)
(* its class matters to suppression alone, until its characters are read.  *)
(* Plates are read one by one, each for itself, so a frame is followed     *)
(* until one of its plates has been read.                                  *)
(***************************************************************************)
EXTENDS Detections, FiniteSets, FiniteSetsExt

CONSTANTS
  VehicleOutputs, \* what the vehicle network may find: sequences of boxes
  PlateOutputs,   \* what the plate network may find on a vehicle: sequences of
                  \* [box, class]
  CharOutputs,    \* what the network may read on a plate: [class, middle, chars],
                  \* with chars a sequence of [box, symbol]
  Unwanted,       \* boxes of plates outside the work area, or too small
  Special,        \* boxes of special vehicles in the work area
  Letters,        \* the letters that plates of class ru_1 and ru_1a have
  Digits,
  VehicleIou,     \* vehicle-iou-threshold, in percent
  CharIou,        \* char-iou-threshold, in percent
  MaxPlates       \* the plates of a frame (a bound)

VARIABLES
  stage,     \* where the frame is
  output,    \* what the last network has found
  vehicles,  \* detected_vehicles
  at,        \* the loops of doInferenceLpdNet and removeDuplicatePlates
  numbers,   \* plate_numbers of the plate that was read
  found,     \* history: vehicles when removeDuplicatePlates began
  strayed    \* history: a comparison with memory that holds no plate

vars == <<stage, output, vehicles, at, numbers, found, strayed>>

Start == [i |-> 1, j |-> 2, m |-> 1, n |-> 1]

Detected == [box : Box, class : STRING]
Character == [box : Box, symbol : STRING]
ReadOut == [class : STRING, middle : Int, chars : Seq(Character)]
Vehicle == [box : Box, plates : Seq(Box \ Unwanted)]

ASSUME OutputsAssumption ==
  /\ VehicleOutputs \subseteq Seq(Box)
  /\ PlateOutputs \subseteq Seq(Detected)
  /\ CharOutputs \subseteq ReadOut

TypeOK ==
  /\ stage \in {"vehicles", "plates", "pairs", "read", "chars", "over", "broken"}
  /\ stage = "vehicles" => output = <<>>
  /\ stage = "plates" => output \in VehicleOutputs \union PlateOutputs
  /\ stage = "over" => output \in CharOutputs
  /\ vehicles \in Seq(Vehicle) /\ found \in Seq(Vehicle)
  /\ at \in [i : Nat \ {0}, j : Nat \ {0}, m : Nat, n : Nat \ {0}]
  /\ stage # "over" => numbers = <<>>
  /\ strayed \in BOOLEAN

Init ==
  /\ stage = "vehicles" /\ output = <<>> /\ vehicles = <<>> /\ at = Start
  /\ numbers = <<>> /\ found = <<>> /\ strayed = FALSE

-----------------------------------------------------------------------------
(* Suppression                                                             *)

Pairs(detections) == ToSet(detections) \X ToSet(detections)

VehicleKills(boxes) == {p \in Pairs(boxes) : IouAbove(p[1], p[2], VehicleIou)}

PlateKills(plates) ==
  {p \in Pairs(plates) : p[1].class = p[2].class /\ HasIntersection(p[1].box, p[2].box)}

CharKills(chars) ==
  {p \in Pairs(chars) : p[1].symbol = p[2].symbol /\ IouAbove(p[1].box, p[2].box, CharIou)}

\* doInferenceVdNet
DetectVehicles ==
  /\ stage = "vehicles"
  /\ \E boxes \in VehicleOutputs :
       LET kept == Suppress(boxes, VehicleKills(boxes)) IN
       /\ output' = boxes
       /\ vehicles' = [k \in DOMAIN kept |-> [box |-> kept[k], plates |-> <<>>]]
  /\ stage' = "plates"
  /\ UNCHANGED <<at, numbers, found, strayed>>

\* The plates of a vehicle: the filters come after the suppression.
Wanted(plates) ==
  LET kept == Suppress(plates, PlateKills(plates))
      boxes == [k \in DOMAIN kept |-> kept[k].box]
  IN Keep(boxes, ToSet(boxes) \ Unwanted)

NumberOfPlates == MapThenSumSet(LAMBDA v : Len(vehicles[v].plates), DOMAIN vehicles)

\* doInferenceLpdNet for one vehicle.  (A failed inference finds nothing.)
DetectPlates ==
  /\ stage = "plates" /\ at.i <= Len(vehicles)
  /\ \E plates \in PlateOutputs :
       /\ NumberOfPlates + Len(Wanted(plates)) <= MaxPlates
       /\ output' = plates
       /\ vehicles' = [vehicles EXCEPT ![at.i].plates = Wanted(plates)]
  /\ at' = [at EXCEPT !.i = @ + 1]
  /\ UNCHANGED <<stage, numbers, found, strayed>>

-----------------------------------------------------------------------------
(* removeDuplicatePlates                                                   *)

StartPairs ==
  /\ stage = "plates" /\ at.i > Len(vehicles)
  /\ stage' = "pairs" /\ at' = Start /\ output' = <<>> /\ found' = vehicles
  /\ UNCHANGED <<vehicles, numbers, strayed>>

\* The same plate, found twice.
Same(p, q) == IouAbove(p, q, 70)

First == vehicles[at.i]
Second == vehicles[at.j]

\* A pair of vehicles i < j; m = 0 is the iterator before the first plate.
Comparing ==
  /\ stage = "pairs" /\ at.i < Len(vehicles) /\ at.j <= Len(vehicles)
  /\ HasIntersection(First.box, Second.box)
  /\ at.m <= Len(First.plates) /\ at.n <= Len(Second.plates)

NextPair ==
  /\ stage = "pairs" /\ at.i < Len(vehicles) /\ at.j <= Len(vehicles)
  /\ ~HasIntersection(First.box, Second.box) \/ at.m > Len(First.plates)
  /\ at' = [Start EXCEPT !.i = at.i, !.j = at.j + 1]
  /\ UNCHANGED <<stage, output, vehicles, numbers, found, strayed>>

NextVehicleFaulty ==
  /\ stage = "pairs" /\ at.i < Len(vehicles) /\ at.j > Len(vehicles)
  /\ at' = [Start EXCEPT !.i = at.i, !.j = at.i + 1]
  /\ UNCHANGED <<stage, output, vehicles, numbers, found, strayed>>

NextVehicle ==
  /\ stage = "pairs" /\ at.i < Len(vehicles) /\ at.j > Len(vehicles)
  /\ at' = [Start EXCEPT !.i = at.i + 1, !.j = at.i + 2]
  /\ UNCHANGED <<stage, output, vehicles, numbers, found, strayed>>

NextPlate ==
  /\ stage = "pairs" /\ at.i < Len(vehicles) /\ at.j <= Len(vehicles)
  /\ HasIntersection(First.box, Second.box)
  /\ at.m <= Len(First.plates) /\ at.n > Len(Second.plates)
  /\ at' = [at EXCEPT !.m = @ + 1, !.n = 1]
  /\ UNCHANGED <<stage, output, vehicles, numbers, found, strayed>>

FirstLosesFaulty ==
  IF Len(First.plates) = Len(Second.plates) THEN Area(First.box) > Area(Second.box)
  ELSE Len(First.plates) < Len(Second.plates)

\* The vehicle with more plates loses one, or else the larger vehicle.
FirstLoses ==
  IF Len(First.plates) = Len(Second.plates) THEN Area(First.box) > Area(Second.box)
  ELSE Len(First.plates) > Len(Second.plates)

Differ ==
  /\ Comparing /\ at.m > 0
  /\ ~Same(First.plates[at.m], Second.plates[at.n])
  /\ at' = [at EXCEPT !.n = @ + 1]
  /\ UNCHANGED <<stage, output, vehicles, numbers, found, strayed>>

RemoveFromBothFaulty ==
  /\ Comparing /\ at.m > 0
  /\ Same(First.plates[at.m], Second.plates[at.n])
  /\ vehicles' = [vehicles EXCEPT ![at.i].plates = RemoveAt(@, at.m),
                                  ![at.j].plates = RemoveAt(@, at.n)]
  /\ at' = [at EXCEPT !.m = @ - 1]
  /\ UNCHANGED <<stage, output, numbers, found, strayed>>

\* The plate at m is erased and m steps back; the loop over n goes on.
RemoveFromFirst ==
  /\ Comparing /\ at.m > 0
  /\ Same(First.plates[at.m], Second.plates[at.n]) /\ FirstLoses
  /\ vehicles' = [vehicles EXCEPT ![at.i].plates = RemoveAt(@, at.m)]
  /\ at' = [at EXCEPT !.m = @ - 1, !.n = @ + 1]
  /\ UNCHANGED <<stage, output, numbers, found, strayed>>

RemoveFromSecond ==
  /\ Comparing /\ at.m > 0
  /\ Same(First.plates[at.m], Second.plates[at.n]) /\ ~FirstLoses
  /\ vehicles' = [vehicles EXCEPT ![at.j].plates = RemoveAt(@, at.n)]
  /\ UNCHANGED <<stage, output, at, numbers, found, strayed>>

\* When m was the first plate, it now points before all plates, and the next
\* comparison reads what happens to be there.  It may look like a duplicate;
\* erasing it corrupts memory.
Stray ==
  /\ Comparing /\ at.m = 0
  /\ strayed' = TRUE
  /\ \/ at' = [at EXCEPT !.n = @ + 1] /\ UNCHANGED <<stage, vehicles>>
     \/ /\ ~FirstLoses
        /\ vehicles' = [vehicles EXCEPT ![at.j].plates = RemoveAt(@, at.n)]
        /\ UNCHANGED <<stage, at>>
     \/ FirstLoses /\ stage' = "broken" /\ UNCHANGED <<vehicles, at>>
  /\ UNCHANGED <<output, numbers, found>>

\* At last vehicles without plates are dropped, unless they are special.  (A
\* vehicle with a plate in the work area is taken to reach into it.)
DropVehicles ==
  /\ stage = "pairs" /\ at.i >= Len(vehicles)
  /\ vehicles' = Keep(vehicles, {v \in ToSet(vehicles) : v.plates # <<>> \/ v.box \in Special})
  /\ stage' = "read" /\ at' = Start
  /\ UNCHANGED <<output, numbers, found, strayed>>

-----------------------------------------------------------------------------
(* doInferenceLprNet for one plate                                         *)

\* cmp_chars_position: from left to right, and line by line if there are two.
Before(c, d, class) ==
  IF class = "ru_1" THEN c.box[1] < d.box[1]
  ELSE \/ c.box[4] < d.box[2]
       \/ /\ c.box[2] <= d.box[4]
          /\ \/ c.box[2] + c.box[4] < 2 * d.box[2]
             \/ c.box[2] + c.box[4] <= 2 * d.box[4] /\ c.box[1] < d.box[1]

\* Sorted by position (equal ones stay in their order).
InPosition(chars, class) ==
  LET place(k) == Cardinality({l \in DOMAIN chars :
                    \/ Before(chars[l], chars[k], class)
                    \/ l <= k /\ ~Before(chars[k], chars[l], class)})
  IN [p \in DOMAIN chars |-> chars[CHOOSE k \in DOMAIN chars : place(k) = p]]

\* Characters that overlap the first of them are taken for the same one.
Groups(chars) ==
  LET upto[k \in 0..Len(chars)] ==
        IF k = 0 THEN [used |-> {}, groups |-> <<>>]
        ELSE LET last == upto[k - 1]
                 same == {l \in (k + 1)..Len(chars) :
                            /\ l \notin last.used
                            /\ IouAbove(chars[k].box, chars[l].box, CharIou)}
             IN IF k \in last.used THEN last
                ELSE [used |-> last.used \union same,
                      groups |-> Append(last.groups, <<k>> \o Keep([l \in DOMAIN chars |-> l], same))]
  IN upto[Len(chars)].groups

ExtendFaulty(readings, group) ==
  LET total == Len(readings) * Len(group) IN
  [k \in 1..total |->
     Append(readings[((k - 1) % Len(readings)) + 1], group[((k - 1) % Len(group)) + 1])]

\* All readings so far, as many times as the group has characters; each copy goes
\* on with one of them.
Extend(readings, group) ==
  LET total == Len(readings) * Len(group) IN
  [k \in 1..total |->
     Append(readings[((k - 1) % Len(readings)) + 1],
            group[((k - 1) * Len(group)) \div total + 1])]

Readings(plate) ==
  LET chars == InPosition(Suppress(plate.chars, CharKills(plate.chars)), plate.class)
      groups == Groups(chars)
      upto[k \in 0..Len(groups)] ==
        IF k = 0 THEN << <<>> >> ELSE Extend(upto[k - 1], groups[k])
      indices == upto[Len(groups)]
  IN [r \in DOMAIN indices |-> [p \in DOMAIN indices[r] |-> chars[indices[r][p]]]]

\* isValidPlateNumber
IsValid(number) ==
  /\ Len(number) \in {8, 9}
  /\ \A p \in DOMAIN number : number[p] \in (IF p \in {1, 5, 6} THEN Letters ELSE Digits)

Numbers(plate) ==
  LET readings == Readings(plate) IN
  SelectSeq([r \in DOMAIN readings |-> [p \in DOMAIN readings[r] |-> readings[r][p].symbol]],
            IsValid)

\* One of the plates is read; the others are no longer followed.
PickPlate ==
  /\ stage = "read"
  /\ \E v \in DOMAIN vehicles : vehicles[v].plates # <<>>
  /\ stage' = "chars" /\ vehicles' = <<>> /\ found' = <<>> /\ strayed' = FALSE
  /\ UNCHANGED <<output, at, numbers>>

ReadPlate ==
  /\ stage = "chars"
  /\ \E plate \in CharOutputs : output' = plate /\ numbers' = Numbers(plate)
  /\ stage' = "over"
  /\ UNCHANGED <<vehicles, at, found, strayed>>

\* The next frame, after a restart if the last one broke the process.
NextFrame ==
  /\ \/ stage \in {"over", "broken"}
     \/ stage = "read" /\ \A v \in DOMAIN vehicles : vehicles[v].plates = <<>>
  /\ stage' = "vehicles" /\ output' = <<>> /\ vehicles' = <<>> /\ at' = Start
  /\ numbers' = <<>> /\ found' = <<>> /\ strayed' = FALSE

RemoveDuplicates ==
  \/ NextPair \/ NextVehicle \/ NextPlate \/ Differ
  \/ RemoveFromFirst \/ RemoveFromSecond \/ Stray \/ DropVehicles

Next ==
  \/ DetectVehicles \/ DetectPlates \/ StartPairs
  \/ RemoveDuplicates
  \/ PickPlate \/ ReadPlate \/ NextFrame

\* A loop runs until it ends.
Spec == Init /\ [][Next]_vars /\ WF_vars(RemoveDuplicates)

-----------------------------------------------------------------------------
(* Properties                                                              *)

\* Each use of non-maximum suppression loses a detection only to a better one it
\* keeps, although the loops erase from the sequence they run over.
SuppressionIsGreedy ==
  /\ stage = "plates" /\ at.i = 1 =>
       IsGreedyChoice([k \in DOMAIN vehicles |-> vehicles[k].box], output,
                      VehicleKills(output))
  /\ stage = "plates" /\ at.i > 1 =>
       IsGreedyChoice(Suppress(output, PlateKills(output)), output, PlateKills(output))
  /\ stage = "over" =>
       IsGreedyChoice(Suppress(output.chars, CharKills(output.chars)), output.chars,
                      CharKills(output.chars))

\* removeDuplicatePlates leaves no plate on two overlapping vehicles, although
\* both of its inner loops erase from the sequences they run over.
NoDuplicates ==
  stage = "read" =>
    \A v, w \in DOMAIN vehicles :
      v # w /\ HasIntersection(vehicles[v].box, vehicles[w].box) =>
        \A p \in ToSet(vehicles[v].plates), q \in ToSet(vehicles[w].plates) : ~Same(p, q)

PlatesOf(vs) == UNION {ToSet(vs[v].plates) : v \in DOMAIN vs}

\* No plate is lost: one that is removed has been found on a vehicle that keeps
\* it, if only as a duplicate of a duplicate.  (Overlap is not transitive.)
NothingLost ==
  stage \in {"pairs", "read"} /\ ~strayed =>
    LET plates == PlatesOf(found) IN
    /\ PlatesOf(vehicles) \subseteq plates
    /\ \A linked \in SUBSET plates :
         /\ PlatesOf(vehicles) \subseteq linked
         /\ \A p \in plates, q \in linked : Same(p, q) => p \in linked
         => linked = plates

\* What removeDuplicatePlates removes: all duplicates, and nothing else.
OnlyDuplicatesGo == NoDuplicates /\ NothingLost

\* The loops read outside of a sequence only if two overlapping vehicles have
\* two plates each.
StrayNeedsTwoPlates ==
  strayed =>
    \E v, w \in DOMAIN found :
      /\ v # w /\ HasIntersection(found[v].box, found[w].box)
      /\ Len(found[v].plates) > 1 /\ Len(found[w].plates) > 1

\* removeDuplicatePlates ends, although its iterators step back.
PairsEnd == stage = "pairs" ~> stage # "pairs"

\* The characters taken for the same one as c.
Cell(c, chars) == {d \in chars : IouAbove(c.box, d.box, CharIou)}

\* c is read before d on a plate whose lines meet at its middle.
ReadBefore(c, d, plate) ==
  LET upper(e) == plate.class # "ru_1" /\ e.box[4] <= plate.middle IN
  \/ upper(c) /\ ~upper(d)
  \/ (upper(c) <=> upper(d)) /\ c.box[1] < d.box[1]

\* A plate that people can read: the comparison puts its characters in the order in
\* which they are read, and of two that are not at the same place, all of one place
\* are read before all of the other.
Legible(plate) ==
  LET chars == ToSet(Suppress(plate.chars, CharKills(plate.chars))) IN
  /\ \A c \in chars : c \in Cell(c, chars)
  /\ \A c, d \in chars : Before(c, d, plate.class) <=> ReadBefore(c, d, plate)
  /\ \A c, d \in chars :
       \/ Cell(c, chars) = Cell(d, chars)
       \/ \A e \in Cell(c, chars), f \in Cell(d, chars) : ReadBefore(e, f, plate)
       \/ \A e \in Cell(c, chars), f \in Cell(d, chars) : ReadBefore(f, e, plate)

\* The numbers of a plate are assembled from all ways to choose one of the
\* characters at each place, in the order in which people read them.
AllReadings ==
  stage = "over" /\ Legible(output) =>
    LET chars == ToSet(Suppress(output.chars, CharKills(output.chars)))
        cells == {Cell(c, chars) : c \in chars}
        readings == ToSet(Readings(output))
    IN /\ readings # {}
       /\ \A r \in readings :
            /\ Len(r) = Cardinality(cells)
            /\ {Cell(r[p], chars) : p \in DOMAIN r} = cells
            /\ \A p, q \in DOMAIN r : p < q =>
                 \A c \in Cell(r[p], chars), d \in Cell(r[q], chars) : ReadBefore(c, d, output)
            /\ \A p \in DOMAIN r : \A c \in Cell(r[p], chars) :
                 [r EXCEPT ![p] = c] \in readings

=============================================================================

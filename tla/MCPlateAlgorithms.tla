--------------------------- MODULE MCPlateAlgorithms ---------------------------
(***************************************************************************)
(* PlateAlgorithms for TLC.  Vehicles: a large one and what is nearly the  *)
(* same box, a small one within it, one that overlaps these, one apart.    *)
(* Plates: three in a row, each the same as its neighbours but the first   *)
(* not the same as the last; one apart; one that is not wanted.            *)
(***************************************************************************)
EXTENDS PlateAlgorithms

Large == <<0, 0, 40, 40>>
Twin == <<0, 0, 40, 38>>
Small == <<5, 5, 33, 30>>
Beside == <<30, 0, 50, 20>>
Apart == <<60, 0, 90, 40>>

MCVehicleOutputs ==
  {<<a, b>> : a, b \in {Large, Twin, Small, Apart}} \union
  {<<Large, Small, Beside>>, <<Small, Beside, Large>>, <<Beside, Large, Small>>} \union
  {<<>>, <<Small>>, <<Small, Large, Twin>>, <<Large, Apart, Twin>>}

Row == {<<10, 10, 20, 20>>, <<11, 10, 21, 20>>, <<12, 10, 22, 20>>}
Corner == <<30, 10, 38, 16>>
Outside == <<9, 10, 19, 20>>
MCUnwanted == {Outside}
MCSpecial == {Apart}

Plate(box, class) == [box |-> box, class |-> class]

\* Up to two plates of different classes; a plate suppressed by one that is not
\* wanted; three plates, of which two or three remain.
MCPlateOutputs ==
  {<<>>} \union
  {<<Plate(p, "ru_1")>> : p \in Row \union {Corner, Outside}} \union
  {<<Plate(p, "ru_1"), Plate(q, "ru_1a")>> : p, q \in Row \union {Corner}} \union
  {<<Plate(Outside, "ru_1"), Plate(p, "ru_1")>> : p \in Row \union {Corner}} \union
  {<<Plate(Corner, "ru_1"), Plate(p, "ru_1"), Plate(q, class)>> :
     p, q \in Row, class \in {"ru_1", "ru_1a"}}

\* The places of a plate: ten units wide; on two lines, the first six above.
BoxAt(place, class, shift) ==
  LET wave == 2 * (place % 2)
      line == IF class = "ru_1a" /\ place > 6 THEN 1 ELSE 0
      column == IF line = 1 THEN place - 5 ELSE place
  IN <<20 * column + shift, 24 * line + wave, 20 * column + shift + 10, 24 * line + wave + 20>>

Right(place) == IF place \in {1, 5, 6} THEN "A" ELSE "1"
Wrong(place) == IF place \in {1, 5, 6} THEN "1" ELSE "D"

\* A plate of a given length, one character misread or none; some characters
\* were found twice, a little to the right: as the same, or as another one.
PlateChars(length, class, misread, twice, other, shift) ==
  LET Sure(p) == [box |-> BoxAt(p, class, 0),
                  symbol |-> IF p = misread THEN Wrong(p) ELSE Right(p)]
      Again(p) == [box |-> BoxAt(p, class, shift),
                    symbol |-> IF other = "same" THEN Sure(p).symbol ELSE other]
      ps == SetToSortSeq(twice, <)
  IN [class |-> class, middle |-> 23,
      chars |-> [p \in 1..length |-> Sure(p)] \o [k \in DOMAIN ps |-> Again(ps[k])]]

MCCharOutputs ==
  {PlateChars(l, c, m, t, o, s) :
     l \in 7..10, c \in {"ru_1", "ru_1a"}, m \in {0, 1, 7},
     t \in {{}, {2}, {5, 6}, {1, 7}, {3, 4, 7}}, o \in {"same", "B", "2"}, s \in {1, 3, 8}}

MCLetters == {"A", "B"}
MCDigits == {"1", "2"}

\* AllReadings is about every one of them.
ASSUME AllLegible == \A plate \in CharOutputs : Legible(plate)

=============================================================================

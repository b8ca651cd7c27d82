------------------------------ MODULE Detections ------------------------------
(***************************************************************************)
(* What a neural network of LPRS detects: boxes, how much they overlap, and*)
(* non-maximum suppression.  A box is <<xmin, ymin, xmax, ymax>>, here of  *)
(* integers; ratios are compared after multiplication.                     *)
(***************************************************************************)
EXTENDS Integers, SequencesExt

\* Corners are ordered, since networks give a centre, a width and a height.
Box == [1..4 -> Int]

\* hasIntersection
HasIntersection(a, b) ==
  /\ a[1] < b[3] /\ b[1] < a[3]
  /\ a[2] < b[4] /\ b[2] < a[4]

Area(a) == (a[3] - a[1]) * (a[4] - a[2])

Smaller(x, y) == IF x < y THEN x ELSE y
Larger(x, y) == IF x < y THEN y ELSE x

Intersection(a, b) ==
  IF HasIntersection(a, b)
  THEN (Smaller(a[3], b[3]) - Larger(a[1], b[1])) * (Smaller(a[4], b[4]) - Larger(a[2], b[2]))
  ELSE 0

\* iou(a, b) > percent / 100.  (Two empty boxes: 0 / 0 is greater than nothing.)
IouAbove(a, b, percent) ==
  100 * Intersection(a, b) > percent * (Area(a) + Area(b) - Intersection(a, b))

\* The elements of s that are in T, in their order.  (SelectSeq, for a set: provers
\* look into a recursive function, not into an operator's argument.)
Keep(s, T) ==
  LET upto[k \in 0..Len(s)] ==
        IF k = 0 THEN <<>>
        ELSE IF s[k] \in T THEN Append(upto[k - 1], s[k]) ELSE upto[k - 1]
  IN upto[Len(s)]

\* Two detections are compared in the first round only.
SuppressFaulty(found, kills) ==
  IF found = <<>> THEN found
  ELSE SubSeq(found, 1, 1) \o
       Keep(Tail(found), {d \in ToSet(found) : <<found[1], d>> \notin kills})

\* The loops of nms_vehicles, nms_plates and nms_chars, after the detections
\* have been sorted by confidence: in round m, what is left at place m erases the
\* detections behind it.  kills is the set of <<a, b>> such that a erases b.
Suppress(found, kills) ==
  LET after[m \in 0..Len(found)] ==
        IF m = 0 THEN found
        ELSE LET left == after[m - 1] IN
             IF m > Len(left) THEN left
             ELSE SubSeq(left, 1, m) \o
                  Keep(SubSeq(left, m + 1, Len(left)),
                       {d \in ToSet(left) : <<left[m], d>> \notin kills})
  IN after[Len(found)]

\* What non-maximum suppression is for: a detection goes if and only if a better one
\* that stays suppresses it, and those that stay keep their order.
IsGreedyChoice(kept, found, kills) ==
  \E places \in SUBSET DOMAIN found :
    /\ \A k \in DOMAIN found :
         k \in places <=> ~ \E l \in places : l < k /\ <<found[l], found[k]>> \in kills
    /\ Len(kept) = Cardinality(places)
    /\ \A k \in places : kept[Cardinality({l \in places : l <= k})] = found[k]

=============================================================================

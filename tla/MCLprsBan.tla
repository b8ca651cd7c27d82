----------------------------- MODULE MCLprsBan -------------------------------
(* Constant values for the TLC runs of LprsBan.                            *)
EXTENDS LprsBan

\* A car that drifts: each place is near the next one, the first is not near
\* the last.
DriftPlaces == 1..3
DriftNear == {<<p, q>> \in DriftPlaces \X DriftPlaces : p - q \in {-1, 0, 1}}
=============================================================================

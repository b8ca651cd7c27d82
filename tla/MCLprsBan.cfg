\* One number, three places of which neighbours overlap, both stages longer
\* than a tick.
CONSTANTS
  Numbers = {n1}
  Places <- DriftPlaces
  Near <- DriftNear
  BanDuration = 2
  BanArea = 3
  MaxLag = 1
  MaxTime = 7
  NoBan = NoBan
  Never = Never
SPECIFICATION Spec
PROPERTIES FirstStageHolds ParkedCarReportedOnce SpecialSpacedOut IgnoredWithReason
CHECK_DEADLOCK FALSE

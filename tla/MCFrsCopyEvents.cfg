\* Two events and two calls of bestQuality, a time to live of zero: what is of
\* one tick expires in the next. One failure or restart.
CONSTANTS
  MaxEvent = 2
  Requests = {q1, q2}
  TTL = 0
  MaxTime = 1
  MaxFaults = 1
SPECIFICATION FairSpec
INVARIANTS AppendedOnce FilesOutliveRow DoneMeansCopied SearchFinds
PROPERTIES LostWasLate ScheduledIsCopied
CHECK_DEADLOCK FALSE

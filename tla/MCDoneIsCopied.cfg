\* Two events and two calls of bestQuality, a time to live of zero: what is of
\* one tick expires in the next. No failures, no restarts.
CONSTANTS
  MaxEvent = 2
  Requests = {q1, q2}
  TTL = 0
  MaxTime = 1
  MaxFaults = 0
SPECIFICATION Spec
INVARIANT DoneIsCopied
CHECK_DEADLOCK FALSE

---------------------------- MODULE MCFrsWorkflow ----------------------------
(* Constant values for the TLC runs of FrsWorkflow.                        *)
EXTENDS FrsWorkflow

\* A camera with a timeout, and a "data:" url without one.
MixedUrls ==
  { [url |-> TRUE, retry |-> FALSE, period |-> 1],
    [url |-> FALSE, retry |-> TRUE, period |-> 0] }
=============================================================================

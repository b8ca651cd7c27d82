--------------------------- MODULE MCLprsWorkflow ----------------------------
(* Constant values for the TLC runs of LprsWorkflow.                       *)
EXTENDS LprsWorkflow

\* With and without a url, a pause after an error and a timeout.
MixedConfigs ==
  { [url |-> TRUE, retry |-> TRUE, period |-> 1],
    [url |-> TRUE, retry |-> FALSE, period |-> 0],
    [url |-> FALSE, retry |-> TRUE, period |-> 1] }

\* Every stream has a timeout, and nothing but it ends a workflow.
TimedConfigs == { [url |-> TRUE, retry |-> TRUE, period |-> 2] }
=============================================================================

\* A settled clip is reprocessed before its last event is sent, and that event raises.
CONSTANTS
  Jobs = {j1, j2}
  Requests = {q1}
  Stages = {"VALIDATING"}
  MaxRuns = 2
  MaxTries = 1
  MaxFaults = 0
  Faults = {}
  TimeoutAt = {}
  RaiseAt = {"announce"}
  MaxReprocess = 1
  ReprocessAt = {"COMPLETE"}
  ClipAges = FALSE
  PromptRetry = TRUE
  MayDelete = FALSE
  Retention = FALSE
SPECIFICATION Spec
INVARIANT OneJobAtATime

\* arq's timeout between the run's outcome and the clip's status.
CONSTANTS
  Jobs = {j1}
  Requests = {q1}
  Stages = {"VALIDATING"}
  MaxRuns = 2
  MaxTries = 3
  MaxFaults = 0
  Faults = {}
  TimeoutAt = {"complete"}
  RaiseAt = {"stage"}
  MaxReprocess = 0
  ReprocessAt = {}
  ClipAges = TRUE
  PromptRetry = TRUE
  MayDelete = FALSE
  Retention = FALSE
SPECIFICATION FairSpec
PROPERTY EventuallySettled

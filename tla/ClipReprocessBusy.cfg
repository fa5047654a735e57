\* A reprocess request while the clip is queued or being analysed.
CONSTANTS
  Jobs = {j1, j2}
  Requests = {q1}
  Stages = {"PREPROCESSING", "DIARIZING"}
  MaxRuns = 3
  MaxTries = 3
  MaxFaults = 0
  Faults = {}
  TimeoutAt = {}
  RaiseAt = {"stage"}
  MaxReprocess = 1
  ReprocessAt = {"QUEUED", "PREPROCESSING", "DIARIZING"}
  ClipAges = FALSE
  PromptRetry = TRUE
  MayDelete = FALSE
  Retention = FALSE
SPECIFICATION Spec
INVARIANT CompleteIsWhole

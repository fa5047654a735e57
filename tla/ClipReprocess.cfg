\* One upload and one reprocess of a settled clip, jobs timed out in every phase.
CONSTANTS
  Jobs = {j1, j2}
  Requests = {q1}
  Stages = {"VALIDATING", "PREPROCESSING", "RECONCILING", "POSTPROCESSING", "TAGGING"}
  MaxRuns = 3
  MaxTries = 2
  MaxFaults = 0
  Faults = {}
  TimeoutAt = {"reset", "begin", "status", "stage", "reject", "success", "complete", "announce", "fail", "failrun", "finish"}
  RaiseAt = {"status", "stage", "success", "complete"}
  MaxReprocess = 1
  ReprocessAt = {"COMPLETE", "FAILED", "REJECTED"}
  ClipAges = FALSE
  PromptRetry = TRUE
  MayDelete = FALSE
  Retention = FALSE
SPECIFICATION Spec
INVARIANTS
  TypeOK
  CompleteIsWhole
  OneJobAtATime
PROPERTIES
  OutcomeStands

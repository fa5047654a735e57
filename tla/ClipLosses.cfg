\* One upload; the worker dies and the api dies, wherever they are; stages time out.
CONSTANTS
  Jobs = {j1, j2}
  Requests = {q1}
  Stages = {"VALIDATING", "PREPROCESSING", "RECONCILING"}
  MaxRuns = 5
  MaxTries = 3
  MaxFaults = 2
  Faults = {"worker", "api"}
  TimeoutAt = {"stage", "reject", "success", "announce", "failrun", "finish"}
  RaiseAt = {"status", "stage", "reject", "success", "complete", "announce"}
  MaxReprocess = 0
  ReprocessAt = {}
  ClipAges = TRUE
  PromptRetry = TRUE
  MayDelete = FALSE
  Retention = FALSE
SPECIFICATION FairSpec
INVARIANTS
  CompleteIsWhole
  OneJobAtATime
PROPERTIES
  OutcomeStands
  StalledOnlyWhenLost
  EventuallySettled

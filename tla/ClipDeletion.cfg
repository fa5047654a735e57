\* Two people delete the clip and retention expires it, while it is analysed and Redis is
\* flushed at any moment of it.  One job id: a requeued job waits for a running one to end.
CONSTANTS
  Jobs = {j1}
  Requests = {q1, q2}
  Stages = {"PREPROCESSING"}
  MaxRuns = 2
  MaxTries = 2
  MaxFaults = 1
  Faults = {"redis"}
  TimeoutAt = {}
  RaiseAt = {"status", "stage", "reject", "success", "complete", "announce"}
  MaxReprocess = 0
  ReprocessAt = {}
  ClipAges = TRUE
  PromptRetry = TRUE
  MayDelete = TRUE
  Retention = TRUE
SPECIFICATION FairSpec
INVARIANT ReceiptForEveryDeletion
PROPERTY EventuallySettled

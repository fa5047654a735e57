\* An api handler and a worker job.
CONSTANTS
  Writers = {api, worker}
  MaxRows = 4
SPECIFICATION Spec
CHECK_DEADLOCK FALSE
INVARIANT
  RemovalShows

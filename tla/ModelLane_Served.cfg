CONSTANTS
  Interactive = {i1}
  Batch = {b1}
  Windows = 1
  NoOne = NoOne
SPECIFICATION FairTimeoutSpec
PROPERTY InteractiveServed

CONSTANTS
  Interactive = {i1}
  Batch = {b1, b2}
  Windows = 1
  NoOne = NoOne
SPECIFICATION TimeoutSpec
INVARIANT MutualExclusion

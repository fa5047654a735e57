\* One microphone, two batch jobs, cancellation of waiters.
CONSTANTS
  Interactive = {i1}
  Batch = {b1, b2}
  Windows = 2
  NoOne = NoOne
SPECIFICATION FairSpec
INVARIANTS
  TypeOK
  MutualExclusion
  HeldByExactlyOne
  ThreadInModelOwnsLane
PROPERTIES
  HandedOverInOrder
  NoBarging
  InteractiveServed
  ImplementsPriorityLane

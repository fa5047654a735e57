\* Two requests at a time, two changes of a clip and of a name, two job slots, one of them
\* lost once.
CONSTANTS
  Items = {clip, name}
  Versions = {Absent, v1, v2}
  Absent = Absent
  Projections = 2
  Windows = {n1, n2, n3}
  Requests = {q1, q2}
  Workers = {w1, w2}
  Admins = {}
  None = None
  MaxChanges = 2
  MaxTries = 3
  MaxFaults = 1
SPECIFICATION FairSpec
INVARIANTS
  TypeOK
  CurrentWhenQuiet
  RebuildsNeverInterleave
PROPERTY GraphCatchesUp

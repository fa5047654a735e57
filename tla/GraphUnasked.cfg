\* One writer that asks and changes that do not, nothing lost.
CONSTANTS
  Items = {clip}
  Versions = {Absent, v1}
  Absent = Absent
  Projections = 2
  Windows = {n1, n2, n3}
  Requests = {q1}
  Workers = {w1}
  Admins = {}
  None = None
  MaxChanges = 2
  MaxTries = 3
  MaxFaults = 0
SPECIFICATION Spec
INVARIANT NothingLeftOut

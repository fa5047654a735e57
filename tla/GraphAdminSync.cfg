\* One writer, one job slot and one request to the admin endpoint, nothing lost.
CONSTANTS
  Items = {name}
  Versions = {Absent, v1, v2}
  Absent = Absent
  Projections = 2
  Windows = {n1, n2, n3}
  Requests = {q1}
  Workers = {w1}
  Admins = {a1}
  None = None
  MaxChanges = 2
  MaxTries = 3
  MaxFaults = 0
SPECIFICATION AdminSpec
INVARIANT CurrentWhenQuiet

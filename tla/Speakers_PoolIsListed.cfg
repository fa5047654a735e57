\* A cluster is promoted after the pipeline chose it for a voice and before it wrote the row.
CONSTANTS
  v1 = v1
  v2 = v2
  t1 = t1
  Voices = {v1, v2}
  LiveTurns = {t1}
  Profiles = {p1}
  Clusters = {c1}
  Windows = {n1, n2}
  None = None
  Sound <- MCSound
  Fair <- MCFair
  MayOverlap = {}
  MayInterrupt = {"promote"}
SPECIFICATION Spec
INVARIANT PoolIsListed
SYMMETRY MCSymmetry

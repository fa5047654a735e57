\* One voice; a person names it while a pass that has read it is under way.
CONSTANTS
  v1 = v1
  v2 = v2
  t1 = t1
  Voices = {v1, v2}
  LiveTurns = {t1}
  Profiles = {p1}
  Clusters = {c1}
  Windows = {n1, n2}
  None = None
  Sound <- MCSound
  Fair <- MCFair
  MayOverlap = {"assign"}
  MayInterrupt = {}
SPECIFICATION OverlapSpec
INVARIANT DecisionKept
SYMMETRY MCSymmetry

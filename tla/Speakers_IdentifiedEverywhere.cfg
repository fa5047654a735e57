\* A person names one voice, and the whole pass runs, while the pipeline has the other in hand.
CONSTANTS
  v1 = v1
  v2 = v2
  t1 = t1
  Voices = {v1, v2}
  LiveTurns = {t1}
  Profiles = {p1}
  Clusters = {c1}
  Windows = {n1, n2}
  None = None
  Sound <- MCSound
  Fair <- MCFair
  MayOverlap = {}
  MayInterrupt = {"assign", "pass"}
SPECIFICATION Spec
INVARIANT IdentifiedEverywhere
SYMMETRY MCSymmetry

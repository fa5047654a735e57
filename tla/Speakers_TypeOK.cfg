\* A profile is deleted after the pipeline wrote the row of its voice, before the transcript.
CONSTANTS
  v1 = v1
  v2 = v2
  t1 = t1
  Voices = {v1, v2}
  LiveTurns = {t1}
  Profiles = {p1}
  Clusters = {c1}
  Windows = {n1, n2}
  None = None
  Sound <- MCSound
  Fair <- MCFair
  MayOverlap = {}
  MayInterrupt = {"delete"}
SPECIFICATION Spec
INVARIANT TypeOK
SYMMETRY MCSymmetry

\* Two clips of one person, the second barely heard, and a live turn of another; profiles and
\* clusters enough to merge; enrolments come and go while a pass is under way.
CONSTANTS
  v1 = v1
  v2 = v2
  t1 = t1
  Voices = {v1, v2}
  LiveTurns = {t1}
  Profiles = {p1, p2}
  Clusters = {c1, c2}
  Windows = {n1, n2}
  None = None
  Sound <- MCSound
  Fair <- MCFair
  MayOverlap = {"livetag", "unenroll"}
  MayInterrupt = {"livetag", "unenroll", "dismiss", "consolidate", "forget"}
SPECIFICATION Spec
INVARIANTS
  TypeOK
  IdentifiedEverywhere
  TranscriptAgrees
  DecisionKept
  PoolIsListed
SYMMETRY MCSymmetry

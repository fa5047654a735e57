\* Three turns, three words and four rows over five ticks, thresholds of a tick or two.
CONSTANTS
  StartTol = 1
  MinTurn = 2
  MergeGap = 1
  SnapTol = 1
  SmoothMinConf = 60
  SentenceGap = 1
  Window = 3
  Piece = 3
  MinPiece = 2
  Budget = 4
  Horizon = 5
  MaxTurns = 3
  MaxWords = 3
  MaxRows = 4
  Voices = {A, B}
  Edges <- MCEdges
  Words <- MCWords
  FirstTicks = {0, 2, 4}
SPECIFICATION Spec
SYMMETRY Names
INVARIANTS
  ScansAreExhaustive
  ShortTurnsStayApart
  WordsGoToTheirSpeaker
  CutsKeepEverything

\* Turns of two or three ticks whose ends the voice detector pulls together.
CONSTANTS
  StartTol = 1
  MinTurn = 2
  MergeGap = 1
  SnapTol = 1
  SmoothMinConf = 60
  SentenceGap = 1
  Window = 3
  Piece = 3
  MinPiece = 2
  Budget = 4
  Horizon = 5
  MaxTurns = 2
  MaxWords = 1
  MaxRows = 2
  Voices = {A, B}
  Edges <- MCEdges
  Words <- MCWords
  FirstTicks = {0, 2, 4}
SPECIFICATION Spec
SYMMETRY Names
INVARIANT NothingSilentlyDeleted

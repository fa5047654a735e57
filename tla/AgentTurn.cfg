\* Three iterations, two calls a reply, histories of two turns cut to three messages.
CONSTANTS
  MaxIterations = 3
  MaxCalls = 2
  MaxTokens = 4096
  HistoryCap = 3
  HistoryTurns = 2
SPECIFICATION Spec
INVARIANTS
  TypeOK
  WellFormedRequest
  EarlierResultsFirst
  NeverUnsearched
  RequestsBounded

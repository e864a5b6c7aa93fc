SPECIFICATION MCSpec
CONSTANTS
  MaxRuns = 3
  Patience = 2
  ChildFirst = TRUE
  MaxTokens = 3
INVARIANTS OneTunnel OnlineIsOwn DoneMeansReady
PROPERTIES CredentialsKept RunEnds
CHECK_DEADLOCK FALSE

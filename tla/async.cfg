SPECIFICATION FairSpec
CONSTANTS
  Key = {s1, s2}
  MaxNonce = 1
  MaxLoads = 4
INVARIANTS ShowsLastOutcome
PROPERTIES NeverOlder ImplementsDataHook QuestionAnswered
CHECK_DEADLOCK FALSE

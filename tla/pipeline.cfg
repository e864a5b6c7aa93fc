SPECIFICATION FairSpec
CONSTANTS
  Client = {r1, r2}
  Fallible = {"gpu"}
  MaxTicks = 3
INVARIANTS ReplyCoherent
PROPERTIES MonotoneReads ToldThenSeen ImplementsAtomicMetrics EveryTickPublishes RequestsAnswered

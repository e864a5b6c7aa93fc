SPECIFICATION SourceFairSpec
CONSTANTS
  a1 = a1  a2 = a2  i1 = i1  i2 = i2  i3 = i3  n2 = n2
  Agent <- MCAgent  NoAgent = NoAgent  HostOf <- MCHostOf
  Old = {a2}
  Id = {i1, i2, i3}
  Part = {system, cpu}
  Call = {c1, c2}
  Kept <- MCKept
  MaxSaves = 1
  Tab = {t1, t2}
  Name = {n1, n2}
  Slug <- MCSlug
  MaxAsked = 3
  Draw <- MCDraw
INVARIANTS RowsAreTheirAgents ListIsComplete OneServerPerId SampleKept SampleAgrees
PROPERTIES CallsEnd
CHECK_DEADLOCK FALSE

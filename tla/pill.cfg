SPECIFICATION PrefSpec
CONSTANTS
  Tab = {"t1", "t2"}
  Url = {"u1"}
  NoUrl = "-"
INVARIANTS PillIsTrue
CHECK_DEADLOCK FALSE

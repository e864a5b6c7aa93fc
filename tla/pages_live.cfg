SPECIFICATION PagesSpec
CONSTANTS
  ServerId = {"i1", "i2"}
  Shape = {"live"}
  MaxWorld = 2
INVARIANTS PagesRender
CHECK_DEADLOCK FALSE

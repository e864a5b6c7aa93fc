SPECIFICATION MCFairSpec
CONSTANTS
  n1 = n1  n2 = n2  n3 = n3  i1 = i1  i2 = i2
  Name <- MCName  Id <- MCId  Slug <- MCSlug
  Agent = {a1}
  MaxCalls = 2
  MaxVisits = 2
  ServerId = {"i1", "i2"}
  Shape = {"sample"}
  MaxWorld = 2
  PAGE_SIZE = 2
  ProcessList <- MCProcessList
  Needle <- MCNeedle
  AlertList <- MCAlertList
  ServerList <- MCServerList
  Search <- MCSearch
  StartOfToday = 48
  Day = 24
  PageCommands <- MCPageCommands
  ServerCommands <- MCServerCommands
  Texts <- MCTexts
  PageMenu = {"rows"}
  LayoutMenu = {"bell", "profile"}
  Toast = {1, 2, 3, 4}
  Reading = {1, 2}
  MaxChanges = 2
  Tab = {"t1", "t2"}
  Url = {"u1"}
  NoUrl = "-"
INVARIANTS
  AnnouncedIsStored DetailsAreOfRoute OverviewFollows PagingIsExact ListsAreExact
  ScrollLockIsDialogs TimersInv DocumentFollows
PROPERTIES EnterOpensDisplayed InterfaceSettles
CHECK_DEADLOCK FALSE

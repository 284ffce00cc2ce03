\* A document and the tab that it becomes.
CONSTANTS
  a = a
  b = b
  f1 = f1
  None = None
  Pages <- MCPages
  Home = a
  Forms <- MCForms
  MaxIntents = 2
  MaxHistory = 2
  MaxVersion = 2
  MaxHops = 1
  MaxChunks = 3
  ZlibRoom = 2
SPECIFICATION LoadSpec
INVARIANTS WholeOrError Throttled
PROPERTIES NothingStranded FormRecovers
CHECK_DEADLOCK FALSE

CONSTANTS
  a = a
  b = b
  f1 = f1
  None = None
  Pages <- MCPages
  Home = a
  Forms <- MCForms
  MaxIntents = 3
  MaxHistory = 3
  MaxVersion = 1
  MaxHops = 0
SPECIFICATION Spec
INVARIANTS
  UrlAlwaysMatches
CHECK_DEADLOCK FALSE

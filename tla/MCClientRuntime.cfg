CONSTANTS
  a = a
  b = b
  f1 = f1
  None = None
  Pages <- MCPages
  Home = a
  Forms <- MCForms
  MaxIntents = 3
  MaxHistory = 3
  MaxVersion = 2
  MaxHops = 1
SPECIFICATION Spec
INVARIANTS
  UrlMatchesPage
  LastIntentShown
  ShowsKnownMutations
  NoRerun
CHECK_DEADLOCK FALSE

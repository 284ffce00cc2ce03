\* Routes alone, for the pages that the table of the client leaves out.
CONSTANTS
  Files <- MCFiles
  Texts <- MCTexts
  Unsafe <- MCUnsafe
  MaxPages = 2
  MaxSets = 1
  MaxSegments = 2
SPECIFICATION RoutesSpec
INVARIANTS LinkShowsItsPage
CHECK_DEADLOCK FALSE

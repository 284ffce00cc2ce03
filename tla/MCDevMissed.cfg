\* Two pages saved shortly after each other: the one on show keeps its old code.
SPECIFICATION Spec
CONSTANTS
  Go = api
  Pages = {home, about}
  Parts = {}
  Styles = {}
  Current = home
  Unknown = unknown
  Contents <- MCContents
  Broken <- MCBroken
  First = 0
  MaxEdits = 2
  MaxTroubles = 0
  NoFile = NoFile
  NoContent = NoContent
PROPERTIES EditsApply
CHECK_DEADLOCK FALSE

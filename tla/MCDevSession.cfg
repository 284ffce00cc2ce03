SPECIFICATION Spec
CONSTANTS
  Go = api
  Pages = {home, about}
  Parts = {part}
  Styles = {style}
  Current = home
  Unknown = unknown
  Contents <- MCContents
  Broken <- MCBroken
  First = 0
  MaxEdits = 3
  MaxTroubles = 1
  NoFile = NoFile
  NoContent = NoContent
INVARIANTS ApiProcessesSound ReloadFindsApi
PROPERTIES SourceIsServed PageFollowsSource PageComesToRest NothingOutlives
CHECK_DEADLOCK FALSE

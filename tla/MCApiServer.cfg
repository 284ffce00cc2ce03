CONSTANTS
  s1 = s1
  p1 = p1
  p2 = p2
  r1 = r1
  NoOne = NoOne
  Streams <- MCStreams
  Publishers <- MCPublishers
  Requests <- MCRequests
  Cap = 1
  MaxFrames = 2
SPECIFICATION Spec
INVARIANTS
  SlotsOwned
PROPERTIES
  IsBroadcast
  StreamsNeverHoldShutdown
  DeadClientLeaves
  PublishedIsShown
CHECK_DEADLOCK FALSE

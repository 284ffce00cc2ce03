CONSTANTS
  q1 = q1
  q2 = q2
  q3 = q3
  ann = ann
  bob = bob
  pw1 = pw1
  Nobody = Nobody
  DummyPass = DummyPass
  Requests <- MCRequests
  Names <- MCNames
  Passwords <- MCPasswords
  Asks <- MCAsks
  Roomy <- MCRoomy
  Slots = 1
SPECIFICATION Spec
INVARIANTS
  SlotInv
  AccountsSound
  EqualCost
PROPERTIES
  EveryoneAnswered
CHECK_DEADLOCK FALSE

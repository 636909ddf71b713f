CONSTANTS
  UnicastLength = 2
  BurstMaxLen = 2
  IsCoordinator = FALSE
  NoLink = NoLink
SPECIFICATION Spec
PROPERTY
  RemovalAbortsNextSlot
CHECK_DEADLOCK FALSE

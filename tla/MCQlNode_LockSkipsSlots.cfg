CONSTANTS
  UnicastLength = 2
  BurstMaxLen = 2
  IsCoordinator = FALSE
  NoLink = NoLink
SPECIFICATION Spec
INVARIANT
  LockSkipsSlots
CHECK_DEADLOCK FALSE

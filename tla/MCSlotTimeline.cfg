SPECIFICATION Spec
CONSTANTS
  Block = {b1, b2, b3, b4}
  MaxSlotframes = 2
  Handle = {0, 1}
  Everyone = Everyone
  Address = {Everyone}
  Virtual = {Everyone}
  Call <- MCCall
  InitialSchedule <- MCInitialSchedule
  MaxQueued = 0
  AsnCycle = 12
  NoLink = NoLink
  Free = Free
  ClockModulus = 36
  SlotLength = 3
  RtimerGuard = 1
  MaxDrift = 1
  BurstMaxLen = 2
  Elapsed = {1, 3, 7}
  MaxRepeats = 2
  JoinTimes = {34}
SYMMETRY Symmetry
INVARIANTS
  TypeOK
  LinkFallsOnAsn
  SlotStartFollowsAsn
  NeverOversleeps
  NextSlotWithinHalfATurn
  SearchIsAbstracted

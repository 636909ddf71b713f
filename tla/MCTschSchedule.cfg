SPECIFICATION ScheduleSpec
CONSTANTS
  Block = {b1, b2, b3}
  MaxSlotframes = 2
  Handle = {0, 1, 2}
  a1 = a1
  a2 = a2
  Address = {a1, a2}
  Virtual = {a2}
  Call <- MCCall
  MaxQueued = 1
  AsnCycle = 6
  NoLink = NoLink
  Free = Free
SYMMETRY Symmetry
INVARIANTS
  NextLinkIsTheFirst
  ListensOnLowest
  LinkHasOnePlace
  LinkCountersMatch
  ReplacementFits
PROPERTIES
  ReplacesAtTimeslot

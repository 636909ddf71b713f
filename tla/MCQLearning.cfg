CONSTANTS
  UnicastLength = 3
  Scale = 3
  AptModulus = 3
  MaxHeard = 1
SPECIFICATION Spec
INVARIANTS
  TypeOK
  MinDominates
  QBounded
  MaxDominates
PROPERTIES
  FailureNeverRaisesTheBest

CONSTANTS
  UnicastLength = 3
  Scale = 20
  AptModulus = 1
  MaxHeard = 0
SPECIFICATION Spec
INVARIANT
  MaxIsHighest

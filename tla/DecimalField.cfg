CONSTANTS
  Half64 = 4
  Half32 = 2
  Declarations <- MCDeclarations
  OnWire <- MCOnWire
  MaxDeliveries <- MCDeliveries
SPECIFICATION Spec
INVARIANTS
  TypeOK
  DeltaIsComponentwise
PROPERTIES
  FailuresBetweenParts
  PromiseKept

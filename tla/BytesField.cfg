CONSTANTS
  Half64 = 8
  Half32 = 4
  NULL = NULL
  Declarations <- MCFields
  Entities <- MCEntities
  Vectors <- MCVectors
  Subtractions <- MCSubtractions
  MaxDeliveries = 3
SPECIFICATION Spec
INVARIANTS
  TypeOK
  ElementsKeepTheirBytes
PROPERTIES
  FailureKeepsSlot
  PromiseKept

CONSTANTS
  Half64 = 8
  Half32 = 4
  NULL = NULL
  Declarations <- MCCopiedVectors
  Entities <- MCEntities
  Vectors <- MCVectors
  Subtractions <- MCSubtractions
  MaxDeliveries = 3
SPECIFICATION Spec
INVARIANTS
  ElementsKeepTheirBytes

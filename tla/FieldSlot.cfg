CONSTANTS
  Half64 = 4
  Half32 = 2
  Initials <- MCInitials
  MaxDeliveries = 3
SPECIFICATION Spec
INVARIANTS
  TypeOK
  NeverD6
  SlotRemembersDelivery
  MandatoryIsPresent
PROPERTIES
  FailureKeepsSlot
  PromiseKept

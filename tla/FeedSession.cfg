CONSTANTS
  Half64 = 2
  Half32 = 1
  Feeds <- MCFeeds
  Initials <- MCInitials
  ResetID = 3
  Foreign = 0
  MaxInFlight = 1
SPECIFICATION Spec
INVARIANTS
  TypeOK
  WhatIsKnownIsRight
  MemoriesAgree

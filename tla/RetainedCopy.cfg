CONSTANTS
  Half64 = 2
  Half32 = 1
  ResetID = 3
  MaxFrame = 4
  Segment <- ListSegment
  Template <- ListTemplate
  Numbers <- MCNumbers
SPECIFICATION KeptSpec
PROPERTIES
  CopyIsLeftAlone

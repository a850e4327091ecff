CONSTANTS
  Half64 = 2
  Half32 = 1
  ResetID = 3
  MaxFrame = 5
  Segment <- NestSegment
  Template <- NestTemplate
  Numbers <- MCNumbers
SPECIFICATION FairSpec
INVARIANTS
  MessageIsOfThisCall
  PresenceMapsAgree
  WorkIsPaidFor
PROPERTIES
  CallsReturn

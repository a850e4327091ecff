CONSTANTS
  Half64 = 2
  Half32 = 1
  ResetID = 3
  MaxFrame = 5
  Segment <- FeedSegment
  Template <- FeedTemplate
  Numbers <- MCNumbers
SPECIFICATION Spec
INVARIANTS
  TypeOK
  MessageIsOfThisCall
  PresenceMapsAgree
  RoutedByLatestId
  DictionaryIsOfThisEpoch

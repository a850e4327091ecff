CONSTANTS
  Half64 = 512
  Half32 = 16
  GroupBits = 3
  WordBits = 10
  MapGroupBits = 2
  Packed = 2
  body = body
  element = element
  Segments = {body, element}
  Maps <- MCMaps
  MaxDepth = 2
  BitGroups <- MCBitGroups
  Counts <- MCCounts
  Nanos <- MCNanos
  SecondsPerDay = 4
  UnixToInternal = 100
SPECIFICATION Spec
INVARIANTS
  TypeOK
  ExactOrRefused
  WordIsClean
  BitsComeInOrder
  RefusalKeepsPlace
  TimesAreExactOrTurned
PROPERTIES
  BitsAreKept

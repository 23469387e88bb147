SPECIFICATION RequestsSpec
CONSTANTS
  MaxMoreBytes = 3
  HeadersMaxLen = 9
  MaxPathBytes = 9
  MaxRangeChars = 9
  Requests <- UpToThreeRanges
  HeadLen = 5
  MimeTypeLen = 3
  BoundaryLen = 11
CHECK_DEADLOCK FALSE
INVARIANTS TypesHold LineAsTheGrammar HeadersAsTheGrammar RangesAsAsked PathsAreResolved BodyAsAnnounced
PROPERTIES ReplyEnds

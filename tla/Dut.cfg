CONSTANTS
  a = a
  b = b
  Texts <- MCTexts
  Strings <- MCStrings
  Regexes <- MCRegexes
  PipeSize = 2
  MaxLines = 5
  MaxStarts = 2
SPECIFICATION FairSpec
INVARIANTS BufferExact ExpectHonest
PROPERTIES StopEnds ExpectEnds

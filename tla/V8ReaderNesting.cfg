SPECIFICATION Spec
CONSTANTS
  MaxDepth = 2
  MaxNodes = 7
  InputLen = 16
  Varints = {0, 1, 2}
  VarintMax = 1
  DoubleLen = 1
  TrailerLen = 1
  IntLimit = 5
  IntDigits = 2
  DoubleText = 6
  Growth = 3
  Tags <- SetTags
  None = None
INVARIANT NestingWithinMaxDepth

SPECIFICATION Spec
CONSTANTS
  MaxDepth = 1
  MaxNodes = 8
  InputLen = 23
  Varints = {0, 1, 4, 8}
  VarintMax = 1
  DoubleLen = 1
  TrailerLen = 1
  IntLimit = 5
  IntDigits = 2
  DoubleText = 6
  Growth = 3
  Tags <- BufferTags
  None = None
INVARIANT PayloadWithinCap

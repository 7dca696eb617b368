SPECIFICATION Spec
CONSTANTS
  MaxDepth = 2
  MaxNodes = 4
  InputLen = 11
  Varints = {0, 1, 4, 5}
  VarintMax = 2
  DoubleLen = 1
  TrailerLen = 1
  IntLimit = 5
  IntDigits = 2
  DoubleText = 6
  Growth = 3
  Tags <- AllTags
  None = None
INVARIANTS TypeOK OpenIds PayloadRead NodesCapped NestingCapped ClonesCapped
PROPERTIES SlotsWrittenOnce StepsPaid Terminates KeepsLedger

SPECIFICATION Spec
CONSTANTS
  MaxOutput = 3
  MaxInput = 40
  Width = 16
  VarintMax = 2
  TrailerLen = 1
  Blobs <- BomTexts
  Sizes = {0, 1, 2, 3, 6}
INVARIANT MediumOpensAsV8

SPECIFICATION Spec
CONSTANTS
  MaxOutput = 3
  MaxInput = 40
  Width = 16
  VarintMax = 2
  TrailerLen = 1
  Blobs <- SerializedBlobs
  Sizes = {0, 1, 2, 3, 4, 5, 6, 7, 8}
INVARIANT BlinkFallsBack

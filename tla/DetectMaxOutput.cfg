SPECIFICATION Spec
CONSTANTS
  MaxOutput = 15
  MaxInput = 40
  Width = 16
  VarintMax = 2
  TrailerLen = 1
  Blobs <- GzipBlobs
  Sizes = {0, 1, 2, 3, 4, 5, 6, 7, 8, 9, 10, 11, 12, 13, 14, 15}
INVARIANT CappedTellsMore

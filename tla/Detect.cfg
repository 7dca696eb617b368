SPECIFICATION Spec
CONSTANTS
  MaxOutput = 3
  MaxInput = 40
  Width = 16
  VarintMax = 2
  TrailerLen = 1
  Blobs <- AllBlobs
  Sizes = {0, 1, 2, 3, 4, 5, 6, 7, 8, 9, 10, 11, 12, 13, 14, 15, 16, 27, 36, 37, 41, 48}
INVARIANTS TypeOK ReadTruthful Base64Exact StreamsClaimed RoutingLossless ReadingsOrdered
PROPERTY ImplementsIdentify

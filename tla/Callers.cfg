SPECIFICATION CallersSpec
CONSTANTS
  MaxDepth = 2
  MaxOutput = 4
  Width = 8
  MaxInput = 16
  Sizes = {0, 4, 16, 20}
  Leads <- NestingLeads
  Depths = {0, 1, 2, 7}
  Tops = {0, 2}
INVARIANTS CallersTypeOK ChainBounded WorkBounded StrictlySorted ProtobufYields PayloadsBounded ExitTells ReportsBest

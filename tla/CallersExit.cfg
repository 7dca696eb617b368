SPECIFICATION CallersSpec
CONSTANTS
  MaxDepth = 3
  MaxOutput = 8
  Width = 8
  MaxInput = 32
  Sizes = {12, 16}
  Leads <- TextLeads
  Depths = {0}
  Tops = {0}
INVARIANT ExitTwoMeansUnknown

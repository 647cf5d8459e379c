CONSTANTS
  NULL = NULL
  Descs <- MCDescs
  Desc <- MCDesc
  Root = "outer"
  Layout <- MCLayout
  Places <- MCPlaces
  Tokens <- MCArrayTokens
  MaxTokens = 6
  IntMax = 3
  LongMax = 15
  Overlaid <- MCOverlaid
  Wild <- MCWild
SPECIFICATION Spec
INVARIANT KeysMeetATable

CONSTANTS
  NULL = NULL
  Descs <- MCDescs
  Desc <- MCDesc
  Root = "outer"
  Layout <- MCLayout
  Places <- MCPlaces
  Tokens <- MCVerdictTokens
  MaxTokens = 5
  IntMax = 3
  LongMax = 15
  Overlaid <- MCOverlaid
  Wild <- MCWild
SPECIFICATION Spec
INVARIANT EveryTextIsAccepted

CONSTANTS
  NULL = NULL
  Descs <- MCDescs
  Desc <- MCDesc
  Root = "outer"
  Layout <- MCLayout
  Places <- MCPlaces
  Tokens <- MCTokens
  MaxTokens = 17
  IntMax = 3
  LongMax = 15
  Overlaid <- MCOverlaid
  Wild <- MCWild
SPECIFICATION Spec
INVARIANTS
  TypeOK
  ArrayBound
  CellsKeepTheirType
  ExistMeansStored
  CountCoversElements
PROPERTIES
  SkipIsSilent
VIEW MCView

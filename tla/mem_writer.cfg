CONSTANTS
  WordSize <- MCWordSize
  Increases <- MCIncreases
  Limits <- MCLimits
  Data <- MCData
  Blocks = {b1, b2}
  NULL = NULL
  Junk = Junk
SPECIFICATION Spec
INVARIANTS
  TypeOK
  WithinBounds
  OwnsItsBlock
PROPERTIES
  WriterContract

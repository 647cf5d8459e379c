CONSTANTS
  NULL = NULL
  Junk = Junk
  WordSize = 256
  Capacities = {20, 100}
  Descs <- MCDescs
  Desc <- MCDesc
  Root = "record"
  ReaderRoot = "reader"
  Inputs <- MCInputs
  Before <- MCBefore
  Tokens <- MCTokens
  MaxTokens = 60
  IntMax = 127
  LongMax = 2047
  MaxAttempts = 2
SPECIFICATION Spec
INVARIANTS
  TypeOK
  PrefixAsksForMore
  Restored
  OldOrSent
PROPERTIES
  Delivered

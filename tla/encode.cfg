CONSTANTS
  NULL = NULL
  Junk = Junk
  WordSize <- MCWordSize
  Capacities <- MCCapacities
  Descs <- MCDescs
  Desc <- MCDesc
  Root = "outer"
  Inputs <- MCInputs
  PlacesOf <- MCPlacesOf
  Depth <- MCDepth
SPECIFICATION Spec
INVARIANTS
  TypeOK
  BufferKept
  TextIsOutput
  VerdictIsRight
  ReadsTheStructure
PROPERTIES
  WriterContract
  Termination

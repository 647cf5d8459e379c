CONSTANTS
  Alphabets <- MCAlphabets
  Buffers <- MCBuffers
SPECIFICATION Spec
INVARIANTS
  TokenIsRight
  FaultIsRight
  InputOnly
  CutIsNoticed
  DecodedIsMeant
  StringsSurvive

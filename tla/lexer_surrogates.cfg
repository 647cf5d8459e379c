CONSTANTS
  Alphabets <- MCSurrogates
  Buffers <- MCBuffers
SPECIFICATION Spec
INVARIANT
  PairsAreDecoded

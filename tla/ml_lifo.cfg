SPECIFICATION LifoSpec
CONSTANTS
  Chunks = {c1, c2, c3}
  ChunkSize = 16
  HeaderSize = 1
  MarkSize = 3
  MaxAlloc = 17
  Sizes = {6, 18, 36}
  MaxMarks = 3
  MaxBlocks = 3
SYMMETRY ChunkSymmetry
INVARIANTS
  MemoryIsExact
PROPERTIES
  KeepsFrames
CHECK_DEADLOCK FALSE

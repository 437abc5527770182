SPECIFICATION MCSpec
CONSTANTS
  Chunks <- MCChunks
  MaxAppends = 3
  MaxSeq = 12
  LineLimit = 6
  BufSize = 3
  Pieces <- MCPieces
  MaxPieces = 4
INVARIANTS
  OnlyFrames
  EveryFrameFound
  BufferBounded
  AcksExact

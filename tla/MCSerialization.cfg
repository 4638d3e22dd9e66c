SPECIFICATION Spec
CONSTANTS
  h = h
  c1 = c1
  c2 = c2
  Chunk <- MCChunk
  HeadChunk = h
  ChunkSize = 2
  Tag <- MCTag
  NULL = NULL
  Garbage = "Garbage"
  MaxFrames = 2
INVARIANTS
  ChunksAccounted
  ChainPacked
  MarksLive
  ReaderOnLiveNode
PROPERTY
  ImplementsSeq
CHECK_DEADLOCK FALSE

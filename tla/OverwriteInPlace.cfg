SPECIFICATION RenamedSpec
CONSTANTS
  Client <- OneClient
  Byte = {"x", "y", "z"}
  Buffers <- LongBuffers
  Images <- LongImages
  Lengths = {1, 3}
  Mode <- ReadWrite
  ISize = 2
  MSize = 3
  SizeT = 16
  MaxSize = 4
  MaxPages = 8
PROPERTY OverwriteInPlace
CHECK_DEADLOCK FALSE
VIEW Renumbered

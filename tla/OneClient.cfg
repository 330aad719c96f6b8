SPECIFICATION FairFailSpec
CONSTANTS
  Client <- OneClient
  Byte = {"x", "y"}
  Buffers <- LongBuffers
  Images <- LongImages
  Lengths = {1, 3}
  Mode <- ReadWrite
  ISize = 2
  MSize = 3
  SizeT = 16
  MaxSize = 4
  MaxPages = 7
INVARIANT FileSizeExact
PROPERTY OnlyLostSaveDrifts ImplementsByteFile CallsReturn
CHECK_DEADLOCK FALSE
VIEW RenumberedOnImage
CONSTRAINT LostBound

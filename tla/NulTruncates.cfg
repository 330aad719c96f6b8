SPECIFICATION Spec
CONSTANTS
  Byte = {"x", "y", "0"}
  Nul = "0"
  Images <- ShortImages
  Buffers <- NulTexts
  ISize = 2
  CacheSize = 1
  MaxPages = 4
INVARIANT WritesTheBuffer
CHECK_DEADLOCK FALSE

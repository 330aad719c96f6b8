SPECIFICATION Spec
CONSTANTS
  Byte = {"x", "y"}
  Nul = "0"
  Images <- ShortImages
  Buffers <- Texts
  ISize = 2
  CacheSize = 1
  MaxPages = 4
PROPERTY NoBloat
CHECK_DEADLOCK FALSE

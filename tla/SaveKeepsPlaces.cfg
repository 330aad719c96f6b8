SPECIFICATION SessionSpec
CONSTANTS
  Client <- TwoClients
  Byte = {"x","y"}
  Buffers <- ShortBuffers
  Images <- ShortImages
  Lengths = {2}
  Mode = {"w"}
  ISize = 2
  MSize = 3
  SizeT = 8
  MaxSize = 4
  MaxPages = 6
PROPERTY SaveKeepsPlaces
CHECK_DEADLOCK FALSE
VIEW RenumberedOnDisk

SPECIFICATION FewFailSpec
CONSTANTS
  Client <- TwoClients
  Byte = {"x","y"}
  Buffers <- ShortBuffers
  Images <- ShortImages
  Lengths = {2}
  Mode = {"w"}
  ISize = 2
  MSize = 3
  SizeT = 8
  MaxSize = 4
  MaxPages = 6
INVARIANT TypeOK PagesOK PageSizesExact
PROPERTY ImplementsByteFile DriftHasCause PlacesKept
CHECK_DEADLOCK FALSE
VIEW RenumberedOnImage
CONSTRAINT DriftBound

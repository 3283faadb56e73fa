CONSTANTS
  Size = 4
  Unit = {0, 1}
  MaxExtent = 3
  ChunkSize = 2
  Depth = 2
  MaxEdits = 1
  MaxRestores = 2
SPECIFICATION Spec
CHECK_DEADLOCK FALSE
INVARIANTS TypeOK ManifestSound ImageSound
PROPERTIES CommandsEnd

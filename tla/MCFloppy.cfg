\* Two cylinders, two heads, two sectors; one sector is missing from the end
\* of the image; transfers of 1 to 515 bytes; reads of two sectors, of three,
\* which is the whole buffer, and of four, which it has no room for.
SPECIFICATION Spec
CONSTANTS
  Controllers = {0}
  Registers = {4, 5}
  Pages = {1}
  DmaBytes = {0, 2}
  PageBytes = {0, 16}
  SectorsPerTrack = 2
  ImageSectors = 7
  BufferSectors = 3
  Cylinders = {0, 1}
  Sectors = {1, 2}
  EndOfTrack = {2, 3, 4}
CHECK_DEADLOCK FALSE
INVARIANTS TypeOK FifoInPhase NoMissedInterrupt LineTellsInterrupt
PROPERTIES ReadDelivers

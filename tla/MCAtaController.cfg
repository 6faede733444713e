\* Two-word sectors, addresses 0 and 1, reads of one or two sectors and writes
\* of one, a backing file that may fail or stop half-way.
SPECIFICATION Spec
CONSTANTS
  Words = {0, 1}
  SectorWords = 2
  Radix = 2
  ZeroCount = 2
  CountValues = {1}
  NumberValues = {1}
  LowValues = {0}
  HighValues = {0}
  HeadValues = {0}
  XlatHeads = 2
  XlatSectors = 1
  Uint32 = 1024
  DiskWords = 4
  Identity <- MCIdentity
  FileFaults = TRUE
  ControlBlock = TRUE
CHECK_DEADLOCK FALSE
INVARIANTS TypeOK PioInWindow IrqMeansProgress
PROPERTIES ImplementsBlockDevice

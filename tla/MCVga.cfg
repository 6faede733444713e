\* Three accesses of the guest at any point of any frame.
SPECIFICATION FairSpec
CONSTANTS
  NumPlanes = 2
  PlaneSize = 6
  TextBase = 2
  TextBytes = 2
  GfxBytes = 2
  Radix = 2
  Components = 1
  PelSpare = 0
  Nibble = 2
  Bytes = {0, 1}
  RegBytes = {0, 1}
  Indices <- MCIndices
  Contents <- MCContents
  VramAddresses = {1, 3}
  MaxAccesses = 3
CHECK_DEADLOCK FALSE
INVARIANTS TypeOK OneViewPerFrame DrawsInPlane QuietFrameExact
PROPERTIES Settles

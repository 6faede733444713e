\* Unconstrained guest: safety under every interleaving of the two threads.
SPECIFICATION Spec
CONSTANTS
  Scancodes = {30}
  Commands = {32, 96, 170, 174, 254}
  DataBytes = {1, 5, 237, 240, 244, 255}
  PoliteGuest = FALSE
CHECK_DEADLOCK FALSE
INVARIANTS TypeOK ReadIndexInBounds QuietConsistent NoDuplicate
PROPERTIES LineAfterRead

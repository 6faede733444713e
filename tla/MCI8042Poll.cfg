\* Polling guest: does a read that saw OBF find a byte?
SPECIFICATION Spec
CONSTANTS
  Scancodes = {30}
  Commands = {170}
  DataBytes = {255}
  PoliteGuest = TRUE
CHECK_DEADLOCK FALSE
INVARIANTS PolledReadFindsByte

\* Polling guest, fair threads.
SPECIFICATION FairSpec
CONSTANTS
  Scancodes = {30}
  Commands = {96, 170}
  DataBytes = {240, 255}
  PoliteGuest = TRUE
CHECK_DEADLOCK FALSE
PROPERTIES Drained

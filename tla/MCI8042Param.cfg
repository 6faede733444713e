\* Which commands make the next data byte a parameter?
SPECIFICATION Spec
CONSTANTS
  Scancodes = {30}
  Commands = {32, 96}
  DataBytes = {244}
  PoliteGuest = TRUE
CHECK_DEADLOCK FALSE
INVARIANTS OnlyWritesTakeParams

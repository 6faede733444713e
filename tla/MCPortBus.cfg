\* Overlapping handlers, one port nobody claims, a table that fills up.
SPECIFICATION Spec
CONSTANTS
  Ports = {1, 2, 3, 4}
  Handlers <- MCHandlers
  MaxHandlers = 4
CHECK_DEADLOCK FALSE
INVARIANTS TypeOK FirstClaimWins

\* Does every port that a callback has code for reach its device?
SPECIFICATION Spec
CONSTANTS
  Ports <- MCPorts
CHECK_DEADLOCK FALSE
INVARIANTS ImplementedReached

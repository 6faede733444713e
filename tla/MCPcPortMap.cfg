\* Every handler of the machine, every access of every width.
SPECIFICATION Spec
CONSTANTS
  Ports <- MCPorts
CHECK_DEADLOCK FALSE
INVARIANTS DevicesReached

\* Channel 2 of the first controller: is a flip-flop reset complete?
SPECIFICATION DmaSpec
CONSTANTS
  Controllers = {0}
  Registers = {4, 5}
  Pages = {1}
  DmaBytes = {0, 1}
  PageBytes = {0, 1}
CHECK_DEADLOCK FALSE
INVARIANTS FlipFlopsInStep

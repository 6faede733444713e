\* Firmware on machines of six sizes of memory.
SPECIFICATION MCSpec
CONSTANTS
  RamSizes = {2, 16, 3584, 3585, 3586, 8192}
  CmosIndices = {6, 10, 139, 15, 52}
  CmosBytes = {2, 38}
  Items = {"numa", "bootmenu", "acpi", "e820", "signature"}
  ReplyLen <- MCReplyLen
  BufferSize = 4
  PciAddresses <- MCPciAddresses
  Indices = {16, 255}
  DataPorts = {1, 2, 3, 4, 5, 6, 7}
  Dwords <- MCDwords
  Addresses <- MCAddresses
CHECK_DEADLOCK FALSE
INVARIANTS TypeOK VideoWindowOpen MemorySizesAgree ReportedRamIsMapped
  DmaReachesGuest RomPlaced ReplyFromStart ClockDecodes
PROPERTIES ConfigOnlySelected

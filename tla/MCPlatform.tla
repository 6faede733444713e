---------------------------- MODULE MCPlatform ----------------------------
(* Memory sizes on both sides of the hole, and the accesses of a firmware  *)
(* that enumerates PCI and places the VGA ROM.                             *)
(*                                                                         *)
(* CMOS, the paravirtual configuration and PCI share nothing but guest     *)
(* memory, and no property relates the registers of two of them.  So it is *)
(* enough to let the guest use one of the three in a behaviour, with       *)
(* everything guest memory does.  Of PCI a behaviour either has a firmware *)
(* that places the ROM, or dwords at every port and offset ("ports"); the  *)
(* latter touch no memory, so one size of it is enough.                    *)
EXTENDS Platform

VARIABLE focus

MCReplyLen == [i \in Items |-> CASE i = "e820" -> 3 [] i = "acpi" -> 0
                                 [] i = "bootmenu" -> 1 [] OTHER -> 2]
Address(en, bus, dev, fn, index) ==
  [configspace |-> en, bus |-> bus, dev |-> dev, fn |-> fn, index |-> index]
RomAddresses == { Address(1, 0, 0, 0, EXPROM), Address(1, 0, 0, 1, EXPROM),
                  Address(0, 0, 0, 0, EXPROM), Address(1, 1, 1, 0, 16),
                  Address(1, 0, 1, 0, 16), Address(1, 16, 1, 0, 16) }
RomDwords == { SizeProbe, [addr |-> OptionRom, low |-> 1],
               AllOnes, [addr |-> VideoWindow, low |-> 1],
               [addr |-> HoleStart, low |-> 1],
               [addr |-> HoleStart, low |-> 0],
               [addr |-> HoleStart + 1, low |-> 1] }

(* Both devices, one that is not there, and bus 16; a value that puts ATA  *)
(* where the ROM is, and one with a bit in every byte.                     *)
PortAddresses == { Address(1, 0, 0, 0, EXPROM), Address(1, 0, 1, 0, 0),
                   Address(1, 0, 1, 1, 0), Address(1, 16, 1, 0, 0),
                   Address(0, 0, 1, 0, 0) }
PortDwords == { Zero, [addr |-> HoleStart + 6, low |-> 1] }

MCPciAddresses == RomAddresses \cup PortAddresses
MCDwords == RomDwords \cup PortDwords

MCAddresses == { VideoWindow, HoleStart, HoleStart + Window, RomAtReset,
                 FourGig + VideoWindow }

MCInit == /\ Init /\ focus \in {"cmos", "paravirt", "rom", "ports"}
          /\ focus = "ports" => ramsize = 2 * Meg
MCNext == /\ \/ MemoryStep
             \/ focus = "cmos" /\ CmosStep
             \/ focus = "paravirt" /\ ParavirtStep
             \/ /\ \/ /\ focus = "rom"
                      /\ PciAccess(RomAddresses, {16}, {4}, RomDwords)
                   \/ /\ focus = "ports"
                      /\ PciAccess(PortAddresses, {255}, DataPorts, PortDwords)
                /\ UNCHANGED <<cmosVars, paravirtVars>>
          /\ UNCHANGED focus
MCSpec == MCInit /\ [][MCNext]_<<vars, focus>>
=============================================================================

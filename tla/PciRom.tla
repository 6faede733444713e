------------------------------ MODULE PciRom ------------------------------
(***************************************************************************)
(* PCI configuration space (src/devices/x86/pci.c) and its two devices:    *)
(* the VGA ROM (vga/rom.c), whose expansion ROM register moves a window of *)
(* guest memory, and the ATA controller (ata/controller.c).  Devices get   *)
(* their numbers in the order of registration: the ROM is 0, ATA is 1.     *)
(*                                                                         *)
(* A 32-bit value is the granule it addresses and its lowest bit; all ones *)
(* and the size probe 0xFFFFF800 lie in the last granule.  A register that *)
(* holds parts of two values is Mixed.  The number of a device, three      *)
(* bytes, lies right before its configuration (pcidev_t in pci.h), where a *)
(* dword written below register 0 lands.                                   *)
(***************************************************************************)
EXTENDS GuestMemory

CONSTANTS PciAddresses,   \* values written to port 0xCF8
          Indices,        \* values written to port 0xCFB
          DataPorts,      \* where dwords are written, as offsets from 0xCF8
          Dwords          \* the values written there

Dword == [addr : 0..FourGig - 1, low : 0..1]
Zero == [addr |-> 0, low |-> 0]
SizeProbe == [addr |-> FourGig - 1, low |-> 0]
AllOnes == [addr |-> FourGig - 1, low |-> 1]
Mixed == [addr |-> FourGig, low |-> 0]

BARs == {16, 20, 24, 28, 32, 36}
EXPROM == 48
ConfigRegs == {4 * k : k \in 0..75}

PciAddress == [configspace : 0..1, bus : 0..255, dev : 0..31, fn : 0..7,
               index : 0..255]
Number == [bus : 0..255, dev : 0..255, fn : 0..255]

ASSUME PciAssumption == /\ PciAddresses \subseteq PciAddress
                        /\ Indices \subseteq 0..255 /\ DataPorts \subseteq 1..7
                        /\ Dwords \subseteq Dword

VARIABLES pci,     \* state: the address register as it was decoded
          conf,    \* conf[0] is the VGA ROM's configuration, conf[1] ATA's
          number,  \* where each of them is found: bus, dev, fn
          asked    \* history: the last address the guest wrote

pciVars == <<pci, conf, number, asked>>

PciTypeOK == /\ pci \in PciAddress /\ asked \in PciAddress
             /\ conf \in [0..1 -> [ConfigRegs -> Dword \cup {Mixed}]]
             /\ conf[0][EXPROM] \in Dword
             /\ number \in [0..1 -> Number]

(* Identification, command and class registers are told apart from zero.   *)
PciInit ==
  /\ pci = [configspace |-> 0, bus |-> 0, dev |-> 0, fn |-> 0, index |-> 0]
  /\ asked = pci
  /\ number = [d \in 0..1 |-> [bus |-> 0, dev |-> d, fn |-> 0]]
  /\ conf = [d \in 0..1 |-> [r \in ConfigRegs |->
               CASE r \in {0, 4, 8} -> [addr |-> 1, low |-> 1]
                 [] r = EXPROM /\ d = 0 -> [addr |-> OptionRom, low |-> 0]
                 [] OTHER -> Zero]]

-----------------------------------------------------------------------------
(* Mutant: the function number is not compared.                            *)
AnyFunction ==
  LET same == {d \in 0..1 : number[d].bus = pci.bus /\ number[d].dev = pci.dev}
  IN  {d \in same : \A e \in same : d <= e}

(* getDevice: the first device with the number in the address register, if *)
(* there is one.                                                           *)
getDev ==
  LET same == {d \in 0..1 : /\ number[d].bus = pci.bus
                            /\ number[d].dev = pci.dev /\ number[d].fn = pci.fn}
  IN  {d \in same : \A e \in same : d <= e}

(* pci_outl to port 0xCF8: four of the eight bus bits are kept.            *)
OutAddress(a) ==
  /\ Running
  /\ pci' = [a EXCEPT !.bus = @ % 16]
  /\ asked' = a
  /\ UNCHANGED <<memoryVars, conf, number>>

(* pci_outb to port 0xCFB sets the register number.                        *)
OutIndex(val) ==
  /\ Running
  /\ pci' = [pci EXCEPT !.index = val]
  /\ UNCHANGED <<memoryVars, conf, number, asked>>

PciStop == /\ run' = "aborted"
           /\ UNCHANGED <<boot, ramsize, slots, mmio, rom, pciVars>>

(* Mutant: bit 0 is taken for part of the address, here of a granule.      *)
RemapWithEnable(val) ==
  IF val.low = 1 /\ val.addr # OptionRom
  THEN [rom EXCEPT !.base = val.addr + 1] ELSE rom

(* remap_bios, called when bit 0 of the expansion ROM register is set.     *)
remap_bios(val) ==
  IF val.low = 1 /\ val.addr # OptionRom
  THEN [rom EXCEPT !.base = val.addr] ELSE rom

(* vgarom_writel.  The BARs are zero and stay zero.                        *)
vgarom_writel(reg, val) ==
  \/ /\ reg \in BARs
     /\ conf' = [conf EXCEPT ![0][reg] = Zero]
     /\ UNCHANGED <<memoryVars, pci, number, asked>>
  \/ /\ reg = EXPROM /\ val = SizeProbe
     /\ conf' = [conf EXCEPT ![0][reg] = [addr |-> BiosShadow, low |-> 0]]
     /\ UNCHANGED <<memoryVars, pci, number, asked>>
  \/ /\ reg = EXPROM /\ val # SizeProbe
     /\ conf' = [conf EXCEPT ![0][reg] = val]
     /\ rom' = remap_bios(val)
     /\ UNCHANGED <<run, boot, ramsize, slots, mmio, pci, number, asked>>
  \/ /\ reg \notin BARs \cup {EXPROM}
     /\ PciStop

(* Byte k of a value: a granule is 16 KB, so its number begins at bit 14.  *)
ByteOf(val, k) ==
  CASE k = 0 -> IF val = AllOnes THEN 255 ELSE val.low
    [] k = 1 -> 64 * (val.addr % 4) + (CASE val = AllOnes -> 63
                                         [] val = SizeProbe -> 56
                                         [] OTHER -> 0)
    [] k = 2 -> (val.addr \div 4) % 256
    [] k = 3 -> val.addr \div 1024

(* What four bytes stored at reg make of the configuration c and of the    *)
(* number n, whose bytes lie at -3, -2 and -1.                             *)
Store(c, reg, val) ==
  [r \in ConfigRegs |-> CASE r = reg -> val
                          [] r # reg /\ reg - 4 < r /\ r < reg + 4 -> Mixed
                          [] OTHER -> c[r]]
Renumber(n, reg, val) ==
  [bus |-> IF reg = -3 THEN ByteOf(val, 0) ELSE n.bus,
   dev |-> IF reg \in {-3, -2} THEN ByteOf(val, -2 - reg) ELSE n.dev,
   fn |-> IF reg \in {-3, -2, -1} THEN ByteOf(val, -1 - reg) ELSE n.fn]

(* pciata_writel stores what it is given wherever reg points; only the     *)
(* other BARs, the ROM register and all ones for BAR 0 store a zero.       *)
pciata_writel(reg, val) ==
  LET zero == (reg \in BARs \cup {EXPROM} /\ reg # 16)
                \/ (reg = 16 /\ val = AllOnes)
      stored == IF zero THEN Zero ELSE val
  IN  /\ conf' = [conf EXCEPT ![1] = Store(conf[1], reg, stored)]
      /\ number' = [number EXCEPT ![1] = Renumber(number[1], reg, stored)]
      /\ UNCHANGED <<memoryVars, pci, asked>>

(* pci_outl to any port but 0xCF8: a dword for the selected device, at an  *)
(* offset that is not aligned and for ports 0xCF9 to 0xCFB may be negative.*)
OutDword(port, val) ==
  LET reg == pci.index + port - 4 IN
  /\ Running
  /\ \/ pci.configspace # 1 /\ PciStop
     \/ /\ pci.configspace = 1 /\ getDev = {}
        /\ UNCHANGED <<memoryVars, pciVars>>
     \/ pci.configspace = 1 /\ 0 \in getDev /\ vgarom_writel(reg, val)
     \/ pci.configspace = 1 /\ 1 \in getDev /\ pciata_writel(reg, val)

(* pci_outb and pci_outw to the data ports: the devices drop them, but the *)
(* ROM takes bytes for its command register only.                          *)
OutShort(width, port) ==
  /\ Running
  /\ IF width = 1 /\ 0 \in getDev /\ pci.index + port - 4 # 4
     THEN PciStop
     ELSE UNCHANGED <<memoryVars, pciVars>>

(* Reads leave the devices alone, whatever the address register selects;   *)
(* byte and word accesses of the address register are not implemented,     *)
(* apart from OutIndex.                                                    *)
OtherAddressAccess == Running /\ PciStop

(* Accesses with the given addresses, register numbers, ports and values.  *)
PciAccess(addresses, indices, ports, dwords) ==
  \/ \E a \in addresses : OutAddress(a)
  \/ \E val \in indices : OutIndex(val)
  \/ \E port \in ports, val \in dwords : OutDword(port, val)
  \/ \E width \in {1, 2}, port \in 4..7 : OutShort(width, port)
  \/ OtherAddressAccess

PciNext == PciAccess(PciAddresses, Indices, DataPorts, Dwords)
=============================================================================

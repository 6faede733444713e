-------------------------- MODULE PlatformProofs --------------------------
(***************************************************************************)
(* Proofs about Platform, for every set of accesses and memory sizes.      *)
(***************************************************************************)
EXTENDS Platform, TLAPS

-----------------------------------------------------------------------------
(* PCI.  The address register is the decoded form of the last address the  *)
(* guest wrote, apart from the register number.                            *)
Decoded ==
  /\ pci.configspace = asked.configspace /\ pci.bus = asked.bus % 16
  /\ pci.dev = asked.dev /\ pci.fn = asked.fn

(* The constant values of PciRom have their type.                          *)
LEMMA Constants ==
  /\ Zero \in Dword /\ [addr |-> BiosShadow, low |-> 0] \in Dword
  /\ [addr |-> 1, low |-> 1] \in Dword /\ [addr |-> OptionRom, low |-> 0] \in Dword
<1>1. FourGig \in Nat /\ BiosShadow \in Nat /\ OptionRom \in Nat
  BY DEF FourGig, BiosShadow, OptionRom
<1>2. /\ 0 <= FourGig - 1 /\ 1 <= FourGig - 1
      /\ BiosShadow <= FourGig - 1 /\ OptionRom <= FourGig - 1
  BY DEF FourGig, BiosShadow, OptionRom
<1>3. \A a \in Nat, b \in 0..1 :
        a <= FourGig - 1 => [addr |-> a, low |-> b] \in Dword
  BY <1>1 DEF Dword
<1>4. 0 \in 0..1 /\ 1 \in 0..1 /\ 0 \in Nat /\ 1 \in Nat
  OBVIOUS
<1> QED BY <1>1, <1>2, <1>3, <1>4 DEF Zero

LEMMA RomRegister ==
  EXPROM \in ConfigRegs /\ BARs \subseteq ConfigRegs /\ EXPROM \notin BARs
<1>1. /\ 12 \in 0..75 /\ 48 = 4 * 12 /\ 4 \in 0..75 /\ 16 = 4 * 4
      /\ 5 \in 0..75 /\ 20 = 4 * 5 /\ 6 \in 0..75 /\ 24 = 4 * 6
      /\ 7 \in 0..75 /\ 28 = 4 * 7 /\ 8 \in 0..75 /\ 32 = 4 * 8
      /\ 9 \in 0..75 /\ 36 = 4 * 9
  OBVIOUS
<1>2. {16, 20, 24, 28, 32, 36, 48} \subseteq {4 * k : k \in 0..75}
  BY <1>1
<1> QED BY <1>2 DEF EXPROM, ConfigRegs, BARs

LEMMA DwordAddress ==
  ASSUME NEW val \in Dword
  PROVE  val.addr \in Nat /\ val.addr < FourGig
<1>1. FourGig \in Nat
  BY DEF FourGig
<1>2. val.addr \in 0..FourGig - 1
  BY DEF Dword
<1> QED BY <1>1, <1>2

LEMMA PciInitOK == Init => PciTypeOK /\ Decoded
<1> SUFFICES ASSUME Init PROVE PciTypeOK /\ Decoded
  OBVIOUS
<1>1. pci \in PciAddress /\ asked \in PciAddress /\ Decoded
  BY DEF Init, PciInit, Decoded, PciAddress
<1>2. conf \in [0..1 -> [ConfigRegs -> Dword]]
  <2>1. \A d \in 0..1, r \in ConfigRegs : conf[d][r] \in Dword
    BY Constants DEF Init, PciInit
  <2> QED BY <2>1 DEF Init, PciInit
<1>3. EXPROM \in ConfigRegs
  BY RomRegister
<1>4. number \in [0..1 -> Number]
  BY DEF Init, PciInit, Number
<1> QED BY <1>1, <1>2, <1>3, <1>4 DEF PciTypeOK

(* Every byte of a value fits a byte, so a renumbered device has a number. *)
LEMMA ByteType ==
  ASSUME NEW val \in Dword, NEW k \in 0..3
  PROVE  ByteOf(val, k) \in 0..255
<1>1. val.addr \in Nat /\ val.addr < 262144
  BY DwordAddress, SMT DEF FourGig
<1>2. val.low \in 0..1
  BY SMT DEF Dword
<1>3. /\ val.addr % 4 \in 0..3 /\ (val.addr \div 4) % 256 \in 0..255
      /\ val.addr \div 1024 \in 0..255
  BY <1>1, SMT
<1>4. CASE k = 0
  BY <1>2, <1>4, SMT DEF ByteOf
<1>5. CASE k = 1
  <2>1. ByteOf(val, k) \in {64 * (val.addr % 4) + e : e \in {0, 56, 63}}
    BY <1>5, SMT DEF ByteOf
  <2> QED BY <1>3, <2>1, SMT
<1>6. CASE k = 2 \/ k = 3
  BY <1>3, <1>6, SMT DEF ByteOf
<1> QED BY <1>4, <1>5, <1>6, SMT

LEMMA Renumbered ==
  ASSUME NEW n \in Number, NEW reg \in Int, NEW val \in Dword
  PROVE  Renumber(n, reg, val) \in Number
<1>1. ByteOf(val, 0) \in 0..255
  BY ByteType
<1>2. reg \in {-3, -2} => ByteOf(val, -2 - reg) \in 0..255
  <2>1. reg \in {-3, -2} => -2 - reg \in 0..3
    OBVIOUS
  <2> QED BY <2>1, ByteType
<1>3. reg \in {-3, -2, -1} => ByteOf(val, -1 - reg) \in 0..255
  <2>1. reg \in {-3, -2, -1} => -1 - reg \in 0..3
    OBVIOUS
  <2> QED BY <2>1, ByteType
<1> QED BY <1>1, <1>2, <1>3 DEF Renumber, Number

(* A write to a data port leaves the address register alone and changes    *)
(* the selected device, if the register enables configuration accesses.    *)
LEMMA DeviceWrites ==
  ASSUME NEW port \in 1..7, NEW val \in Dword, OutDword(port, val), PciTypeOK
  PROVE  /\ UNCHANGED <<pci, asked>> /\ PciTypeOK'
         /\ \A d \in 0..1 : <<conf[d], number[d]>>' # <<conf[d], number[d]>> =>
              pci.configspace = 1 /\ d \in getDev
<1> DEFINE reg == pci.index + port - 4
           Any == Dword \cup {Mixed}
<1>1. reg \in Int
  BY DEF PciTypeOK, PciAddress
<1> HIDE DEF reg
<1>2. CASE UNCHANGED pciVars
  BY <1>2 DEF pciVars, PciTypeOK
<1>3. CASE pci.configspace = 1 /\ 0 \in getDev /\ vgarom_writel(reg, val)
  <2>1. CASE /\ UNCHANGED <<pci, number, asked>> /\ reg \in BARs \cup {EXPROM}
             /\ \E v \in Dword : conf' = [conf EXCEPT ![0][reg] = v]
    <3>1. PICK v \in Dword : conf' = [conf EXCEPT ![0][reg] = v]
      BY <2>1
    <3>2. reg \in ConfigRegs /\ EXPROM \in ConfigRegs
      BY <2>1, RomRegister
    <3>3. conf' \in [0..1 -> [ConfigRegs -> Any]] /\ conf'[0][EXPROM] \in Dword
      BY <3>1, <3>2 DEF PciTypeOK
    <3>4. conf'[1] = conf[1]
      BY <3>1 DEF PciTypeOK
    <3> QED BY <1>3, <2>1, <3>3, <3>4 DEF PciTypeOK
  <2>2. CASE UNCHANGED pciVars
    BY <1>2, <2>2
  <2> QED BY <1>3, <2>1, <2>2, Constants DEF vgarom_writel, PciStop
<1>4. CASE pci.configspace = 1 /\ 1 \in getDev /\ pciata_writel(reg, val)
  <2>1. PICK v \in Dword : /\ conf' = [conf EXCEPT ![1] = Store(conf[1], reg, v)]
                          /\ number' = [number EXCEPT ![1] =
                                          Renumber(number[1], reg, v)]
                          /\ UNCHANGED <<pci, asked>>
    BY <1>4, Constants DEF pciata_writel
  <2>2. conf[1] \in [ConfigRegs -> Any] /\ number[1] \in Number
    BY DEF PciTypeOK
  <2>3. Store(conf[1], reg, v) \in [ConfigRegs -> Any]
    BY <2>2 DEF Store
  <2>4. Renumber(number[1], reg, v) \in Number
    BY <1>1, <2>2, Renumbered
  <2>5. conf'[0] = conf[0] /\ number'[0] = number[0]
    BY <2>1 DEF PciTypeOK
  <2>6. conf' \in [0..1 -> [ConfigRegs -> Any]] /\ number' \in [0..1 -> Number]
    BY <2>1, <2>3, <2>4 DEF PciTypeOK
  <2> QED BY <1>4, <2>1, <2>5, <2>6 DEF PciTypeOK
<1> QED BY <1>2, <1>3, <1>4 DEF OutDword, PciStop, pciVars, reg

LEMMA PciStepOK ==
  ASSUME PciTypeOK, Decoded, [Next]_vars
  PROVE  /\ PciTypeOK' /\ Decoded'
         /\ \A d \in 0..1 : <<conf[d], number[d]>>' # <<conf[d], number[d]>> =>
              pci.configspace = 1 /\ d \in getDev
<1> USE PciAssumption
<1>1. CASE UNCHANGED pciVars
  BY <1>1 DEF pciVars, PciTypeOK, Decoded
<1>2. ASSUME NEW a \in PciAddresses, OutAddress(a)
      PROVE  PciTypeOK' /\ Decoded' /\ UNCHANGED <<conf, number>>
  <2>1. a \in PciAddress /\ a.bus % 16 \in 0..255
    BY DEF PciAddress
  <2>2. /\ pci' = [a EXCEPT !.bus = a.bus % 16] /\ asked' = a
        /\ UNCHANGED <<conf, number>>
    BY <1>2 DEF OutAddress
  <2> QED BY <2>1, <2>2 DEF PciAddress, PciTypeOK, Decoded
<1>3. ASSUME NEW val \in Indices, OutIndex(val)
      PROVE  PciTypeOK' /\ Decoded' /\ UNCHANGED <<conf, number>>
  BY <1>3 DEF OutIndex, PciAddress, PciTypeOK, Decoded
<1>4. ASSUME NEW port \in DataPorts, NEW val \in Dwords, OutDword(port, val)
      PROVE  /\ PciTypeOK' /\ Decoded'
             /\ \A d \in 0..1 : <<conf[d], number[d]>>' # <<conf[d], number[d]>> =>
                  pci.configspace = 1 /\ d \in getDev
  <2>1. val \in Dword /\ port \in 1..7
    OBVIOUS
  <2> QED BY <1>4, <2>1, DeviceWrites DEF Decoded
<1>5. CASE PciNext
  BY <1>1, <1>2, <1>3, <1>4, <1>5
     DEF PciNext, PciAccess, OutShort, OtherAddressAccess, PciStop
<1>6. CASE MemoryStep \/ CmosStep \/ ParavirtStep \/ UNCHANGED vars
  BY <1>1, <1>6 DEF MemoryStep, CmosStep, ParavirtStep, vars
<1> QED BY <1>5, <1>6 DEF Next, PciStep

LEMMA SelectedHasNumber ==
  ASSUME PciTypeOK, Decoded, asked.bus < 16, NEW d \in 0..1, d \in getDev
  PROVE  number[d] = [bus |-> asked.bus, dev |-> asked.dev, fn |-> asked.fn]
<1>1. asked.bus \in Nat /\ asked.bus % 16 = asked.bus
  BY SMT DEF PciTypeOK, PciAddress
<1>2. /\ number[d].bus = asked.bus /\ number[d].dev = asked.dev
      /\ number[d].fn = asked.fn
  BY <1>1 DEF getDev, Decoded
<1>3. number[d] \in Number
  BY DEF PciTypeOK
<1> QED BY <1>2, <1>3 DEF Number

(* For every sequence of accesses to 0xCF8 to 0xCFF, dwords at odd offsets *)
(* included, a configuration write changes only a device that has the      *)
(* number the guest wrote last, unless it named a bus beyond the fifteenth.*)
THEOREM WritesGoWhereAddressed == Spec => ConfigOnlySelected
<1>1. Init => PciTypeOK /\ Decoded
  BY PciInitOK
<1>2. PciTypeOK /\ Decoded /\ [Next]_vars => (PciTypeOK /\ Decoded)'
  BY PciStepOK
<1>3. PciTypeOK /\ Decoded /\ [Next]_vars =>
        [\A d \in 0..1 : <<conf[d], number[d]>>' # <<conf[d], number[d]>> =>
           /\ asked.configspace = 1
           /\ asked.bus < 16 =>
                number[d] = [bus |-> asked.bus, dev |-> asked.dev,
                             fn |-> asked.fn]]_vars
  BY PciStepOK, SelectedHasNumber DEF Decoded
<1> QED BY <1>1, <1>2, <1>3, PTL DEF Spec, ConfigOnlySelected

-----------------------------------------------------------------------------
(* The paravirtual configuration.  Unless the item is the exception, the   *)
(* offset counts the bytes read since its selection, and its whole reply   *)
(* is in the buffer: reads do not write, and a selection writes the whole. *)
ReplyHeld ==
  /\ buff \in [0..BufferSize - 1 -> Items \cup {"none"}]
  /\ off \in Nat /\ taken \in Nat /\ chosen \in Items \cup {"none"}
  /\ chosen \notin {"none", "numa"} =>
       off = taken /\ \A k \in 0..ReplyLen[chosen] - 1 : buff[k] = chosen

LEMMA ReplyInitOK == Init => ReplyHeld
  BY ParavirtAssumption DEF Init, ParavirtInit, ReplyHeld

LEMMA ReplyStepOK ==
  ASSUME ReplyHeld, [Next]_vars
  PROVE  ReplyHeld'
<1>1. CASE UNCHANGED paravirtVars
  BY <1>1 DEF paravirtVars, ReplyHeld
<1>2. ASSUME NEW i \in Items, SelectItem(i)
      PROVE  ReplyHeld'
  <2>1. ReplyLen[i] \in 0..BufferSize /\ BufferSize \in Nat
    BY ParavirtAssumption
  <2>2. /\ buff' = [k \in 0..BufferSize - 1 |->
                     IF k < ReplyLen[i] THEN i ELSE buff[k]]
        /\ chosen' = i /\ taken' = 0
        /\ off' = IF i = "numa" THEN off ELSE 0
    BY <1>2 DEF SelectItem, Keeps
  <2>3. buff' \in [0..BufferSize - 1 -> Items \cup {"none"}]
    BY <2>2 DEF ReplyHeld
  <2>4. \A k \in 0..ReplyLen[i] - 1 : buff'[k] = i
    BY <2>1, <2>2
  <2> QED BY <2>2, <2>3, <2>4 DEF ReplyHeld
<1>3. CASE ReadReply
  BY <1>3 DEF ReadReply, ReplyHeld
<1>4. CASE ParavirtNext
  BY <1>1, <1>2, <1>3, <1>4 DEF ParavirtNext, ReadPastReply, OtherParavirtAccess
<1>5. CASE MemoryStep \/ CmosStep \/ PciStep \/ UNCHANGED vars
  BY <1>1, <1>5 DEF MemoryStep, CmosStep, PciStep, vars
<1> QED BY <1>4, <1>5 DEF Next, ParavirtStep

(* However items were selected and read before, the bytes read after a     *)
(* selection are the item's own from the first on, for every set of items, *)
(* length of their replies and size of the buffer (the NUMA item apart).   *)
THEOREM RepliesFromStart == Spec => []ReplyFromStart
<1>1. ReplyHeld => ReplyFromStart
  <2> SUFFICES ASSUME ReplyHeld, chosen \notin {"none", "numa"},
                      taken < ReplyLen[chosen]
               PROVE  off = taken /\ buff[off] = chosen
    BY DEF ReplyFromStart
  <2>1. off = taken /\ taken \in Nat /\ ReplyLen[chosen] \in Nat
    BY ParavirtAssumption DEF ReplyHeld
  <2>2. taken \in 0..ReplyLen[chosen] - 1
    BY <2>1
  <2> QED BY <2>1, <2>2 DEF ReplyHeld
<1>2. ReplyHeld /\ [Next]_vars => ReplyHeld'
  BY ReplyStepOK
<1> QED BY ReplyInitOK, <1>1, <1>2, PTL DEF Spec

-----------------------------------------------------------------------------
(* Guest memory.  No slot that sys_create asks for reaches into the video  *)
(* window, whatever KVM refuses; so none that it has does.                 *)
Clear(s) == \A a \in VideoWindow..VideoWindow + Window - 1 : ~Covers(s, a)

WindowClear ==
  /\ \A s \in slots : Clear(s)
  /\ boot = "done" => mmio = <<"pcirom", "gfxram">>

LEMMA SlotsClear ==
  ASSUME NEW S, \A s \in S : Clear(s), NEW daddr, NEW saddr, NEW size,
         Clear([base |-> daddr, size |-> size, mem |-> saddr])
  PROVE  \A s \in sys_map(S, daddr, saddr, size) : Clear(s)
  BY DEF sys_map

LEMMA AreasClear ==
  ASSUME NEW saddr, NEW size
  PROVE  /\ Clear([base |-> 0, size |-> VideoWindow, mem |-> saddr])
         /\ \A b \in Int : b >= VideoWindow + Window =>
              Clear([base |-> b, size |-> size, mem |-> saddr])
  BY DEF Clear, Covers, VideoWindow, Window

LEMMA AboveWindow ==
  \A b \in {OptionRom, BiosArea, Meg, BiosShadow, FourGig} :
    b \in Int /\ b >= VideoWindow + Window
  BY DEF OptionRom, BiosArea, Meg, BiosShadow, FourGig, VideoWindow, Window

LEMMA BiosSlotsClear ==
  ASSUME NEW S \in load_bios_vga(BiosSlots)
  PROVE  \A s \in S : Clear(s)
<1>1. \A s \in BiosSlots : Clear(s)
  <2>1. \A s \in sys_map({}, BiosArea, "bios", Window) : Clear(s)
    BY SlotsClear, AreasClear, AboveWindow
  <2> QED BY <2>1, SlotsClear, AreasClear, AboveWindow DEF BiosSlots
<1> QED BY <1>1, SlotsClear, AreasClear, AboveWindow DEF load_bios_vga

LEMMA RamSlotsClear ==
  ASSUME NEW S, \A s \in S : Clear(s), NEW end
  PROVE  \A s \in RamSlots(S, end) : Clear(s)
<1> DEFINE first == sys_map(S, 0, "low", VideoWindow)
           low == sys_map(first, OptionRom, "upper", Window)
           ram == sys_map(low, Meg, "ram", HoleStart - Meg)
<1>1. \A s \in first : Clear(s)
  BY SlotsClear, AreasClear
<1>2. \A s \in low : Clear(s)
  <2> HIDE DEF first
  <2> QED BY <1>1, SlotsClear, AreasClear, AboveWindow
<1>3. \A size : \A s \in sys_map(low, Meg, "ram", size) : Clear(s)
  <2> HIDE DEF low
  <2> QED BY <1>2, SlotsClear, AreasClear, AboveWindow
<1>4. \A s \in sys_map(ram, FourGig, "high", end - HoleStart - Meg) : Clear(s)
  <2>1. \A s \in ram : Clear(s)
    BY <1>3
  <2> HIDE DEF ram
  <2> QED BY <2>1, SlotsClear, AreasClear, AboveWindow
<1> QED BY <1>3, <1>4 DEF RamSlots

(* Only sys_create changes the slots, the devices or the size of memory.   *)
LEMMA MemorySteps ==
  ASSUME [Next]_vars
  PROVE  \/ load_bios \/ map_ram \/ RegisterMmio
         \/ UNCHANGED <<boot, ramsize, slots, mmio>>
<1>1. CASE MemoryStep
  BY <1>1 DEF MemoryStep, sys_create, LoadFails, NoHardDisk, Mmio, MmioExit,
              handle_mmio, sys_run_vcpu
<1>2. CASE CmosStep
  BY <1>2 DEF CmosStep, CmosNext, SelectRegister, cmos_outb, cmos_inb,
              CmosStop, memoryVars
<1>3. CASE ParavirtStep
  BY <1>3 DEF ParavirtStep, ParavirtNext, SelectItem, ReadReply,
              ReadPastReply, OtherParavirtAccess, memoryVars
<1>4. CASE PciStep
  BY <1>4 DEF PciStep, PciNext, PciAccess, OutAddress, OutIndex, OutDword, OutShort,
              OtherAddressAccess, PciStop, vgarom_writel, pciata_writel,
              memoryVars
<1>5. CASE UNCHANGED vars
  BY <1>5 DEF vars, memoryVars
<1> QED BY <1>1, <1>2, <1>3, <1>4, <1>5 DEF Next

LEMMA WindowStepOK ==
  ASSUME WindowClear, [Next]_vars
  PROVE  WindowClear'
<1>1. CASE UNCHANGED <<boot, ramsize, slots, mmio>>
  BY <1>1 DEF WindowClear, Clear, Covers
<1>2. CASE load_bios
  BY <1>2, BiosSlotsClear DEF load_bios, WindowClear
<1>3. CASE map_ram
  BY <1>3, RamSlotsClear DEF map_ram, WindowClear
<1>4. CASE RegisterMmio
  BY <1>4 DEF RegisterMmio, WindowClear
<1> QED BY <1>1, <1>2, <1>3, <1>4, MemorySteps

(* Within the window the lookup of mmio.c finds the planes, or the ROM if  *)
(* the guest put it there.                                                 *)
LEMMA WindowDevice ==
  ASSUME mmio = <<"pcirom", "gfxram">>,
         NEW a \in VideoWindow..VideoWindow + Window - 1
  PROVE  getDevice(a) = IF rom.base = VideoWindow THEN "pcirom" ELSE "gfxram"
<1>1. Masked(a) = VideoWindow
  BY DEF Masked, VideoWindow, Window, FourGig
<1> DEFINE match == {i \in 1..Len(mmio) :
                      base(mmio[i]) # 0 /\ Masked(a) = base(mmio[i])}
<1>2. 1..Len(mmio) = {1, 2} /\ mmio[1] = "pcirom" /\ mmio[2] = "gfxram"
  OBVIOUS
<1>3. /\ 2 \in match
      /\ 1 \in match <=> rom.base = VideoWindow
      /\ match \subseteq {1, 2}
  BY <1>1, <1>2 DEF base, VideoWindow
<1> HIDE DEF match
<1>4. (CHOOSE i \in match : \A j \in match : i <= j)
        = IF rom.base = VideoWindow THEN 1 ELSE 2
  <2> DEFINE first == IF rom.base = VideoWindow THEN 1 ELSE 2
  <2>1. first \in match /\ \A j \in match : first <= j
    BY <1>3
  <2>2. \A i \in match : (\A j \in match : i <= j) => i = first
    BY <1>3, <2>1
  <2>3. (CHOOSE i \in match : \A j \in match : i <= j) = first
    <3> HIDE DEF first
    <3> QED BY <2>1, <2>2
  <2> QED BY <2>3
<1> QED BY <1>2, <1>3, <1>4 DEF getDevice, match

(* For every size of memory, whether or not the VGA BIOS could be loaded,  *)
(* accesses to 0xA0000-0xBFFFF leave the guest and reach the planes (or    *)
(* the ROM, where the guest moved it there).                               *)
THEOREM VideoWindowStaysOpen == Spec => []VideoWindowOpen
<1>1. Init => WindowClear
  BY DEF Init, MemoryInit, WindowClear
<1>2. WindowClear /\ [Next]_vars => WindowClear'
  BY WindowStepOK
<1>3. WindowClear => VideoWindowOpen
  BY WindowDevice DEF WindowClear, Clear, VideoWindowOpen, Running, Answers
<1> QED BY <1>1, <1>2, <1>3, PTL DEF Spec

-----------------------------------------------------------------------------
(* The slots of sys_create.  For every size of memory KVM accepts the same *)
(* ones, but for the area at 0xC0000, which the VGA BIOS or RAM gets, and  *)
(* memory above 4 GB, which may be empty.                                  *)
BiosLow == [base |-> BiosArea, size |-> Window, mem |-> "bios"]
BiosHigh == [base |-> BiosShadow, size |-> Window, mem |-> "bios"]
VgaBios == [base |-> OptionRom, size |-> Window, mem |-> "vgabios"]
LowRam == [base |-> 0, size |-> VideoWindow, mem |-> "low"]
UpperRam == [base |-> OptionRom, size |-> Window, mem |-> "upper"]
MainRam(end) ==
  [base |-> Meg, size |-> (IF end <= HoleStart THEN end ELSE HoleStart) - Meg,
   mem |-> "ram"]
HighRam(end) ==
  [base |-> FourGig, size |-> end - HoleStart - Meg, mem |-> "high"]

Final(option, end) ==
  {BiosLow, BiosHigh, option, LowRam, MainRam(end)} \cup
    (IF end > HoleStart + Meg THEN {HighRam(end)} ELSE {})

SlotLayout ==
  /\ ramsize \in {Meg * m : m \in RamSizes}
  /\ boot = "load_bios" => slots = {}
  /\ boot = "map_ram" => slots = {BiosLow, BiosHigh}
                           \/ slots = {BiosLow, BiosHigh, VgaBios}
  /\ boot \in {"devices", "done"} => slots = Final(VgaBios, ramsize)
                                       \/ slots = Final(UpperRam, ramsize)

(* The numbers of the memory map, in the order of their size.              *)
USE DEF Meg, VideoWindow, OptionRom, BiosArea, Window, HoleStart, FourGig,
        BiosShadow

LEMMA RamSizeOK ==
  ASSUME NEW r \in {Meg * m : m \in RamSizes}
  PROVE  r \in Nat /\ r >= 2 * Meg
  BY RamAssumption

LEMMA MapAccepted ==
  ASSUME NEW S, NEW daddr, NEW saddr, NEW size,
         Accepts(S, [base |-> daddr, size |-> size, mem |-> saddr])
  PROVE  sys_map(S, daddr, saddr, size)
           = S \cup {[base |-> daddr, size |-> size, mem |-> saddr]}
  BY DEF sys_map

LEMMA MapRefused ==
  ASSUME NEW S, NEW daddr, NEW saddr, NEW size,
         ~Accepts(S, [base |-> daddr, size |-> size, mem |-> saddr])
  PROVE  sys_map(S, daddr, saddr, size) = S
  BY DEF sys_map

LEMMA LoadLayout ==
  ASSUME NEW S \in load_bios_vga(BiosSlots)
  PROVE  S = {BiosLow, BiosHigh} \/ S = {BiosLow, BiosHigh, VgaBios}
<1>1. sys_map({}, BiosArea, "bios", Window) = {BiosLow}
  <2>1. Accepts({}, BiosLow)
    BY DEF Accepts, BiosLow
  <2> QED BY <2>1, MapAccepted DEF BiosLow
<1>2. BiosSlots = {BiosLow, BiosHigh}
  <2>1. Accepts({BiosLow}, BiosHigh)
    BY DEF Accepts, Overlap, BiosLow, BiosHigh
  <2> QED BY <1>1, <2>1, MapAccepted DEF BiosSlots, BiosHigh
<1>3. sys_map({BiosLow, BiosHigh}, OptionRom, "vgabios", Window)
        = {BiosLow, BiosHigh, VgaBios}
  <2>1. Accepts({BiosLow, BiosHigh}, VgaBios)
    BY DEF Accepts, Overlap, BiosLow, BiosHigh, VgaBios
  <2> QED BY <2>1, MapAccepted DEF VgaBios
<1> QED BY <1>2, <1>3 DEF load_bios_vga

(* map_ram: below 1 MB, where 0xC0000 may be taken, and then the rest.     *)
LEMMA BelowMeg ==
  ASSUME NEW S, NEW option,
         \/ S = {BiosLow, BiosHigh} /\ option = UpperRam
         \/ S = {BiosLow, BiosHigh, VgaBios} /\ option = VgaBios
  PROVE  sys_map(sys_map(S, 0, "low", VideoWindow), OptionRom, "upper", Window)
           = {BiosLow, BiosHigh, option, LowRam}
<1> DEFINE T == sys_map(S, 0, "low", VideoWindow)
<1>1. T = S \cup {LowRam}
  <2>1. Accepts(S, LowRam)
    BY DEF Accepts, Overlap, BiosLow, BiosHigh, VgaBios, LowRam
  <2> QED BY <2>1, MapAccepted DEF LowRam
<1> HIDE DEF T
<1>2. CASE S = {BiosLow, BiosHigh} /\ option = UpperRam
  <2>1. Accepts(T, UpperRam)
    BY <1>1, <1>2 DEF Accepts, Overlap, BiosLow, BiosHigh, LowRam, UpperRam
  <2>2. sys_map(T, OptionRom, "upper", Window) = T \cup {UpperRam}
    BY <2>1, MapAccepted DEF UpperRam
  <2> QED BY <1>1, <1>2, <2>2 DEF T
<1>3. CASE S = {BiosLow, BiosHigh, VgaBios} /\ option = VgaBios
  <2>1. ~Accepts(T, UpperRam)
    <3>1. VgaBios \in T
      BY <1>1, <1>3
    <3>2. Overlap(UpperRam, VgaBios)
      BY DEF Overlap, VgaBios, UpperRam
    <3> QED BY <3>1, <3>2 DEF Accepts
  <2>2. sys_map(T, OptionRom, "upper", Window) = T
    BY <2>1, MapRefused DEF UpperRam
  <2> QED BY <1>1, <1>3, <2>2 DEF T
<1> QED BY <1>2, <1>3

LEMMA RamLayout ==
  ASSUME NEW S, NEW option, NEW end \in Nat, end >= 2 * Meg,
         \/ S = {BiosLow, BiosHigh} /\ option = UpperRam
         \/ S = {BiosLow, BiosHigh, VgaBios} /\ option = VgaBios
  PROVE  RamSlots(S, end) = Final(option, end)
<1> DEFINE low == sys_map(sys_map(S, 0, "low", VideoWindow),
                          OptionRom, "upper", Window)
           size == (IF end <= HoleStart THEN end ELSE HoleStart) - Meg
           ram == sys_map(low, Meg, "ram", size)
<1>1. low = {BiosLow, BiosHigh, option, LowRam}
  BY BelowMeg
<1> HIDE DEF low
<1>2. ram = {BiosLow, BiosHigh, option, LowRam, MainRam(end)}
  <2>1. Accepts(low, MainRam(end))
    BY <1>1 DEF Accepts, Overlap, BiosLow, BiosHigh, VgaBios, UpperRam, LowRam,
                MainRam
  <2>2. ram = low \cup {MainRam(end)}
    BY <2>1, MapAccepted DEF MainRam
  <2> QED BY <1>1, <2>2
<1>3. CASE end <= HoleStart
  <2>1. RamSlots(S, end) = ram
    BY <1>3 DEF RamSlots, low
  <2> HIDE DEF ram
  <2> QED BY <1>2, <1>3, <2>1 DEF Final
<1>4. CASE end > HoleStart
  <2>1. RamSlots(S, end) = sys_map(ram, FourGig, "high", end - HoleStart - Meg)
    BY <1>4 DEF RamSlots, low
  <2> HIDE DEF ram
  <2>2. CASE end > HoleStart + Meg
    <3>1. Accepts(ram, HighRam(end))
      BY <1>2, <2>2 DEF Accepts, Overlap, BiosLow, BiosHigh, VgaBios, UpperRam,
                        LowRam, MainRam, HighRam
    <3>2. RamSlots(S, end) = ram \cup {HighRam(end)}
      BY <2>1, <3>1, MapAccepted DEF HighRam
    <3> QED BY <1>2, <2>2, <3>2 DEF Final
  <2>3. CASE end <= HoleStart + Meg
    <3>1. ~Accepts(ram, HighRam(end))
      BY <2>3 DEF Accepts, HighRam
    <3>2. RamSlots(S, end) = ram
      BY <2>1, <3>1, MapRefused DEF HighRam
    <3> QED BY <1>2, <2>3, <3>2 DEF Final
  <2> QED BY <2>2, <2>3
<1> QED BY <1>3, <1>4

LEMMA LayoutStep ==
  ASSUME SlotLayout, [Next]_vars
  PROVE  SlotLayout'
<1>1. CASE UNCHANGED <<boot, ramsize, slots, mmio>>
  BY <1>1 DEF SlotLayout
<1>2. CASE load_bios
  BY <1>2, LoadLayout DEF load_bios, SlotLayout
<1>3. CASE map_ram
  <2>1. slots' = RamSlots(slots, ramsize) /\ boot' = "devices" /\ ramsize' = ramsize
    BY <1>3 DEF map_ram
  <2>2. slots = {BiosLow, BiosHigh} \/ slots = {BiosLow, BiosHigh, VgaBios}
    BY <1>3 DEF map_ram, SlotLayout
  <2>3. ramsize \in Nat /\ ramsize >= 2 * Meg
    BY RamSizeOK DEF SlotLayout
  <2> QED BY <2>1, <2>2, <2>3, RamLayout DEF SlotLayout
<1>4. CASE RegisterMmio
  BY <1>4 DEF RegisterMmio, SlotLayout
<1> QED BY <1>1, <1>2, <1>3, <1>4, MemorySteps

LEMMA LayoutInit == Init => SlotLayout
  BY DEF Init, MemoryInit, SlotLayout

(* What the machine has once it runs, as far as the properties go.         *)
LEMMA RunningLayout ==
  ASSUME SlotLayout, Running
  PROVE  /\ ramsize \in Nat /\ ramsize >= 2 * Meg
         /\ \E option \in {VgaBios, UpperRam} : slots = Final(option, ramsize)
  BY RamSizeOK DEF SlotLayout, Running

LEMMA GuestMemOne ==
  ASSUME NEW a, NEW s, {t \in slots : Covers(t, a)} = {s}
  PROVE  GuestMem(a) = {[mem |-> s.mem, off |-> a - s.base]}
  BY DEF GuestMem

(* The slots that hold an address below 1 MB.                              *)
LEMMA LowCover ==
  ASSUME NEW option \in {VgaBios, UpperRam}, NEW end \in Nat, end >= 2 * Meg,
         NEW a \in Nat
  PROVE  /\ a < VideoWindow => {t \in Final(option, end) : Covers(t, a)} = {LowRam}
         /\ a >= OptionRom /\ a < BiosArea =>
              {t \in Final(option, end) : Covers(t, a)} = {option}
<1>1. /\ ~Covers(MainRam(end), a) \/ a >= Meg
      /\ ~Covers(HighRam(end), a) \/ a >= Meg
      /\ Covers(BiosLow, a) <=> a >= BiosArea /\ a < BiosArea + Window
      /\ Covers(BiosHigh, a) <=> a >= BiosShadow /\ a < BiosShadow + Window
      /\ Covers(option, a) <=> a >= OptionRom /\ a < OptionRom + Window
      /\ Covers(LowRam, a) <=> a < VideoWindow
  BY DEF Covers, MainRam, HighRam, BiosLow, BiosHigh, VgaBios, UpperRam, LowRam
<1> HIDE DEF Covers
<1> QED BY <1>1 DEF Final

(* For every size of memory, what a device writes through sys_getLowMem    *)
(* the guest finds at the same address, below 640 KB and, without a VGA    *)
(* BIOS, from 0xC0000 to 0xDFFFF.                                          *)
THEOREM DevicesReachGuestMemory == Spec => []DmaReachesGuest
<1>1. SlotLayout => DmaReachesGuest
  <2> SUFFICES ASSUME SlotLayout, Running, NEW a \in Nat,
                      \/ a < VideoWindow
                      \/ SlotsOf("vgabios") = {} /\ a >= OptionRom /\ a < BiosArea
               PROVE  GuestMem(a) = {sys_getLowMem(a)}
    BY DEF DmaReachesGuest
  <2>1. PICK option \in {VgaBios, UpperRam} : slots = Final(option, ramsize)
    BY RunningLayout
  <2>2. CASE a < VideoWindow
    <3>1. {t \in slots : Covers(t, a)} = {LowRam}
      BY <2>1, <2>2, RunningLayout, LowCover
    <3>2. GuestMem(a) = {[mem |-> LowRam.mem, off |-> a - LowRam.base]}
      BY <3>1, GuestMemOne
    <3>3. LowRam.mem = "low" /\ a - LowRam.base = a
      BY DEF LowRam
    <3> QED BY <2>2, <3>2, <3>3 DEF sys_getLowMem
  <2>3. CASE SlotsOf("vgabios") = {} /\ a >= OptionRom /\ a < BiosArea
    <3>1. option = UpperRam
      BY <2>1, <2>3 DEF SlotsOf, Final, VgaBios
    <3>2. {t \in slots : Covers(t, a)} = {UpperRam}
      BY <2>1, <2>3, <3>1, RunningLayout, LowCover
    <3>3. GuestMem(a) = {[mem |-> UpperRam.mem, off |-> a - UpperRam.base]}
      BY <3>2, GuestMemOne
    <3>4. UpperRam.mem = "upper" /\ UpperRam.base = OptionRom
      BY DEF UpperRam
    <3> QED BY <2>3, <3>3, <3>4 DEF sys_getLowMem
  <2> QED BY <2>2, <2>3
<1> QED BY <1>1, LayoutInit, LayoutStep, PTL DEF Spec

(* For every size of memory from the one it was written for, the E820      *)
(* table reports as RAM what map_ram has mapped, and reserves what only    *)
(* the BIOS uses.                                                          *)
THEOREM TableTellsRam == Spec => []ReportedRamIsMapped
<1>1. SlotLayout => ReportedRamIsMapped
  <2> SUFFICES ASSUME SlotLayout, Running, ramsize >= HoleStart
               PROVE  /\ \A e \in E820Ram :
                           \E s \in SlotsOf("low") \cup SlotsOf("ram") :
                             s.base <= e.base /\ e.base + e.size <= s.base + s.size
                      /\ \A s \in slots : Overlap(s, E820Reserved) => s.mem = "bios"
    BY DEF ReportedRamIsMapped
  <2>1. PICK option \in {VgaBios, UpperRam} : slots = Final(option, ramsize)
    BY RunningLayout
  <2>2. ramsize \in Nat
    BY RunningLayout
  <2>3. LowRam \in SlotsOf("low") /\ MainRam(ramsize) \in SlotsOf("ram")
    BY <2>1 DEF SlotsOf, Final, LowRam, MainRam
  <2>4. \A e \in E820Ram : \E s \in {LowRam, MainRam(ramsize)} :
          s.base <= e.base /\ e.base + e.size <= s.base + s.size
    BY <2>2 DEF E820Ram, LowRam, MainRam
  <2>5. \A s \in slots : Overlap(s, E820Reserved) => s.mem = "bios"
    BY <2>1, <2>2 DEF Final, Overlap, E820Reserved, BiosLow, BiosHigh, VgaBios,
                      UpperRam, LowRam, MainRam, HighRam
  <2> QED BY <2>3, <2>4, <2>5
<1> QED BY <1>1, LayoutInit, LayoutStep, PTL DEF Spec

-----------------------------------------------------------------------------
(* The size of memory, put together again from its bytes.  A size is a     *)
(* multiple of 64 KB, which is four granules.                              *)
LEMMA Quarter ==
  ASSUME NEW k \in Int
  PROVE  /\ (4 * k) \div 4 = k /\ (4 * k) \div 1024 = k \div 256
         /\ (4 * k) \div FourGig = k \div 65536
  BY SMT

LEMMA BytesOfSize ==
  ASSUME NEW k \in Int, NEW x, NEW y, x = Byte(4 * k, 4), y = Byte(4 * k, 1024)
  PROVE  4 * x + 1024 * y = 4 * (k % 65536)
<1>1. x = k % 256 /\ y = (k \div 256) % 256
  BY Quarter DEF Byte
<1>2. 4 * (k % 256) + 1024 * ((k \div 256) % 256) = 4 * (k % 65536)
  BY SMT
<1>3. k % 256 \in Int /\ (k \div 256) % 256 \in Int /\ k % 65536 \in Int
  BY SMT
<1> QED BY <1>1, <1>2, <1>3, SMT

(* Below the hole: also where subtracting 16 MB has wrapped.               *)
LEMMA BelowAgrees ==
  ASSUME ramsize \in {Meg * m : m \in RamSizes}
  PROVE  (16 * Meg + 4 * SizeByte(52) + 1024 * SizeByte(53)) % FourGig
           = MainRam(ramsize).base + MainRam(ramsize).size
<1>1. PICK m \in Nat : ramsize = Meg * m
  BY RamAssumption, SMT
<1> DEFINE k == (IF ramsize > HoleStart THEN 57344 ELSE 16 * m) - 256
<1>2. k \in Int /\ ExtMem = 4 * k
  BY <1>1, SMT DEF ExtMem
<1>3. 0 <= k + 256 /\ k + 256 < 65536
  BY <1>1, SMT
<1>4. 4 * (k + 256) = MainRam(ramsize).base + MainRam(ramsize).size
  BY <1>1, SMT DEF MainRam
<1> HIDE DEF k
<1>5. SizeByte(52) = Byte(4 * k, 4) /\ SizeByte(53) = Byte(4 * k, 1024)
  BY <1>2, SMT DEF SizeByte
<1>6. 4 * SizeByte(52) + 1024 * SizeByte(53) = 4 * (k % 65536)
  BY <1>2, <1>5, BytesOfSize, SMT
<1>7. SizeByte(52) \in Int /\ SizeByte(53) \in Int
  BY <1>2, <1>5, SMT DEF Byte
<1>8. (16 * Meg + 4 * (k % 65536)) % FourGig = 4 * (k + 256)
  BY <1>2, <1>3, SMT
<1> QED BY <1>4, <1>6, <1>7, <1>8, SMT

(* Above 4 GB: three bytes hold what is below 1 TB.                        *)
LEMMA AboveAgrees ==
  ASSUME ramsize \in {Meg * m : m \in RamSizes}, HighMem < 256 * FourGig
  PROVE  4 * SizeByte(91) + 1024 * SizeByte(92) + FourGig * SizeByte(93) = HighMem
<1>1. PICK m \in Nat : ramsize = Meg * m
  BY RamAssumption, SMT
<1> DEFINE k == IF ramsize <= HoleStart THEN 0 ELSE 16 * m - 57344 - 16
<1>2. k \in Int /\ HighMem = 4 * k
  BY <1>1, SMT DEF HighMem
<1>3. 0 <= k /\ k < 256 * 65536
  BY <1>1, <1>2, SMT
<1> HIDE DEF k
<1>4. /\ SizeByte(91) = Byte(4 * k, 4) /\ SizeByte(92) = Byte(4 * k, 1024)
      /\ SizeByte(93) = Byte(4 * k, FourGig)
  BY <1>2, SMT DEF SizeByte
<1>5. 4 * SizeByte(91) + 1024 * SizeByte(92) = 4 * (k % 65536)
  BY <1>2, <1>4, BytesOfSize, SMT
<1>6. SizeByte(93) = k \div 65536
  <2>1. SizeByte(93) = (k \div 65536) % 256
    BY <1>2, <1>4, Quarter, SMT DEF Byte
  <2> QED BY <1>2, <1>3, <2>1, SMT
<1>7. SizeByte(91) \in Int /\ SizeByte(92) \in Int
  BY <1>2, <1>4, SMT DEF Byte
<1>8. 4 * (k % 65536) + FourGig * (k \div 65536) = 4 * k
  BY <1>2, SMT
<1>9. SizeByte(93) \in Int /\ k % 65536 \in Int /\ k \div 65536 \in Int
  BY <1>2, <1>6, SMT
<1>10. 4 * SizeByte(91) + 1024 * SizeByte(92) + FourGig * SizeByte(93) = 4 * k
  BY <1>2, <1>5, <1>6, <1>7, <1>8, <1>9, SMT
<1> QED BY <1>2, <1>10

(* The CMOS tells the sizes of memory that map_ram has mapped, for every   *)
(* size that its three bytes for memory above 4 GB can express.            *)
THEOREM CmosTellsMemory ==
  (\A m \in RamSizes : Meg * m - HoleStart - Meg < 256 * FourGig)
    => (Spec => []MemorySizesAgree)
<1> SUFFICES ASSUME \A m \in RamSizes : Meg * m - HoleStart - Meg < 256 * FourGig
             PROVE  Spec => []MemorySizesAgree
  OBVIOUS
<1>1. SlotLayout => MemorySizesAgree
  <2> SUFFICES ASSUME SlotLayout, Running PROVE MemorySizesAgree
    BY DEF MemorySizesAgree
  <2>1. PICK option \in {VgaBios, UpperRam} : slots = Final(option, ramsize)
    BY RunningLayout
  <2>2. ramsize \in Nat /\ ramsize \in {Meg * m : m \in RamSizes}
    BY RunningLayout DEF SlotLayout
  <2>3. HighMem < 256 * FourGig
    <3>1. PICK m \in RamSizes : ramsize = Meg * m
      BY <2>2
    <3>2. Meg * m - HoleStart - Meg < 256 * FourGig
      OBVIOUS
    <3> QED BY <2>2, <3>1, <3>2, SMT DEF HighMem
  <2>4. MainRam(ramsize) \in SlotsOf("ram")
    BY <2>1 DEF SlotsOf, Final, MainRam
  <2>5. HighMem = 0 => SlotsOf("high") = {}
    BY <2>1, <2>2 DEF HighMem, SlotsOf, Final, BiosLow, BiosHigh, VgaBios,
                      UpperRam, LowRam, MainRam, HighRam
  <2>6. HighMem # 0 => /\ HighRam(ramsize) \in SlotsOf("high")
                       /\ HighRam(ramsize).base = FourGig
                       /\ HighRam(ramsize).size = HighMem
    <3>1. HighMem # 0 => ramsize > HoleStart + Meg
                           /\ HighMem = ramsize - HoleStart - Meg
      <4>1. PICK m \in Nat : ramsize = Meg * m
        BY <2>2, RamAssumption
      <4> QED BY <4>1, SMT DEF HighMem
    <3>2. HighMem # 0 => HighRam(ramsize) \in slots
      BY <2>1, <3>1 DEF Final
    <3> QED BY <3>1, <3>2 DEF SlotsOf, HighRam
  <2> QED BY <2>2, <2>3, <2>4, <2>5, <2>6, BelowAgrees, AboveAgrees,
             SMT DEF MemorySizesAgree
<1> QED BY <1>1, LayoutInit, LayoutStep, PTL DEF Spec

-----------------------------------------------------------------------------
(* The ROM window.  pcirom.base is never 0xC0000, and while the expansion  *)
(* ROM register enables the ROM it holds pcirom.base, or 0xC0000, which    *)
(* remap_bios refuses.                                                     *)
RomType == rom \in [loaded : BOOLEAN, base : Nat]

RomFollows ==
  /\ RomType /\ rom.base # OptionRom
  /\ conf[0][EXPROM].low = 1 =>
       conf[0][EXPROM].addr = OptionRom \/ conf[0][EXPROM].addr = rom.base

LEMMA RomInit == Init => RomFollows
<1> SUFFICES ASSUME Init PROVE RomFollows
  OBVIOUS
<1>1. rom = [loaded |-> FALSE, base |-> RomAtReset]
  BY DEF Init, MemoryInit
<1>2. RomType /\ rom.base # OptionRom
  BY <1>1, SMT DEF RomType, RomAtReset
<1>3. conf[0][EXPROM].low = 0
  BY RomRegister, EXPROM \notin {0, 4, 8} DEF Init, PciInit, EXPROM
<1> QED BY <1>2, <1>3 DEF RomFollows

LEMMA RegisterKeepsRom ==
  ASSUME RomFollows, RegisterMmio, UNCHANGED conf
  PROVE  RomFollows'
<1>1. PICK opened \in BOOLEAN : rom' = [rom EXCEPT !.loaded = opened]
  BY DEF RegisterMmio
<1>2. rom'.base = rom.base /\ RomType'
  BY <1>1 DEF RomFollows, RomType
<1> QED BY <1>2 DEF RomFollows

(* Only a write to the register itself moves the ROM.                      *)
LEMMA DwordKeepsRom ==
  ASSUME RomFollows, PciTypeOK, NEW port \in 1..7,
         NEW val \in Dword, OutDword(port, val)
  PROVE  RomFollows'
<1> DEFINE reg == pci.index + port - 4
<1> HIDE DEF reg
<1>1. EXPROM \in ConfigRegs
  BY RomRegister
<1>2. CASE UNCHANGED <<rom, conf>>
  BY <1>2 DEF RomFollows, RomType
<1>3. CASE UNCHANGED rom /\ conf'[0][EXPROM] = conf[0][EXPROM]
  BY <1>3 DEF RomFollows, RomType
<1>4. CASE vgarom_writel(reg, val)
  <2>1. CASE reg \in BARs /\ UNCHANGED rom
                /\ conf' = [conf EXCEPT ![0][reg] = Zero]
    <3>1. reg # EXPROM
      BY <2>1, RomRegister
    <3>2. conf'[0][EXPROM] = conf[0][EXPROM]
      BY <1>1, <2>1, <3>1 DEF PciTypeOK
    <3> QED BY <1>3, <2>1, <3>2
  <2>2. CASE reg = EXPROM /\ UNCHANGED rom
                /\ conf' = [conf EXCEPT ![0][reg] =
                                          [addr |-> BiosShadow, low |-> 0]]
    <3>1. conf'[0][EXPROM].low = 0
      BY <1>1, <2>2 DEF PciTypeOK
    <3> QED BY <2>2, <3>1 DEF RomFollows, RomType
  <2>3. CASE /\ reg = EXPROM /\ rom' = remap_bios(val)
             /\ conf' = [conf EXCEPT ![0][reg] = val]
    <3>1. conf'[0][EXPROM] = val
      BY <1>1, <2>3 DEF PciTypeOK
    <3>2. val.addr \in Nat
      BY DwordAddress
    <3>3. CASE val.low = 1 /\ val.addr # OptionRom
      <4>1. rom' = [rom EXCEPT !.base = val.addr]
        BY <2>3, <3>3 DEF remap_bios
      <4>2. RomType' /\ rom'.base = val.addr
        BY <3>2, <4>1 DEF RomFollows, RomType
      <4> QED BY <3>1, <3>3, <4>2 DEF RomFollows
    <3>4. CASE ~(val.low = 1 /\ val.addr # OptionRom)
      <4>1. rom' = rom
        BY <2>3, <3>4 DEF remap_bios
      <4> QED BY <3>1, <3>4, <4>1 DEF RomFollows, RomType
    <3> QED BY <3>3, <3>4
  <2> QED BY <1>2, <1>4, <2>1, <2>2, <2>3
          DEF vgarom_writel, PciStop, memoryVars, pciVars
<1>5. CASE pciata_writel(reg, val)
  <2>1. UNCHANGED rom /\ \E c : conf' = [conf EXCEPT ![1] = c]
    BY <1>5 DEF pciata_writel, memoryVars
  <2>2. conf'[0][EXPROM] = conf[0][EXPROM]
    BY <2>1 DEF PciTypeOK
  <2> QED BY <1>3, <2>1, <2>2
<1> QED BY <1>2, <1>4, <1>5 DEF OutDword, PciStop, memoryVars, pciVars, reg

LEMMA RomStep ==
  ASSUME RomFollows, PciTypeOK, [Next]_vars
  PROVE  RomFollows'
<1>1. CASE UNCHANGED <<rom, conf>>
  BY <1>1 DEF RomFollows, RomType
<1>2. CASE MemoryStep
  BY <1>1, <1>2, RegisterKeepsRom
     DEF MemoryStep, sys_create, load_bios, map_ram, LoadFails, NoHardDisk,
         Mmio, MmioExit, handle_mmio, sys_run_vcpu, pciVars
<1>3. CASE CmosStep
  BY <1>1, <1>3 DEF CmosStep, CmosNext, SelectRegister, cmos_outb, cmos_inb,
                    CmosStop, memoryVars, pciVars
<1>4. CASE ParavirtStep
  BY <1>1, <1>4 DEF ParavirtStep, ParavirtNext, SelectItem, ReadReply,
                    ReadPastReply, OtherParavirtAccess, memoryVars, pciVars
<1>5. CASE PciStep
  <2>1. ASSUME NEW port \in DataPorts, NEW val \in Dwords, OutDword(port, val)
        PROVE  RomFollows'
    BY <2>1, DwordKeepsRom, PciAssumption
  <2> QED BY <1>1, <1>5, <2>1
          DEF PciStep, PciNext, PciAccess, OutAddress, OutIndex, OutShort,
              OtherAddressAccess, PciStop, memoryVars, pciVars
<1>6. CASE UNCHANGED vars
  BY <1>1, <1>6 DEF vars, memoryVars, pciVars
<1> QED BY <1>2, <1>3, <1>4, <1>5, <1>6 DEF Next

(* The mask of mmio.c sends every address of an aligned window to its base.*)
LEMMA MaskedWindow ==
  ASSUME NEW w \in Nat, w < FourGig, w % Window = 0, NEW a \in Nat,
         w <= a, a < w + Window
  PROVE  Masked(a) = w
<1>1. a < FourGig
  BY SMT
<1>2. a % FourGig = a
  BY <1>1, SMT
<1>3. a - (a % Window) = w
  BY SMT
<1> QED BY <1>2, <1>3 DEF Masked

(* The first device of the list is found where its base is.                *)
LEMMA FirstDevice ==
  ASSUME mmio = <<"pcirom", "gfxram">>, NEW a, Masked(a) = rom.base, rom.base # 0
  PROVE  getDevice(a) = "pcirom"
<1> DEFINE match == {i \in 1..Len(mmio) :
                      base(mmio[i]) # 0 /\ Masked(a) = base(mmio[i])}
<1>1. 1..Len(mmio) = {1, 2} /\ mmio[1] = "pcirom"
  OBVIOUS
<1>2. 1 \in match /\ match \subseteq {1, 2}
  BY <1>1 DEF base
<1> HIDE DEF match
<1>3. (CHOOSE i \in match : \A j \in match : i <= j) = 1
  <2>1. \A j \in match : 1 <= j
    BY <1>2
  <2>2. \A i \in match : (\A j \in match : i <= j) => i = 1
    BY <1>2
  <2> QED BY <1>2, <2>1, <2>2
<1> QED BY <1>1, <1>2, <1>3 DEF getDevice, match

(* Wherever the guest enables the expansion ROM, aligned and outside RAM,  *)
(* the ROM answers; and it never comes to lie at 0xC0000.                  *)
THEOREM RomWhereEnabled == Spec => []RomPlaced
<1>1. RomFollows /\ PciTypeOK /\ SlotLayout /\ WindowClear => RomPlaced
  <2> SUFFICES ASSUME RomFollows, PciTypeOK, SlotLayout, WindowClear, Running
               PROVE  RomPlaced
    BY DEF RomPlaced
  <2> DEFINE v == conf[0][EXPROM]
             window == v.addr..v.addr + Window - 1
  <2>1. SUFFICES ASSUME v.low = 1, v.addr % Window = 0,
                        \A s \in slots : \A a \in window : ~Covers(s, a),
                        NEW a \in window
                 PROVE  Answers(a) = "pcirom"
    BY DEF RomPlaced, RomFollows
  <2>2. v \in Dword
    BY DEF PciTypeOK
  <2>3. v.addr \in Nat /\ v.addr < FourGig
    BY <2>2, DwordAddress
  <2>4. PICK option \in {VgaBios, UpperRam} : slots = Final(option, ramsize)
    BY RunningLayout
  <2>5. v.addr \in window
    BY <2>3
  <2>6. v.addr # OptionRom
    <3>1. Covers(option, OptionRom) /\ option \in slots
      BY <2>4 DEF Final, Covers, VgaBios, UpperRam
    <3> QED BY <2>1, <2>5, <3>1
  <2>7. v.addr # 0
    <3>1. Covers(LowRam, 0) /\ LowRam \in slots
      BY <2>4 DEF Final, Covers, LowRam
    <3> QED BY <2>1, <2>5, <3>1
  <2>8. v.addr = rom.base
    BY <2>1, <2>6 DEF RomFollows
  <2>9. Masked(a) = rom.base
    BY <2>1, <2>3, <2>8, MaskedWindow
  <2>10. getDevice(a) = "pcirom"
    BY <2>7, <2>8, <2>9, FirstDevice DEF WindowClear, Running
  <2> QED BY <2>1, <2>10 DEF Answers
<1>2. Init => WindowClear
  BY DEF Init, MemoryInit, WindowClear
<1>3. PciTypeOK /\ Decoded /\ [Next]_vars => (PciTypeOK /\ Decoded)'
  BY PciStepOK
<1> QED BY <1>1, <1>2, <1>3, RomInit, RomStep, PciInitOK, LayoutInit, LayoutStep,
           WindowStepOK, PTL DEF Spec

-----------------------------------------------------------------------------
(* The clock.  bin2bcd keeps every number of two digits.                   *)
LEMMA BcdRoundTrip ==
  ASSUME NEW n \in 0..99
  PROVE  /\ FromBcd(bin2bcd(n)) = n
         /\ bin2bcd(n) \in Nat /\ (n <= 12 => bin2bcd(n) < 128)
  BY SMT DEF FromBcd, bin2bcd

LEMMA HourRoundTrip ==
  ASSUME NEW h \in 0..23
  PROVE  h = IF Hour(h) >= 128 THEN 12 + FromBcd(Hour(h) - 128)
                               ELSE FromBcd(Hour(h))
<1>1. CASE h > 12
  <2>1. h - 12 \in 0..99
    BY <1>1
  <2>2. Hour(h) = 128 + bin2bcd(h - 12)
    BY <1>1 DEF Hour
  <2>3. Hour(h) >= 128 /\ Hour(h) - 128 = bin2bcd(h - 12)
    BY <2>1, <2>2, BcdRoundTrip
  <2>4. FromBcd(Hour(h) - 128) = h - 12
    BY <2>1, <2>3, BcdRoundTrip
  <2> QED BY <2>3, <2>4
<1>2. CASE h <= 12
  <2>1. Hour(h) = bin2bcd(h) /\ h \in 0..99
    BY <1>2 DEF Hour
  <2>2. ~(Hour(h) >= 128) /\ FromBcd(Hour(h)) = h
    BY <1>2, <2>1, BcdRoundTrip
  <2> QED BY <2>2
<1> QED BY <1>1, <1>2

(* The local times that localtime() gives from 2000 to 2099.               *)
HostTime == [sec : 0..60, min : 0..59, hour : 0..23, mday : 1..31, mon : 0..11,
             year : 100..199]

(* The registers c, decoded, are the time t.                               *)
Tells(c, t) ==
  /\ FromBcd(c.sec) = t.sec /\ FromBcd(c.min) = t.min
  /\ t.hour = IF c.hour >= 128 THEN 12 + FromBcd(c.hour - 128)
                               ELSE FromBcd(c.hour)
  /\ FromBcd(c.mday) = t.mday /\ FromBcd(c.mon) = 1 + t.mon
  /\ FromBcd(c.year) = t.year - 100 /\ FromBcd(c.century) = 1

LEMMA ClockTells ==
  ASSUME NEW t \in HostTime
  PROVE  Tells(Clock(t), t)
<1>1. /\ t.sec \in 0..99 /\ t.min \in 0..99 /\ t.hour \in 0..23
      /\ t.mday \in 0..99 /\ t.mon + 1 \in 0..99 /\ t.mon + 1 = 1 + t.mon
      /\ t.year >= 100 /\ t.year - 100 \in 0..99 /\ 1 \in 0..99
  BY DEF HostTime
<1> DEFINE c == Clock(t)
<1>2. /\ c.sec = bin2bcd(t.sec) /\ c.min = bin2bcd(t.min)
      /\ c.hour = Hour(t.hour) /\ c.mday = bin2bcd(t.mday)
      /\ c.mon = bin2bcd(t.mon + 1)
  BY DEF Clock
<1>3. c.year = bin2bcd(t.year - 100) /\ c.century = bin2bcd(1)
  BY <1>1 DEF Clock
<1> HIDE DEF c
<1>4. /\ FromBcd(c.sec) = t.sec /\ FromBcd(c.min) = t.min
      /\ FromBcd(c.mday) = t.mday /\ FromBcd(c.mon) = 1 + t.mon
      /\ FromBcd(c.year) = t.year - 100 /\ FromBcd(c.century) = 1
  BY <1>1, <1>2, <1>3, BcdRoundTrip
<1>5. t.hour = IF c.hour >= 128 THEN 12 + FromBcd(c.hour - 128)
                                ELSE FromBcd(c.hour)
  BY <1>1, <1>2, HourRoundTrip
<1> QED BY <1>4, <1>5 DEF c, Tells

Decodes(n, c) ==
  /\ FromBcd(c.sec) = n % 60 /\ FromBcd(c.min) = n % 60
  /\ n % 24 = IF c.hour >= 128 THEN 12 + FromBcd(c.hour - 128)
                               ELSE FromBcd(c.hour)
  /\ FromBcd(c.mday) = 1 + (n % 31) /\ FromBcd(c.mon) = 1 + (n % 12)
  /\ FromBcd(c.year) = n /\ FromBcd(c.century) = 1

(* The clock registers tell every time of every day of this century, not   *)
(* only the hundred times that ClockDecodes looks at.                      *)
THEOREM ClockTellsTime ==
  /\ \A t \in HostTime : Tells(Clock(t), t)
  /\ Spec => []ClockDecodes
<1>1. ClockDecodes
  <2> DEFINE Time(n) == [sec |-> n % 60, min |-> n % 60, hour |-> n % 24,
                         mday |-> 1 + (n % 31), mon |-> n % 12,
                         year |-> 100 + n]
  <2>1. ASSUME NEW n \in 0..99
        PROVE  Time(n) \in HostTime
    BY SMT DEF HostTime
  <2>2. \A n \in 0..99 :
          /\ Time(n).sec = n % 60 /\ Time(n).min = n % 60
          /\ Time(n).hour = n % 24 /\ Time(n).mday = 1 + (n % 31)
          /\ Time(n).mon = n % 12 /\ Time(n).year - 100 = n
    BY SMT
  <2>3. SUFFICES \A n \in 0..99 : Decodes(n, Clock(Time(n)))
    BY DEF ClockDecodes, Decodes
  <2> HIDE DEF Time
  <2>4. \A n \in 0..99 : Tells(Clock(Time(n)), Time(n))
    BY <2>1, ClockTells
  <2>5. ASSUME NEW n \in 0..99, NEW c, NEW t, Tells(c, t),
               t.sec = n % 60, t.min = n % 60, t.hour = n % 24,
               t.mday = 1 + (n % 31), t.mon = n % 12, t.year - 100 = n
        PROVE  Decodes(n, c)
    BY <2>5, Zenon DEF Decodes, Tells
  <2> QED BY <2>2, <2>4, <2>5
<1>2. Spec => []ClockDecodes
  BY <1>1, PTL
<1> QED BY <1>2, ClockTells

-----------------------------------------------------------------------------
(* The types.  Each slot is one of the layout's; of a reply never more     *)
(* bytes are taken than the offset shows.                                  *)
LEMMA SlotTypes ==
  ASSUME SlotLayout, boot \in {"load_bios", "map_ram", "devices", "done"}
  PROVE  slots \subseteq Slot
<1>1. {BiosLow, BiosHigh, VgaBios, UpperRam, LowRam} \subseteq Slot
  BY SMT DEF Slot, Allocations, BiosLow, BiosHigh, VgaBios, UpperRam, LowRam
<1>2. ramsize \in Nat /\ ramsize >= 2 * Meg
  BY RamSizeOK DEF SlotLayout
<1>3. MainRam(ramsize) \in Slot
  BY <1>2, SMT DEF Slot, Allocations, MainRam
<1>4. ramsize > HoleStart + Meg => HighRam(ramsize) \in Slot
  BY <1>2, SMT DEF Slot, Allocations, HighRam
<1>5. \A option \in Slot : Final(option, ramsize) \subseteq Slot
  BY <1>1, <1>3, <1>4 DEF Final
<1> QED BY <1>1, <1>5 DEF SlotLayout

Stages == /\ run \in {"up", "aborted", "crashed", "stopped"}
          /\ boot \in {"load_bios", "map_ram", "devices", "done"}
          /\ mmio \in {<< >>, <<"pcirom", "gfxram">>}

OtherTypes == /\ Stages /\ CmosTypeOK
              /\ ParavirtTypeOK /\ taken <= off

LEMMA OtherTypesStep ==
  ASSUME OtherTypes, [Next]_vars
  PROVE  OtherTypes'
<1>1. CASE MemoryStep
  <2>1. UNCHANGED <<cmosVars, paravirtVars>>
    BY <1>1 DEF MemoryStep
  <2>2. Stages'
    BY <1>1
    DEF MemoryStep, sys_create, load_bios, map_ram, RegisterMmio, LoadFails,
        NoHardDisk, Mmio, MmioExit, handle_mmio, vgarom_bios, gfxram,
        sys_run_vcpu, OtherTypes, Stages
  <2> QED BY <2>1, <2>2 DEF OtherTypes, cmosVars, paravirtVars, CmosTypeOK,
                            ParavirtTypeOK
<1>2. CASE CmosStep
  <2>1. UNCHANGED paravirtVars
    BY <1>2 DEF CmosStep
  <2>2. UNCHANGED <<boot, mmio>> /\ run' \in {run, "aborted"}
    BY <1>2 DEF CmosStep, CmosNext, SelectRegister, cmos_outb, cmos_inb,
                CmosStop, memoryVars
  <2>3. CmosTypeOK'
    BY <1>2, CmosAssumption
    DEF CmosStep, CmosNext, SelectRegister, cmos_outb, cmos_inb, cmosVars,
        OtherTypes, CmosTypeOK
  <2> QED BY <2>1, <2>2, <2>3 DEF OtherTypes, Stages, paravirtVars,
                                  ParavirtTypeOK
<1>3. CASE ParavirtStep
  <2>1. UNCHANGED cmosVars
    BY <1>3 DEF ParavirtStep
  <2>2. UNCHANGED <<boot, mmio>> /\ run' \in {run, "aborted"}
    BY <1>3 DEF ParavirtStep, ParavirtNext, SelectItem, ReadReply,
                ReadPastReply, OtherParavirtAccess, memoryVars
  <2>3. (ParavirtTypeOK /\ taken <= off)'
    <3> USE ParavirtAssumption DEF OtherTypes, ParavirtTypeOK
    <3>1. ASSUME NEW i \in Items, SelectItem(i)
          PROVE  (ParavirtTypeOK /\ taken <= off)'
      BY <3>1 DEF SelectItem
    <3>2. CASE ReadReply
      BY <3>2 DEF ReadReply
    <3>3. CASE UNCHANGED paravirtVars
      BY <3>3 DEF paravirtVars
    <3> QED BY <1>3, <3>1, <3>2, <3>3
            DEF ParavirtStep, ParavirtNext, ReadPastReply, OtherParavirtAccess
  <2> QED BY <2>1, <2>2, <2>3 DEF OtherTypes, Stages, cmosVars, CmosTypeOK
<1>4. CASE PciStep
  <2>1. UNCHANGED <<cmosVars, paravirtVars>>
    BY <1>4 DEF PciStep
  <2>2. UNCHANGED <<boot, mmio>> /\ run' \in {run, "aborted"}
    BY <1>4 DEF PciStep, PciNext, PciAccess, OutAddress, OutIndex, OutDword, OutShort,
                OtherAddressAccess, PciStop, vgarom_writel, pciata_writel,
                memoryVars
  <2> QED BY <2>1, <2>2 DEF OtherTypes, Stages, cmosVars, paravirtVars,
                            CmosTypeOK, ParavirtTypeOK
<1>5. CASE UNCHANGED vars
  BY <1>5 DEF vars, memoryVars, cmosVars, paravirtVars, OtherTypes, Stages,
              CmosTypeOK, ParavirtTypeOK
<1> QED BY <1>1, <1>2, <1>3, <1>4, <1>5 DEF Next

(* Memory, CMOS, the paravirtual configuration and PCI keep their types,   *)
(* for every size of memory and all values the guest writes: the offset of *)
(* qemu_paravirt.c never passes the end of its buffer.                     *)
THEOREM TypeCorrect == Spec => []TypeOK
<1>1. Init => OtherTypes
  <2> SUFFICES ASSUME Init PROVE OtherTypes
    OBVIOUS
  <2>1. Stages
    BY DEF Init, MemoryInit, Stages
  <2>2. CmosTypeOK
    BY DEF Init, CmosInit, CmosTypeOK
  <2>3. ParavirtTypeOK /\ taken <= off
    BY ParavirtAssumption DEF Init, ParavirtInit, ParavirtTypeOK
  <2> QED BY <2>1, <2>2, <2>3 DEF OtherTypes
<1>2. OtherTypes /\ SlotLayout /\ RomFollows /\ PciTypeOK => TypeOK
  BY SlotTypes
  DEF OtherTypes, Stages, SlotLayout, RomFollows, RomType, TypeOK, MemoryTypeOK
<1>3. PciTypeOK /\ Decoded /\ [Next]_vars => (PciTypeOK /\ Decoded)'
  BY PciStepOK
<1> QED BY <1>1, <1>2, <1>3, OtherTypesStep, RomInit, RomStep, PciInitOK,
           LayoutInit, LayoutStep, PTL DEF Spec
=============================================================================

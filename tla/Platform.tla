----------------------------- MODULE Platform -----------------------------
(***************************************************************************)
(* What the firmware finds when the machine starts: guest memory, CMOS,    *)
(* the paravirtual configuration and PCI, accessed in any order by one     *)
(* VCPU.  The properties are about their agreement: what one part reports  *)
(* or configures, another one has to provide.                              *)
(***************************************************************************)
EXTENDS Cmos, QemuParavirt, PciRom

CONSTANT Addresses   \* the granules of guest memory that are accessed

vars == <<memoryVars, cmosVars, paravirtVars, pciVars>>

TypeOK == MemoryTypeOK /\ CmosTypeOK /\ ParavirtTypeOK /\ PciTypeOK

Init == MemoryInit /\ CmosInit /\ ParavirtInit /\ PciInit

(* sys_create runs to its end before the VCPU starts.                      *)
sys_create == load_bios \/ LoadFails \/ map_ram \/ RegisterMmio \/ NoHardDisk

Mmio == \E a \in Addresses, len \in {1, 8}, is_write \in BOOLEAN :
          MmioExit(a, len, is_write)

MemoryStep == /\ sys_create \/ Mmio \/ sys_run_vcpu
              /\ UNCHANGED <<cmosVars, paravirtVars, pciVars>>
CmosStep == CmosNext /\ UNCHANGED <<paravirtVars, pciVars>>
ParavirtStep == ParavirtNext /\ UNCHANGED <<cmosVars, pciVars>>
PciStep == PciNext /\ UNCHANGED <<cmosVars, paravirtVars>>

Next == MemoryStep \/ CmosStep \/ ParavirtStep \/ PciStep

Spec == Init /\ [][Next]_vars

-----------------------------------------------------------------------------
(* The video window, 0xA0000 to 0xBFFFF, is never backed by a slot, for    *)
(* any size of memory and whichever images could be loaded, so that it     *)
(* reaches the planes of vga/ram.c; only a guest that puts the ROM there   *)
(* hides it (x86_vga_rom_init registers the ROM first).                    *)
VideoWindowOpen ==
  Running => \A a \in VideoWindow..VideoWindow + Window - 1 :
    Answers(a) = IF rom.base = VideoWindow THEN "pcirom" ELSE "gfxram"

SlotsOf(mem) == {s \in slots : s.mem = mem}

(* The sizes of memory that the firmware puts together from the bytes of   *)
(* CMOS registers 0x34, 0x35 and 0x5B to 0x5D are those of the slots that  *)
(* map_ram made, also where the subtraction of 16 MB in cmos_inb wraps and *)
(* at the boundary where memory begins to need a second slot.              *)
MemorySizesAgree ==
  LET below == (16 * Meg + 4 * SizeByte(52) + 1024 * SizeByte(53)) % FourGig
      above == 4 * SizeByte(91) + 1024 * SizeByte(92) + FourGig * SizeByte(93)
  IN  Running => /\ \E s \in SlotsOf("ram") : s.base + s.size = below
                 /\ IF above = 0 THEN SlotsOf("high") = {}
                    ELSE \E s \in SlotsOf("high") :
                           s.base = FourGig /\ s.size = above

(* Every area that the E820 table of qemu_paravirt.c reports as RAM lies   *)
(* in a slot of RAM, and none reaches into the area it reserves.  The      *)
(* table is fixed, so this needs at least the 3584 MB it was written for.  *)
ReportedRamIsMapped ==
  Running /\ ramsize >= HoleStart =>
    /\ \A e \in E820Ram : \E s \in SlotsOf("low") \cup SlotsOf("ram") :
         s.base <= e.base /\ e.base + e.size <= s.base + s.size
    /\ \A s \in slots : Overlap(s, E820Reserved) => s.mem = "bios"

(* What a device writes through sys_getLowMem the guest finds at the same  *)
(* address: below 640 KB always, and at 0xC0000 as long as no VGA BIOS     *)
(* took that area before map_ram asked for it.                             *)
DmaReachesGuest ==
  Running =>
    \A a \in 0..VideoWindow - 1 \cup
             (IF SlotsOf("vgabios") = {} THEN OptionRom..BiosArea - 1 ELSE {}) :
      GuestMem(a) = {sys_getLowMem(a)}

(* Once the guest has enabled the expansion ROM at an address that is      *)
(* aligned to its size and free of slots, the ROM answers throughout that  *)
(* window, whatever else it wrote before; and the ROM never lies at        *)
(* 0xC0000, where vgarom_bios_writeb would let the guest change it.        *)
RomPlaced ==
  Running =>
    LET v == conf[0][EXPROM]
        window == v.addr..v.addr + Window - 1
    IN  /\ rom.base # OptionRom
        /\ v.low = 1 /\ v.addr % Window = 0
             /\ (\A s \in slots : \A a \in window : ~Covers(s, a))
           => \A a \in window : Answers(a) = "pcirom"

(* A configuration write changes only the device that has the number the   *)
(* guest wrote to 0xCF8, and only with the enable bit set there, although  *)
(* byte accesses rewrite parts of the address register and a dword written *)
(* below register 0 gives the ATA controller another number.  Nothing is   *)
(* said of buses from 16 on: the code drops the high bits (pci.c 139), and *)
(* a write to bus 16 does change the devices of bus 0.                     *)
ConfigOnlySelected ==
  [][\A d \in 0..1 : <<conf[d], number[d]>>' # <<conf[d], number[d]>> =>
       /\ asked.configspace = 1
       /\ asked.bus < 16 =>
            number[d] = [bus |-> asked.bus, dev |-> asked.dev, fn |-> asked.fn]]_vars

(* The bytes read after an item was selected are those of the item, from   *)
(* its first to its last, whatever was selected and read before.  The NUMA *)
(* item is the exception: it leaves the offset where it was.               *)
ReplyFromStart ==
  chosen \notin {"none", "numa"} /\ taken < ReplyLen[chosen] =>
    off = taken /\ buff[off] = chosen

FromBcd(b) == 10 * (b \div 16) + (b % 16)

(* The clock registers tell the host's time: BCD, and twelve hours with a  *)
(* flag from one in the afternoon on (noon, like midnight, is without it), *)
(* over every value a register can have.                                   *)
ClockDecodes ==
  boot = "load_bios" => \A n \in 0..99 :
    LET t == Clock([sec |-> n % 60, min |-> n % 60, hour |-> n % 24,
                    mday |-> 1 + (n % 31), mon |-> n % 12, year |-> 100 + n])
    IN  /\ FromBcd(t.sec) = n % 60 /\ FromBcd(t.min) = n % 60
        /\ n % 24 = IF t.hour >= 128 THEN 12 + FromBcd(t.hour - 128)
                                     ELSE FromBcd(t.hour)
        /\ FromBcd(t.mday) = 1 + (n % 31) /\ FromBcd(t.mon) = 1 + (n % 12)
        /\ FromBcd(t.year) = n /\ FromBcd(t.century) = 1
=============================================================================

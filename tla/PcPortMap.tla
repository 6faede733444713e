----------------------------- MODULE PcPortMap -----------------------------
(***************************************************************************)
(* The port map of the assembled machine: the handlers that                *)
(* devices_register_all (src/devices/devices.c) registers, in its order    *)
(* and with the bases and masks of the devices' init functions, on the     *)
(* dispatcher of PortBus.  A handler's ports are those p with              *)
(* (p & mask) == base.                                                     *)
(***************************************************************************)
EXTENDS Integers, Sequences

CONSTANT Ports   \* the port addresses considered

ASSUME PortsAssumption == \A p \in Ports : p \in Nat /\ p < 65536   \* uint16

VARIABLES iohandler, run, last, claimed,
          booted   \* how many handlers have been registered

B == {"inb", "outb"}
BW == B \cup {"inw", "outw"}
BWL == BW \cup {"inl", "outl"}

(* The test of lookup_handler, (address & mask) == base, bit by bit.       *)
Bits == {1, 2, 4, 8, 16, 32, 64, 128, 256, 512, 1024, 2048, 4096, 8192,
         16384, 32768}
Bit(n, b) == (n \div b) % 2
Selects(base, mask, p) ==
  \A b \in Bits : Bit(base, b) = IF Bit(mask, b) = 1 THEN Bit(p, b) ELSE 0

handler(dev, base, mask, ops) ==
  [dev |-> dev, ports |-> {p \in Ports : Selects(base, mask, p)}, ops |-> ops]

cmos == handler("cmos", \h70, \hFE, B)
ps2_pos == handler("ps2_pos", \h90, \hFFF8, B)
bios_debug == handler("bios_debug", \h402, \hFFFF, B)
dma0 == handler("dma0", \h00, \hFFF0, B)
dma1 == handler("dma1", \hC0, \hFFE0, B)
dma_page == handler("dma_page", \h80, \hFFF0, B)
pci == handler("pci", \hCF8, \hFFF8, BWL)
qemu_paravirt == handler("qemu_paravirt", \h510, \hFFFE, BWL)
keyboard == handler("keyboard", \h60, \hFFF8, BWL)
parallel(base) == handler("parallel", base, \hFFFC, BWL)
serial(base) == handler("serial", base, \hFFF8, BWL)
vga(base) == handler("vga", base, \hFFF0, BWL)
vga_debug == handler("vga_debug", \h500, \hFFFF, B)
vbe == handler("vbe", \h1CE, \hFFFE, BW)
floppy == handler("floppy", \h3F0, \hFFF8, B)
ata == handler("ata", \h1F0, \hFDF8, BW)

(* Mutant: the disk comes before the floppy, whose ports its mask covers.  *)
AtaFirst ==
  << ata, cmos, ps2_pos, bios_debug, dma0, dma1, dma_page, pci, qemu_paravirt,
     keyboard, parallel(\h378), parallel(\h278), serial(\h3F8), serial(\h2F8),
     serial(\h3E8), serial(\h2E8), vga(\h3C0), vga(\h3D0), vga_debug, vbe,
     floppy >>

(* The handlers in the order in which the init functions register them.    *)
devices_register_all ==
  << cmos, ps2_pos, bios_debug, dma0, dma1, dma_page, pci, qemu_paravirt,
     keyboard, parallel(\h378), parallel(\h278), serial(\h3F8), serial(\h2F8),
     serial(\h3E8), serial(\h2E8), vga(\h3C0), vga(\h3D0), vga_debug, vbe,
     floppy, ata >>

Bus == INSTANCE PortBus WITH
  MaxHandlers <- 128,
  Handlers <- {devices_register_all[i] : i \in 1..Len(devices_register_all)}

vars == <<iohandler, run, last, claimed, booted>>

Init == Bus!Init /\ booted = 0

(* sys_create runs the device list to its end before the VCPU starts.      *)
Boot == /\ booted < Len(devices_register_all)
        /\ Bus!io_register_handler(devices_register_all[booted + 1])
        /\ booted' = booted + 1

(* One access is enough: it leaves the table as it was.                    *)
Guest == /\ booted = Len(devices_register_all) /\ last = Bus!NoAccess
         /\ \E p \in Ports, op \in Bus!Ops : Bus!Access(p, op)
         /\ UNCHANGED booted

Next == Boot \/ Guest
Spec == Init /\ [][Next]_vars

-----------------------------------------------------------------------------
(* The ports that the handlers of each device have code for, and the two   *)
(* of them that their handlers cannot be given: vgareg_inb answers 0x3B4,  *)
(* which lies in neither of its ranges, and pio_inb and pio_outb have the  *)
(* ATA control block at 0x1F0 + 0x206, in the range of the floppy.         *)
Implemented ==
  [cmos |-> {\h70, \h71}, ps2_pos |-> {\h92}, bios_debug |-> {\h402},
   dma0 |-> 0..\h8 \cup \hA..\hD, dma1 |-> \hC0..\hD1 \cup \hD4..\hDB,
   dma_page |-> \h80..\h8F, pci |-> \hCF8..\hCFF,
   qemu_paravirt |-> {\h510, \h511}, keyboard |-> {\h60, \h64},
   parallel |-> \h378..\h37B \cup \h278..\h27B,
   serial |-> UNION {b..b + 7 : b \in {\h3F8, \h2F8, \h3E8, \h2E8}},
   vga |-> (\h3C0..\h3CF \ {\h3C3, \h3CB, \h3CD})
             \cup {\h3B4, \h3D3, \h3D4, \h3D5, \h3D8, \h3DA},
   vga_debug |-> {\h500}, vbe |-> {\h1CE, \h1CF},
   floppy |-> {\h3F2, \h3F4, \h3F5, \h3F7}, ata |-> \h1F0..\h1F7 \cup {\h3F6}]

Unreached == {<<"vga", \h3B4>>, <<"ata", \h3F6>>}

Serves(dev, p) == LET slot == Bus!lookup_handler(p)
                  IN  slot # 0 /\ iohandler[slot].dev = dev

(* In the booted machine a port that a device implements reaches that      *)
(* device, but for the two that are Unreached: every handler has a place   *)
(* in the table, and no handler registered before it claims the port,      *)
(* neither CMOS, whose mask 0xFE ignores the high byte of the address, nor *)
(* another one with a wide mask.                                           *)
DevicesReached ==
  booted = Len(devices_register_all) =>
    \A dev \in DOMAIN Implemented : \A p \in Implemented[dev] \cap Ports :
      Serves(dev, p) <=> <<dev, p>> \notin Unreached

(* A port that a device's callbacks have code for reaches it, without      *)
(* exception: vgareg_inb answers the "CRTC Address register" at 0x3B4      *)
(* (registers.c 104), and the ATA controller has its alternate status and  *)
(* device control register at 0x1F0 + 0x206 (ata_internal.h 3-4).          *)
ImplementedReached ==
  booted = Len(devices_register_all) =>
    \A dev \in DOMAIN Implemented : \A p \in Implemented[dev] \cap Ports :
      Serves(dev, p)
=============================================================================

---------------------------- MODULE GuestMemory ----------------------------
(***************************************************************************)
(* Guest-physical memory: the slots that sys_create (src/system.c) gives   *)
(* to KVM, in its order, and the list of memory-mapped devices behind them *)
(* (src/mmio.c).  KVM serves an access from the slot that holds its        *)
(* address; an access outside every slot leaves the guest and goes to      *)
(* handle_mmio.                                                            *)
(*                                                                         *)
(* Addresses and sizes are in granules of 16 KB, the largest unit that     *)
(* divides every address of the map.  What memory holds is left out: a     *)
(* granule of it is named by the allocation it lies in and its offset.     *)
(***************************************************************************)
EXTENDS Integers, Sequences

CONSTANT RamSizes   \* the values of uNumMegsRAM considered, in megabytes

ASSUME RamAssumption == RamSizes \subseteq Nat \ {0, 1}

VARIABLES run,       \* "up", "aborted" (ASSERT), "crashed", "stopped" (main ends)
          boot,      \* what sys_create does next
          ramsize,   \* pCtx->ramsize
          slots,     \* the slots KVM has accepted
          mmio,      \* the registered devices, in order
          rom        \* vga/rom.c: has pROMData been loaded, where is pcirom

memoryVars == <<run, boot, ramsize, slots, mmio, rom>>

Meg == 64                  \* 0x100000
VideoWindow == 40          \* 0xA0000
OptionRom == 48            \* 0xC0000
BiosArea == 56             \* 0xE0000
Window == 8                \* 0x20000, the size of each of these areas
HoleStart == 229376        \* 0xE0000000
FourGig == 262144          \* 0x100000000
BiosShadow == 262136       \* 0xFFFE0000
RomAtReset == 261800       \* 0xFFAA0000

Allocations == {"bios", "vgabios", "low", "upper", "ram", "high"}
Slot == [base : Nat, size : Nat, mem : Allocations]
Covers(s, a) == s.base <= a /\ a < s.base + s.size
Overlap(s, t) == s.base < t.base + t.size /\ t.base < s.base + s.size

MemoryTypeOK ==
  /\ run \in {"up", "aborted", "crashed", "stopped"}
  /\ boot \in {"load_bios", "map_ram", "devices", "done"}
  /\ ramsize \in {Meg * m : m \in RamSizes}
  /\ slots \subseteq Slot
  /\ mmio \in {<< >>, <<"pcirom", "gfxram">>}
  /\ rom \in [loaded : BOOLEAN, base : Nat]

(* ramsize is set by map_ram; nothing reads it before.                     *)
MemoryInit ==
  /\ run = "up" /\ boot = "load_bios"
  /\ ramsize \in {Meg * m : m \in RamSizes}
  /\ slots = {} /\ mmio = << >>
  /\ rom = [loaded |-> FALSE, base |-> RomAtReset]

-----------------------------------------------------------------------------
(* KVM_SET_USER_MEMORY_REGION refuses an empty slot and one that overlaps  *)
(* another; slot numbers are never reused.                                 *)
Accepts(S, s) == s.size > 0 /\ \A t \in S : ~Overlap(s, t)

(* sys_map reports a refusal, and every caller ignores the report.         *)
sys_map(S, daddr, saddr, size) ==
  LET s == [base |-> daddr, size |-> size, mem |-> saddr]
  IN  IF Accepts(S, s) THEN S \cup {s} ELSE S

(* load_bios: the image at its legacy and at its shadow location, then     *)
(* the VGA BIOS if its file is there.                                      *)
BiosSlots == sys_map(sys_map({}, BiosArea, "bios", Window),
                     BiosShadow, "bios", Window)
load_bios_vga(S) == {S, sys_map(S, OptionRom, "vgabios", Window)}

load_bios ==
  /\ run = "up" /\ boot = "load_bios"
  /\ slots' \in load_bios_vga(BiosSlots)
  /\ boot' = "map_ram"
  /\ UNCHANGED <<run, ramsize, mmio, rom>>

(* seabios.rom cannot be opened, and main ASSERTs that there is a system;  *)
(* or one of the images is larger than its area.                           *)
LoadFails ==
  /\ run = "up" /\ boot = "load_bios"
  /\ run' = "aborted"
  /\ UNCHANGED <<boot, ramsize, slots, mmio, rom>>

(* Mutant: conventional memory does not stop at the video window.          *)
LowToOptionRom(S, end) ==
  sys_map(sys_map(S, 0, "low", OptionRom), Meg, "ram",
          (IF end <= HoleStart THEN end ELSE HoleStart) - Meg)

(* Mutant: all of the memory above the first megabyte in one slot.         *)
NoHole(S, end) ==
  sys_map(sys_map(sys_map(S, 0, "low", VideoWindow),
                  OptionRom, "upper", Window), Meg, "ram", end - Meg)

(* The slots of map_ram, in its order, on top of S.                        *)
RamSlots(S, end) ==
  LET low == sys_map(sys_map(S, 0, "low", VideoWindow),
                     OptionRom, "upper", Window)
  IN  IF end <= HoleStart
      THEN sys_map(low, Meg, "ram", end - Meg)
      ELSE sys_map(sys_map(low, Meg, "ram", HoleStart - Meg),
                   FourGig, "high", end - HoleStart - Meg)

map_ram ==
  /\ run = "up" /\ boot = "map_ram"
  /\ slots' = RamSlots(slots, ramsize)
  /\ boot' = "devices"
  /\ UNCHANGED <<run, ramsize, mmio, rom>>

(* x86_vga_rom_init, which opens vgabios.rom a second time and goes on     *)
(* without it, and x86_vga_ram_init.  hdd.img must be there for ATA.       *)
RegisterMmio ==
  /\ run = "up" /\ boot = "devices"
  /\ \E opened \in BOOLEAN : rom' = [rom EXCEPT !.loaded = opened]
  /\ mmio' = <<"pcirom", "gfxram">>
  /\ boot' = "done"
  /\ UNCHANGED <<run, ramsize, slots>>

NoHardDisk ==
  /\ run = "up" /\ boot = "devices"
  /\ run' = "aborted"
  /\ UNCHANGED <<boot, ramsize, slots, mmio, rom>>

Running == run = "up" /\ boot = "done"

-----------------------------------------------------------------------------
(* mmio.c.  Both devices have the mask ~0x1FFFF, of 32 bits: it drops the  *)
(* upper half of an address, and so a device answers again from 4 GB on.   *)
base(dev) == IF dev = "pcirom" THEN rom.base ELSE VideoWindow
Masked(a) == (a % FourGig) - (a % Window)

getDevice(a) ==
  LET match == {i \in 1..Len(mmio) :
                  base(mmio[i]) # 0 /\ Masked(a) = base(mmio[i])}
  IN  IF match = {} THEN "none"
      ELSE mmio[CHOOSE i \in match : \A j \in match : i <= j]

(* Who answers an access to a: the allocation of a slot, or a device.      *)
Answers(a) ==
  IF \E s \in slots : Covers(s, a)
  THEN (CHOOSE s \in slots : Covers(s, a)).mem
  ELSE getDevice(a)

(* The ROM has no 8-byte callbacks.                                        *)
Widths(dev) == IF dev = "pcirom" THEN {1, 2, 4} ELSE {1, 2, 4, 8}

(* The outcomes of a device's callbacks, which subtract the base from the  *)
(* whole address: from 4 GB on they leave their buffers.  Reads of the ROM *)
(* use pROMData; its writes are dropped, for pcirom.base is never 0xC0000. *)
(* What the planes hold is in module Vga.                                  *)
vgarom_bios(a, is_write) ==
  CASE is_write -> {"up"}
    [] a >= FourGig -> {"up", "crashed"}
    [] OTHER -> IF rom.loaded THEN {"up"} ELSE {"crashed"}
gfxram(a) == IF a >= FourGig THEN {"up", "crashed"} ELSE {"up"}

handle_mmio(a, len, is_write) ==
  LET dev == getDevice(a) IN
  /\ run' \in CASE dev = "none" \/ len \notin Widths(dev) -> {"aborted"}
                [] dev = "pcirom" -> vgarom_bios(a, is_write)
                [] OTHER -> gfxram(a)
  /\ UNCHANGED <<boot, ramsize, slots, mmio, rom>>

(* An access of the guest that no slot serves.                             *)
MmioExit(a, len, is_write) ==
  /\ Running /\ \A s \in slots : ~Covers(s, a)
  /\ handle_mmio(a, len, is_write)

(* sys_run_vcpu leaves its loop, and main ends, when KVM_RUN fails, be it  *)
(* for a signal; every exit but those for I/O and MMIO is an ASSERT.       *)
sys_run_vcpu ==
  /\ Running
  /\ run' \in {"stopped", "aborted"}
  /\ UNCHANGED <<boot, ramsize, slots, mmio, rom>>

(* Mutant: the second block is taken to follow the first one.              *)
LowMemFollows(a) ==
  IF a < VideoWindow THEN [mem |-> "low", off |-> a]
                     ELSE [mem |-> "upper", off |-> a - VideoWindow]

(* sys_getLowMem: the host memory a device uses for a guest address below  *)
(* one megabyte.                                                           *)
sys_getLowMem(a) ==
  IF a < VideoWindow THEN [mem |-> "low", off |-> a]
                     ELSE [mem |-> "upper", off |-> a - OptionRom]

(* The host memory the guest itself uses for address a, when there is any. *)
GuestMem(a) == {[mem |-> s.mem, off |-> a - s.base] :
                  s \in {t \in slots : Covers(t, a)}}
=============================================================================

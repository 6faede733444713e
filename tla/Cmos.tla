------------------------------- MODULE Cmos -------------------------------
(***************************************************************************)
(* The CMOS memory and clock of src/devices/x86/cmos.c: a register number  *)
(* written to port 0x70 selects what the data port 0x71 accesses.  The     *)
(* firmware reads the size of memory here, a byte at a time.               *)
(***************************************************************************)
EXTENDS GuestMemory

CONSTANTS CmosIndices,   \* values the guest writes to port 0x70
          CmosBytes      \* values it writes to port 0x71

ASSUME CmosAssumption == CmosIndices \subseteq 0..255 /\ CmosBytes \subseteq 0..255

VARIABLES indexreg, statusC, resetcode

cmosVars == <<indexreg, statusC, resetcode>>

CmosTypeOK == /\ indexreg \in 0..127
              /\ statusC \in {0} \cup CmosBytes
              /\ resetcode \in {0} \cup CmosBytes

CmosInit == indexreg = 0 /\ statusC = 0 /\ resetcode = 0

-----------------------------------------------------------------------------
(* statusB is 0 from x86_cmos_init on: a write of register 0x0B goes to    *)
(* statusC.  So the clock counts in BCD and in twelve hours.               *)
bin2bcd(val) == ((val \div 10) * 16) + (val % 10)

(* Mutant: the hour after noon is not reduced before it is converted.      *)
HourUnreduced(hour) ==
  IF hour > 12 THEN 128 + bin2bcd(hour) ELSE bin2bcd(hour)

Hour(hour) == IF hour > 12 THEN 128 + bin2bcd(hour - 12) ELSE bin2bcd(hour)

(* The clock registers, of the host's local time t.                        *)
Clock(t) ==
  [sec |-> bin2bcd(t.sec), min |-> bin2bcd(t.min), hour |-> Hour(t.hour),
   mday |-> bin2bcd(t.mday), mon |-> bin2bcd(t.mon + 1),
   year |-> bin2bcd(IF t.year >= 100 THEN t.year - 100 ELSE t.year),
   century |-> bin2bcd(IF t.year >= 100 THEN 1 ELSE 0)]

(* The byte of x that begins at a given bit, where unit is the number of   *)
(* granules that bit stands for.  x may have wrapped below zero.           *)
Byte(x, unit) == (x \div unit) % 256

(* Memory from 16 MB up to the hole, and memory above 4 GB.                *)
ExtMem == (IF ramsize > HoleStart THEN HoleStart ELSE ramsize) - 16 * Meg

(* Mutant: the megabyte that the two mappings lose is still counted.       *)
HighMemAll == IF ramsize <= HoleStart THEN 0 ELSE ramsize - HoleStart

HighMem == IF ramsize <= HoleStart THEN 0 ELSE ramsize - HoleStart - Meg

(* The registers that tell the size of memory: 0x34 and 0x35 in units of   *)
(* 64 KB and 16 MB, 0x5B to 0x5D in units of 64 KB, 16 MB and 4 GB, 0x30   *)
(* and 0x31 in kilobytes, truncated to sixteen bits.                       *)
SizeByte(i) ==
  CASE i = 48 -> (16 * ExtMem) % 256   [] i = 49 -> Byte(ExtMem, 16)
    [] i = 52 -> Byte(ExtMem, 4)       [] i = 53 -> Byte(ExtMem, 1024)
    [] i = 91 -> Byte(HighMem, 4)      [] i = 92 -> Byte(HighMem, 1024)
    [] i = 93 -> Byte(HighMem, FourGig)

(* The other registers that can be read: clock and alarms (0-5, 7-9, 0x32),*)
(* the status registers and the reset code (0x0A-0x0F), and settings.      *)
Readable == 0..5 \cup 7..13 \cup {15, 16, 18, 19, 23, 24, 48, 49, 50, 52, 53,
                                   56, 57, 61, 91, 92, 93, 95}

(* Registers whose writes are dropped.                                     *)
Dropped == {0, 2, 4, 7, 8, 9, 23, 50}

(* cmos_outb to port 0x70: the top bit only masks the NMI.                 *)
SelectRegister(val) ==
  /\ Running
  /\ indexreg' = val % 128
  /\ UNCHANGED <<memoryVars, statusC, resetcode>>

CmosStop == run' = "aborted" /\ UNCHANGED <<boot, ramsize, slots, mmio, rom>>

(* Register 0x0A takes one rate (bits 0-3) and one divider (bits 4-6).     *)
Accepted(val) == indexreg \in Dropped \/ (indexreg = 10 /\ val % 128 = 38)

(* cmos_outb to port 0x71.                                                 *)
cmos_outb(val) ==
  /\ Running
  /\ \/ /\ indexreg = 11
        /\ statusC' = val /\ UNCHANGED <<memoryVars, indexreg, resetcode>>
     \/ /\ indexreg = 15
        /\ resetcode' = val /\ UNCHANGED <<memoryVars, indexreg, statusC>>
     \/ /\ Accepted(val)
        /\ UNCHANGED <<memoryVars, cmosVars>>
     \/ /\ indexreg \notin {11, 15} /\ ~Accepted(val)
        /\ CmosStop /\ UNCHANGED cmosVars

(* cmos_inb changes nothing, but not every register can be read.  Port     *)
(* 0x70 reads the selected register too: the test for it compares an       *)
(* offset with 0x70.                                                       *)
cmos_inb ==
  /\ Running
  /\ IF indexreg \in Readable THEN UNCHANGED memoryVars ELSE CmosStop
  /\ UNCHANGED cmosVars

CmosNext == \/ \E val \in CmosIndices : SelectRegister(val)
            \/ \E val \in CmosBytes : cmos_outb(val)
            \/ cmos_inb
=============================================================================

------------------------------- MODULE Floppy -------------------------------
(***************************************************************************)
(* The floppy controller of src/devices/x86/floppy.c and its DMA channel.  *)
(* Sector k of floppy.img is named by its number k, so data is a sequence  *)
(* of sector numbers.  ST0-ST2 are never set and read as 0; DOR, CCR and   *)
(* DSR decide nothing.                                                     *)
(*                                                                         *)
(* The driver follows the main status register: it writes the FIFO when    *)
(* RQM is set and DIO clear, reads it when both are set, and asks with     *)
(* SENSE INTERRUPT after a reset, a seek or a recalibration.  It accesses  *)
(* DMA registers in pairs, and may reset the controller at any time.       *)
(***************************************************************************)
EXTENDS I8237, FiniteSets

CONSTANTS SectorsPerTrack,   \* 18
          ImageSectors,      \* sectors of floppy.img: 2880
          BufferSectors,     \* sectors of the DMA buffer: 128
          Cylinders, Sectors,\* cylinder and sector numbers the driver uses
          EndOfTrack         \* its values for byte 6 of READ DATA

ASSUME FloppyAssumption ==
  /\ SectorsPerTrack \in Nat /\ ImageSectors \in Nat /\ BufferSectors \in Nat
  /\ Cylinders \subseteq 0..255 /\ EndOfTrack \subseteq 0..255
  /\ Sectors \subseteq 1..SectorsPerTrack /\ SectorsPerTrack <= 255

VARIABLES msr, fifo, fifondx, fifolen,
          cyl, head,     \* pos; pos.sect is always 1
          image,         \* floppy.img could be opened
          pDMABuffer,    \* the sectors last read, or whatever malloc found
          irq6, run,
          unsensed,      \* history: an interrupt SENSE INTERRUPT must clear
          missed,        \* history: a command completed without an edge
          copied         \* history: what the last READ DATA put in memory

fdc == <<msr, fifo, fifondx, fifolen, cyl, head, image, pDMABuffer>>
floppyVars == <<fdc, irq6, run, unsensed, missed, copied>>
vars == <<floppyVars, dmaVars>>

READ_DATA == 6
RECALIBRATE == 7
SENSE_INTERRUPT == 8
READ_ID == 10
SEEK == 15
Opcodes == {READ_DATA, RECALIBRATE, SENSE_INTERRUPT, READ_ID, SEEK}

(* Bytes of a command, its first included.                                 *)
Length == [op \in Opcodes |-> CASE op = READ_DATA -> 9
                                [] op = RECALIBRATE -> 2
                                [] op = SENSE_INTERRUPT -> 1
                                [] op = READ_ID -> 2
                                [] op = SEEK -> 3]

(* The values the driver sends as byte i of command op.                    *)
Parameters(op, i) ==
  CASE op = READ_DATA /\ i = 2 -> Cylinders
    [] op = READ_DATA /\ i = 3 -> {0, 1}
    [] op = READ_DATA /\ i = 4 -> Sectors
    [] op = READ_DATA /\ i = 6 -> EndOfTrack
    [] op = SEEK /\ i = 1 -> {0, 4}
    [] op = SEEK /\ i = 2 -> Cylinders
    [] OTHER -> {0}

Junk == -1
Nothing == [at |-> 0, bytes |-> 0, data |-> << >>]
Idle == {"RQM", "NDMA"}      \* 0xA0
Result == {"RQM", "DIO"}
Buffer == 0..BufferSectors - 1

TypeOK ==
  /\ DmaTypeOK
  /\ msr \subseteq {"RQM", "DIO", "NDMA", "CB"}
  /\ fifo \in [0..8 -> 0..255] /\ fifondx \in 0..9 /\ fifolen \in 0..9
  /\ cyl \in 0..255 /\ head \in 0..63
  /\ image \in BOOLEAN
  /\ pDMABuffer \in [Buffer -> {Junk} \cup 0..ImageSectors - 1]
  /\ irq6 \in BOOLEAN /\ run \in {"up", "aborted", "crashed"}
  /\ unsensed \in BOOLEAN /\ missed \in BOOLEAN

(* x86_floppy_init; nothing tests whether fopen found the image.           *)
Init ==
  /\ DmaInit
  /\ msr = {"RQM"} /\ fifo = [i \in 0..8 |-> 0] /\ fifondx = 0 /\ fifolen = 0
  /\ cyl = 0 /\ head = 0
  /\ image \in BOOLEAN /\ pDMABuffer = [k \in Buffer |-> Junk]
  /\ irq6 = FALSE /\ run = "up"
  /\ unsensed = FALSE /\ missed = FALSE /\ copied = Nothing

-----------------------------------------------------------------------------
(* Mutant: sectors are taken to count from zero.                           *)
SectorsFromZero(c, h, s) ==
  SectorsPerTrack * 2 * c + h * SectorsPerTrack + s

chs_to_lba(c, h, s) == SectorsPerTrack * 2 * c + h * SectorsPerTrack + s - 1

(* fread stops at the end of the file and leaves the rest of the buffer;   *)
(* a longer read than the buffer has room for would write beyond it.       *)
fread(lba, n) ==
  LET read == {k \in 0..n - 1 : lba + k < ImageSectors}
  IN  [k \in Buffer \cup read |-> IF k \in read THEN lba + k
                                 ELSE pDMABuffer[k]]

(* irq_set(6,1) at the end of a command: an edge only if the line was low. *)
Notify == irq6' = TRUE /\ missed' = (missed \/ irq6)

(* Bytes of the FIFO that will be written before they are read again are   *)
(* forgotten.                                                              *)
Empty == [i \in 0..8 |-> 0]

(* A result phase: f holds the result bytes.                               *)
Results(f, n) == /\ msr' = Result /\ fifo' = f /\ fifondx' = 0 /\ fifolen' = n

(* ST0-ST2, the position, sector 1 and the code of 512-byte sectors.       *)
PositionResult(c, h) ==
  Results([Empty EXCEPT ![3] = c, ![4] = h, ![5] = 1, ![6] = 2], 7)

(* dma_transfer_from_device: the count register decides how much of the    *)
(* buffer is copied, not the length of the read.                           *)
dma_transfer_from_device ==
  copied' = [at |-> Destination(regs), bytes |-> TransferBytes(regs),
             data |-> pDMABuffer']

(* Mutant: the length of the read is not compared with the buffer's.       *)
ReadAnyLength(f) ==
  /\ image /\ Destination(regs) < 655360
  /\ cyl' = f[2] /\ head' = f[3]
  /\ pDMABuffer' = fread(chs_to_lba(f[2], f[3], f[4]), f[6])
  /\ dma_transfer_from_device
  /\ PositionResult(f[2], f[3])
  /\ Notify
  /\ UNCHANGED <<image, run, unsensed>>

(* READ DATA beyond the tests of its length, of the image (a NULL FILE is  *)
(* dereferenced) and of sys_getLowMem.  Byte 6 is taken as the number of   *)
(* sectors.                                                                *)
ReadData(f) ==
  /\ f[6] <= BufferSectors /\ image /\ Destination(regs) < 655360
  /\ cyl' = f[2] /\ head' = f[3]
  /\ pDMABuffer' = fread(chs_to_lba(f[2], f[3], f[4]), f[6])
  /\ dma_transfer_from_device
  /\ PositionResult(f[2], f[3])
  /\ Notify
  /\ UNCHANGED <<image, run, unsensed>>

ReadDataFails(f) ==
  /\ run' = IF f[6] <= BufferSectors /\ ~image THEN "crashed" ELSE "aborted"
  /\ f[6] <= BufferSectors /\ image => Destination(regs) >= 1048576
  /\ UNCHANGED <<fdc, irq6, unsensed, missed, copied>>

Recalibrate ==
  /\ cyl' = 0
  /\ msr' = {"RQM"} /\ fifo' = Empty /\ fifondx' = 0 /\ fifolen' = 1
  /\ irq6' = TRUE /\ unsensed' = TRUE      \* lowered first: always an edge
  /\ UNCHANGED <<head, image, pDMABuffer, run, missed, copied>>

SenseInterrupt ==
  /\ Results([Empty EXCEPT ![1] = cyl], 2)
  /\ irq6' = FALSE /\ unsensed' = FALSE
  /\ UNCHANGED <<cyl, head, image, pDMABuffer, run, missed, copied>>

ReadId ==
  /\ PositionResult(cyl, head)
  /\ Notify
  /\ UNCHANGED <<cyl, head, image, pDMABuffer, run, unsensed, copied>>

Seek(f) ==
  /\ head' = f[1] \div 4 /\ cyl' = f[2]
  /\ msr' = Idle /\ fifo' = Empty /\ fifondx' = 0 /\ fifolen' = 0
  /\ Notify /\ unsensed' = TRUE
  /\ UNCHANGED <<image, pDMABuffer, run, copied>>

doExecuteCommand(f) ==
  \/ f[0] = READ_DATA /\ (ReadData(f) \/ ReadDataFails(f))
  \/ f[0] = RECALIBRATE /\ Recalibrate
  \/ f[0] = SENSE_INTERRUPT /\ SenseInterrupt
  \/ f[0] = READ_ID /\ ReadId
  \/ f[0] = SEEK /\ Seek(f)

-----------------------------------------------------------------------------
(* floppy_outb to the FIFO: byte number fifondx of a command of len bytes. *)
Store(val, len, flags) ==
  LET f == [fifo EXCEPT ![fifondx] = val]
  IN  \/ fifondx + 1 >= len /\ doExecuteCommand(f)
      \/ /\ fifondx + 1 < len
         /\ fifo' = f /\ fifondx' = fifondx + 1
         /\ fifolen' = len /\ msr' = flags
         /\ UNCHANGED <<cyl, head, image, pDMABuffer, irq6, run, unsensed,
                        missed, copied>>

MayWrite == run = "up" /\ "RQM" \in msr /\ "DIO" \notin msr

OutCommand(op) ==
  /\ MayWrite /\ fifondx = 0
  /\ unsensed => op = SENSE_INTERRUPT
  /\ Store(op, Length[op], msr \cup {"CB"})
  /\ UNCHANGED dmaVars

(* The ASSERTs: an unknown command, or a port that has no code.            *)
UnhandledAccess ==
  /\ run = "up" /\ run' = "aborted"
  /\ UNCHANGED <<fdc, irq6, unsensed, missed, copied, dmaVars>>

(* What the driver sees to before the last byte of READ DATA: the DMA      *)
(* pairs are complete, the buffer is in RAM, and byte 6 names the last     *)
(* sector that the count reaches.                                          *)
BufferInRam == Destination(sent) \notin 655360..1048575
DmaReady ==
  /\ PairsComplete(0) /\ BufferInRam
  /\ TransferBytes(sent) <= 512 * (fifo[6] - fifo[4] + 1)

OutParameter ==
  /\ MayWrite /\ fifondx > 0
  /\ fifo[0] = READ_DATA /\ fifondx = 8 => DmaReady
  /\ \E val \in Parameters(fifo[0], fifondx) : Store(val, fifolen, msr)
  /\ UNCHANGED dmaVars

(* Mutant: the line stays high after the last byte of a result.            *)
InFifoKeepsIrq ==
  /\ run = "up" /\ Result \subseteq msr
  /\ IF fifondx + 1 >= fifolen
     THEN /\ msr' = Idle /\ fifondx' = 0 /\ fifo' = Empty
          /\ copied' = Nothing
     ELSE fifondx' = fifondx + 1 /\ UNCHANGED <<msr, fifo, copied>>
  /\ UNCHANGED <<fifolen, cyl, head, image, pDMABuffer, irq6, run, unsensed,
                 missed, dmaVars>>

(* floppy_inb from the FIFO.                                               *)
InFifo ==
  /\ run = "up" /\ Result \subseteq msr
  /\ IF fifondx + 1 >= fifolen
     THEN /\ msr' = Idle /\ fifondx' = 0 /\ fifo' = Empty
          /\ irq6' = FALSE /\ copied' = Nothing
     ELSE fifondx' = fifondx + 1 /\ UNCHANGED <<msr, fifo, irq6, copied>>
  /\ UNCHANGED <<fifolen, cyl, head, image, pDMABuffer, run, unsensed,
                 missed, dmaVars>>

(* Mutant: a reset leaves the FIFO where it was.                           *)
ResetKeepsFifo ==
  /\ run = "up"
  /\ msr' = {"RQM"} /\ irq6' = TRUE /\ unsensed' = TRUE
  /\ copied' = Nothing
  /\ UNCHANGED <<fifo, fifondx, fifolen, cyl, head, image, pDMABuffer, run,
                 missed, dmaVars>>

(* Mutant: a reset leaves the phase that MSR shows.                        *)
ResetKeepsPhase ==
  /\ run = "up"
  /\ fifo' = Empty /\ fifondx' = 0 /\ fifolen' = 0
  /\ irq6' = TRUE /\ unsensed' = TRUE /\ copied' = Nothing
  /\ UNCHANGED <<msr, cyl, head, image, pDMABuffer, run, missed, dmaVars>>

(* floppy_outb to the DOR without NRESET: doReset and an interrupt.        *)
doReset ==
  /\ run = "up"
  /\ msr' = {"RQM"} /\ fifo' = Empty /\ fifondx' = 0 /\ fifolen' = 0
  /\ irq6' = TRUE /\ unsensed' = TRUE /\ copied' = Nothing
  /\ UNCHANGED <<cyl, head, image, pDMABuffer, run, missed, dmaVars>>

(* The driver at the DMA controller, between commands; a flip-flop reset   *)
(* comes between pairs.                                                    *)
ProgramDma ==
  /\ MayWrite /\ fifondx = 0
  /\ \/ \E r \in Registers :
          InRegister(0, r) \/ \E val \in DmaBytes : OutRegister(0, r, val)
     \/ PairsComplete(0) /\ FlipFlopReset(0)
     \/ MasterClear(0)
     \/ \E val \in PageBytes : OutPage(1, val)
  /\ UNCHANGED floppyVars

Next ==
  \/ \E op \in Opcodes : OutCommand(op)
  \/ UnhandledAccess \/ OutParameter \/ InFifo \/ doReset \/ ProgramDma

Spec == Init /\ [][Next]_vars

-----------------------------------------------------------------------------
(* The FIFO index, which both directions share, is where the phase that    *)
(* MSR shows says: bytes of a result are left while DIO is set, a command  *)
(* is under way exactly while CB is, and the index never leaves the bytes  *)
(* of the phase, resets in the middle of a phase included.                 *)
FifoInPhase ==
  run = "up" => /\ "DIO" \in msr => fifondx < fifolen /\ "CB" \notin msr
                /\ "CB" \in msr <=> "DIO" \notin msr /\ fifondx > 0
                /\ fifondx > 0 => fifondx < fifolen

(* A command that ends with an interrupt finds IRQ 6 low, so the guest's   *)
(* edge-triggered interrupt controller sees it (floppy.c 74, 144, 176).    *)
NoMissedInterrupt == ~missed

(* The level of IRQ 6 says exactly what the driver still has to do: it is  *)
(* high while an interrupt is to be sensed or a result of READ DATA or     *)
(* READ ID is to be read, and low otherwise.  A reset in the middle of a   *)
(* result phase (floppy.c 205) leaves no second owner of the line, whose   *)
(* last byte would lower it before the reset's interrupt was sensed.       *)
LineTellsInterrupt == irq6 <=> unsensed \/ ("DIO" \in msr /\ fifolen = 7)

(* Sectors of the image that lie before cylinder c, head h, sector s.      *)
Before(c, h, s) ==
  Cardinality({p \in (0..c) \X {0, 1} \X (1..SectorsPerTrack) :
                 \/ p[1] < c
                 \/ p[1] = c /\ p[2] < h
                 \/ p[1] = c /\ p[2] = h /\ p[3] < s})

(* READ DATA copies to the address the driver programmed, byte by byte     *)
(* through the flip-flops, as many bytes as it asked for, and every sector *)
(* of them that the image has is the one that cylinder, head and sector    *)
(* name, whatever longer reads came before.  Past the end of the image the *)
(* code copies what an earlier read left in the buffer (floppy.c 131: the  *)
(* result of fread is ignored); of those sectors nothing is said.          *)
Delivered(c, h, s, d) ==
  /\ d.at = Destination(sent) /\ d.bytes = TransferBytes(sent)
  /\ \A k \in Buffer :
       512 * k < d.bytes /\ Before(c, h, s) + k < ImageSectors
         => d.data[k] = Before(c, h, s) + k
ReadDelivers ==
  [][fifolen = 9 /\ fifolen' = 7
       => Delivered(fifo[2], fifo[3], fifo[4], copied')]_vars
=============================================================================

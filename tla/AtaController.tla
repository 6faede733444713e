--------------------------- MODULE AtaController ---------------------------
(***************************************************************************)
(* The ATA controller of src/devices/x86/ata/controller.c, with the disk   *)
(* hdd.img as master and no slave.  One thread runs it (the VCPU's), so    *)
(* every port access is one action.  Registers are those of                *)
(* ata_internal.h; the bits of ERROR, STATUS and ALTERNATE_STATUS are sets *)
(* of names, buffer offsets and sizes count 16-bit words, and registers    *)
(* that nothing reads (FEATURES, DEVICE_CONTROL, those of the absent       *)
(* slave) are not kept.                                                    *)
(*                                                                         *)
(* The driver moves data words only while the selected device shows DRQ    *)
(* for a command of that direction, as pio_inw and pio_outw expect: they   *)
(* test nothing themselves.                                                *)
(***************************************************************************)
EXTENDS Integers

CONSTANTS Words,         \* values of a data word
          SectorWords,   \* words per sector: 256
          Radix,         \* values of an address register: 256
          ZeroCount,     \* sectors read when SECTOR_COUNT is 0: 256
          CountValues,   \* values the driver writes to SECTOR_COUNT,
          NumberValues,  \*   to SECTOR_NUMBER,
          LowValues,     \*   to CYLINDER_LOW,
          HighValues,    \*   to CYLINDER_HIGH,
          HeadValues,    \*   and to the low bits of DEVICE_HEAD
          XlatHeads,     \* heads of the CHS translation: 255
          XlatSectors,   \* sectors per track of the CHS translation: 63
          Uint32,        \* values of the uint32 lba: 2^32
          DiskWords,     \* words of hdd.img that are modelled
          Identity,      \* the block build_identify_data builds at start-up
          FileFaults,    \* read(2) and write(2) may fail or stop half-way
          ControlBlock   \* the port 0x206 reaches the controller

ASSUME SizesAssumption ==
  /\ SectorWords \in Nat \ {0} /\ ZeroCount \in Nat \ {0, 1}
  /\ DiskWords \in Nat \ {0} /\ Radix \in Nat \ {0, 1}
  /\ XlatHeads \in Nat /\ XlatSectors \in Nat /\ Uint32 \in Nat \ {0}
ASSUME ValuesAssumption ==
  /\ CountValues \subseteq 0..ZeroCount - 1
  /\ NumberValues \subseteq 0..Radix - 1 /\ LowValues \subseteq 0..Radix - 1
  /\ HighValues \subseteq 0..Radix - 1 /\ HeadValues \subseteq 0..Radix - 1
  /\ 0 \in Words
  /\ Identity \in [0..SectorWords - 1 -> Words]
ASSUME FlagsAssumption == FileFaults \in BOOLEAN /\ ControlBlock \in BOOLEAN

READ == "READ SECTORS"
WRITE == "WRITE SECTORS"
IDENTIFY == "IDENTIFY DEVICE"
PACKET == "IDENTIFY PACKET DEVICE"
PARAMS == "INITIALIZE DEVICE PARAMETERS"
RECALIBRATE == "RECALIBRATE"
Opcodes == {READ, WRITE, IDENTIFY, PACKET, PARAMS, RECALIBRATE, "other"}

(* An unallocated buffer has no words.                                     *)
NULL == [i \in {} |-> 0]

VARIABLES pCurrDev,         \* the selected device
          device_head,      \* the master's DEVICE_HEAD
          sector_count, sector_number, cylinder_low, cylinder_high,
          command, error, status, alternate_status,
          readBuffer, readOffset, readSize,
          writeBuffer, writeOffset, writeSize, writeLBA,
          disk,             \* the words of the backing file
          irq14,
          run               \* "aborted": ASSERT; "crashed": a NULL access

address == <<device_head, sector_count, sector_number, cylinder_low,
             cylinder_high>>
result == <<command, error, status, alternate_status>>
readSide == <<readBuffer, readOffset, readSize>>
writeSide == <<writeBuffer, writeOffset, writeSize, writeLBA>>
vars == <<pCurrDev, address, result, readSide, writeSide, disk, irq14, run>>

Devices == {"master", "slave"}
Heads == [lba : BOOLEAN, head : {0} \cup HeadValues]
Buffers(top) == UNION {[0..n * SectorWords - 1 -> Words] : n \in 0..top}

TypeOK ==
  /\ pCurrDev \in Devices
  /\ device_head \in Heads
  /\ sector_count \in CountValues \cup {0, 1}
  /\ sector_number \in NumberValues \cup {0, 1}
  /\ cylinder_low \in LowValues \cup {0}
  /\ cylinder_high \in HighValues \cup {0}
  /\ command \in Opcodes \cup {"none"}
  /\ error \subseteq {"ABRT"}
  /\ status \subseteq {"DRDY", "DRQ", "ERR"}
  /\ alternate_status \subseteq {"DRDY", "DRQ", "ERR"}
  /\ readBuffer \in Buffers(ZeroCount)
  /\ readOffset \in Nat /\ readSize \in Nat
  /\ writeBuffer \in Buffers(ZeroCount)
  /\ writeOffset \in Nat /\ writeSize \in Nat /\ writeLBA \in Nat
  /\ disk \in [0..DiskWords - 1 -> Words]
  /\ irq14 \in BOOLEAN
  /\ run \in {"up", "aborted", "crashed"}

(* x86_ata_init: calloc zeroes the controller; only STATUS is set.         *)
Init ==
  /\ pCurrDev = "master"
  /\ device_head = [lba |-> FALSE, head |-> 0]
  /\ sector_count = 0 /\ sector_number = 0
  /\ cylinder_low = 0 /\ cylinder_high = 0
  /\ command = "none" /\ error = {}
  /\ status = {"DRDY"} /\ alternate_status = {}
  /\ readBuffer = NULL /\ readOffset = 0 /\ readSize = 0
  /\ writeBuffer = NULL /\ writeOffset = 0 /\ writeSize = 0 /\ writeLBA = 0
  /\ disk = [a \in 0..DiskWords - 1 |-> 0]
  /\ irq14 = FALSE /\ run = "up"

-----------------------------------------------------------------------------
(* Addresses.  Register values are below Radix, so the shifts and ORs of   *)
(* the code are the digits of a number.                                    *)

LbaAddress ==
  ((device_head.head * Radix + cylinder_high) * Radix + cylinder_low) * Radix
    + sector_number

(* The translation of cmd_read_sectors; sector 0 of cylinder 0 wraps.      *)
ChsAddress ==
  LET c == cylinder_high * Radix + cylinder_low
  IN  ((c * XlatHeads + device_head.head) * XlatSectors + sector_number - 1)
        % Uint32

(* Word address of a sector; DiskWords stands for all that lie further.    *)
WordAddress(lba) ==
  IF lba * SectorWords < DiskWords THEN lba * SectorWords ELSE DiskWords

(* A live process whose disk has announced data.                           *)
Transferring == run = "up" /\ "DRQ" \in status

(* The transfer in progress: of a write, the words that have arrived.      *)
Transfer ==
  IF ~Transferring THEN [op |-> "none"]
  ELSE IF command = WRITE
  THEN [op |-> "out", pos |-> writeOffset, size |-> writeSize,
        at |-> WordAddress(writeLBA),
        data |-> [i \in 0..writeOffset - 1 |-> writeBuffer[i]]]
  ELSE [op |-> "in", pos |-> readOffset, size |-> readSize,
        data |-> readBuffer]

Block == INSTANCE BlockDevice WITH
  MaxSectors <- ZeroCount, disk <- disk, xfer <- Transfer

-----------------------------------------------------------------------------
(* Commands.  Each runs to completion inside the outb that issues it, on   *)
(* the master: the absent slave never gets that far.                       *)

Finish(err, st) == error' = err /\ status' = st /\ alternate_status' = st

cmd_read_sectors ==
  LET lba == IF device_head.lba THEN LbaAddress ELSE ChsAddress
      size == (IF sector_count = 0 THEN ZeroCount ELSE sector_count)
                * SectorWords
  IN  /\ \E k \in Block!Moved(size) :
           readBuffer' = Block!Contents(disk, WordAddress(lba), size, k)
      /\ readSize' = size /\ readOffset' = 0
      /\ Finish({}, {"DRDY", "DRQ"})
      /\ irq14' = TRUE
      /\ UNCHANGED <<writeSide, run>>

(* Mutant: the sector number of a write is taken to count from one.        *)
WriteFromOne ==
  /\ device_head.lba /\ sector_count # 0
  /\ writeOffset' = 0 /\ writeSize' = sector_count * SectorWords
  /\ writeBuffer' = [i \in 0..sector_count * SectorWords - 1 |-> 0]
  /\ writeLBA' = LbaAddress - 1
  /\ Finish({}, {"DRDY", "DRQ"})
  /\ irq14' = FALSE
  /\ UNCHANGED <<readSide, run>>

(* Mutant: an interrupt of an earlier command outlives the new one.        *)
WriteKeepsIrq ==
  /\ device_head.lba /\ sector_count # 0
  /\ writeOffset' = 0 /\ writeSize' = sector_count * SectorWords
  /\ writeBuffer' = [i \in 0..sector_count * SectorWords - 1 |-> 0]
  /\ writeLBA' = LbaAddress
  /\ Finish({}, {"DRDY", "DRQ"})
  /\ UNCHANGED <<readSide, run, irq14>>

(* The parts that follow the two ASSERTs.                                  *)
cmd_write_sectors ==
  /\ device_head.lba /\ sector_count # 0
  /\ writeOffset' = 0 /\ writeSize' = sector_count * SectorWords
  /\ writeBuffer' = [i \in 0..sector_count * SectorWords - 1 |-> 0]
  /\ writeLBA' = LbaAddress
  /\ Finish({}, {"DRDY", "DRQ"})
  /\ irq14' = FALSE
  /\ UNCHANGED <<readSide, run>>

cmd_identify_device ==
  /\ readBuffer' = Identity /\ readOffset' = 0 /\ readSize' = SectorWords
  /\ Finish({}, {"DRDY", "DRQ"})
  /\ irq14' = FALSE
  /\ UNCHANGED <<writeSide, run>>

(* ALTERNATE_STATUS is left as it was.                                     *)
cmd_identify_packet_device ==
  /\ error' = {"ABRT"} /\ status' = {"ERR", "DRDY"}
  /\ irq14' = FALSE
  /\ UNCHANGED <<alternate_status, readSide, writeSide, run>>

(* INITIALIZE DEVICE PARAMETERS and RECALIBRATE do the same thing.         *)
cmd_no_data ==
  /\ Finish({}, {"DRDY"})
  /\ irq14' = TRUE
  /\ UNCHANGED <<readSide, writeSide, run>>

(* An ASSERT of do_command or cmd_write_sectors calls abort().             *)
abort == /\ run' = "aborted" /\ irq14' = FALSE
         /\ UNCHANGED <<error, status, alternate_status, readSide, writeSide>>

do_command(cmd) ==
  \/ cmd = READ /\ cmd_read_sectors
  \/ cmd = WRITE /\ cmd_write_sectors
  \/ cmd = WRITE /\ (~device_head.lba \/ sector_count = 0) /\ abort
  \/ cmd = IDENTIFY /\ cmd_identify_device
  \/ cmd = PACKET /\ cmd_identify_packet_device
  \/ cmd \in {PARAMS, RECALIBRATE} /\ cmd_no_data
  \/ cmd = "other" /\ abort

-----------------------------------------------------------------------------
(* pio_outb.                                                               *)

(* DEVICE_HEAD selects a device, present or not.                           *)
OutDeviceHead(dev, h) ==
  /\ run = "up"
  /\ pCurrDev' = dev
  /\ device_head' = IF dev = "master" THEN h ELSE device_head
  /\ UNCHANGED <<sector_count, sector_number, cylinder_low, cylinder_high,
                 result, readSide, writeSide, disk, irq14, run>>

(* All other writes are dropped while the absent slave is selected.        *)
Present == run = "up" /\ pCurrDev = "master"

OutCommand(cmd) ==
  /\ Present
  /\ command' = cmd
  /\ do_command(cmd)
  /\ UNCHANGED <<pCurrDev, address, disk>>

OutRegister ==
  /\ Present
  /\ \/ /\ sector_count' \in CountValues
        /\ UNCHANGED <<sector_number, cylinder_low, cylinder_high>>
     \/ /\ sector_number' \in NumberValues
        /\ UNCHANGED <<sector_count, cylinder_low, cylinder_high>>
     \/ /\ cylinder_low' \in LowValues
        /\ UNCHANGED <<sector_count, sector_number, cylinder_high>>
     \/ /\ cylinder_high' \in HighValues
        /\ UNCHANGED <<sector_count, sector_number, cylinder_low>>
  /\ UNCHANGED <<pCurrDev, device_head, result, readSide, writeSide, disk,
                 irq14, run>>

(* DEVICE_CONTROL with SRST: do_softreset clears the first sector of the   *)
(* read buffer, which READ or IDENTIFY must have allocated, and the        *)
(* registers.  Offsets, sizes and the write buffer stay.                   *)
do_softreset ==
  /\ Present /\ ControlBlock /\ readBuffer # NULL
  /\ readBuffer' = [i \in DOMAIN readBuffer |->
                      IF i < SectorWords THEN 0 ELSE readBuffer[i]]
  /\ device_head' = [lba |-> FALSE, head |-> 0]
  /\ sector_count' = 1 /\ sector_number' = 1
  /\ cylinder_low' = 0 /\ cylinder_high' = 0
  /\ command' = "none"
  /\ Finish({}, {"DRDY"})
  /\ pCurrDev' = "master"
  /\ irq14' = FALSE
  /\ UNCHANGED <<readOffset, readSize, writeSide, disk, run>>

(* The memset of a buffer that was never allocated.                        *)
ResetBeforeFirstRead ==
  /\ Present /\ ControlBlock /\ readBuffer = NULL
  /\ run' = "crashed"
  /\ UNCHANGED <<pCurrDev, address, result, readSide, writeSide, disk, irq14>>

-----------------------------------------------------------------------------
(* pio_inb.  Only a read of STATUS has an effect.                          *)

InStatus ==
  /\ Present
  /\ irq14' = FALSE
  /\ UNCHANGED <<pCurrDev, address, result, readSide, writeSide, disk, run>>

(* The ASSERTs of the port handlers: byte accesses of the data port, reads *)
(* of CYLINDER_LOW and _HIGH, word accesses of any port but the data port. *)
UnhandledAccess ==
  /\ run = "up"
  /\ run' = "aborted"
  /\ UNCHANGED <<pCurrDev, address, result, readSide, writeSide, disk, irq14>>

-----------------------------------------------------------------------------
(* pio_inw and pio_outw.                                                   *)

DataRequest(cmds) == Present /\ Transferring /\ command \in cmds

(* Mutant: the end of the data is noticed one word late.                   *)
InwOneTooMany ==
  /\ DataRequest({READ, IDENTIFY})
  /\ readOffset' = readOffset + 1
  /\ IF readOffset + 1 > readSize
     THEN /\ status' = {"DRDY"} /\ alternate_status' = {"DRDY"}
          /\ UNCHANGED error
     ELSE IF (readOffset + 1) % SectorWords = 0
     THEN Finish({}, {"DRDY", "DRQ"})
     ELSE UNCHANGED <<error, status, alternate_status>>
  /\ UNCHANGED <<pCurrDev, address, command, readBuffer, readSize, writeSide,
                 disk, irq14, run>>

pio_inw ==
  /\ DataRequest({READ, IDENTIFY})
  /\ readOffset' = readOffset + 1
  /\ IF readOffset + 1 >= readSize
     THEN /\ status' = {"DRDY"} /\ alternate_status' = {"DRDY"}
          /\ UNCHANGED error
     ELSE IF (readOffset + 1) % SectorWords = 0
     THEN Finish({}, {"DRDY", "DRQ"})
     ELSE UNCHANGED <<error, status, alternate_status>>
  /\ UNCHANGED <<pCurrDev, address, command, readBuffer, readSize, writeSide,
                 disk, irq14, run>>

(* Mutant: the address is taken from the registers when the data is there. *)
FlushAtRegisters(data) ==
  /\ \E k \in Block!Moved(writeSize) :
       disk' = Block!Updated(disk, WordAddress(LbaAddress), data, k)
  /\ status' = {"DRDY"} /\ alternate_status' = {"DRDY"}
  /\ irq14' = TRUE

(* The last word: the buffer goes to the file, and whatever write(2) says  *)
(* the driver gets DRDY and an interrupt.                                  *)
FlushWrite(data) ==
  /\ \E k \in Block!Moved(writeSize) :
       disk' = Block!Updated(disk, WordAddress(writeLBA), data, k)
  /\ status' = {"DRDY"} /\ alternate_status' = {"DRDY"}
  /\ irq14' = TRUE

pio_outw(w) ==
  /\ DataRequest({WRITE})
  /\ writeBuffer' = [writeBuffer EXCEPT ![writeOffset] = w]
  /\ writeOffset' = writeOffset + 1
  /\ IF writeOffset + 1 = writeSize
     THEN FlushWrite(writeBuffer')
     ELSE UNCHANGED <<disk, status, alternate_status, irq14>>
  /\ UNCHANGED <<pCurrDev, address, command, error, readSide, writeSize,
                 writeLBA, run>>

-----------------------------------------------------------------------------
Next ==
  \/ \E dev \in Devices, h \in [lba : BOOLEAN, head : HeadValues] :
        OutDeviceHead(dev, h)
  \/ \E cmd \in Opcodes : OutCommand(cmd)
  \/ OutRegister \/ do_softreset \/ ResetBeforeFirstRead
  \/ InStatus \/ UnhandledAccess
  \/ pio_inw \/ \E w \in Words : pio_outw(w)

Spec == Init /\ [][Next]_vars

-----------------------------------------------------------------------------
(* pio_inw and pio_outw index their buffers without a test.  Whenever the  *)
(* driver may move a word, the offset is that of a word of the buffer the  *)
(* command allocated, and the transfer ends exactly where the buffer does. *)
ReadWindow ==
  Transferring /\ command \in {READ, IDENTIFY} =>
    readOffset < readSize /\ DOMAIN readBuffer = 0..readSize - 1
WriteWindow ==
  Transferring /\ command = WRITE =>
    writeOffset < writeSize /\ DOMAIN writeBuffer = 0..writeSize - 1
DrqMeansTransfer == Transferring => command \in {READ, IDENTIFY, WRITE}
PioInWindow == ReadWindow /\ WriteWindow /\ DrqMeansTransfer

(* An interrupt is pending only for a finished command or for read data:   *)
(* never while the controller waits for the words of a write, however the  *)
(* driver mixed commands and left earlier interrupts unacknowledged.       *)
IrqMeansProgress == irq14 /\ Transferring => command = READ

(* The controller implements the block device: transfers keep the address  *)
(* and the length they began with whatever registers are written meanwhile,*)
(* words arrive in order, a write lands in one piece after its last word,  *)
(* and selecting the slave in mid-transfer disturbs nothing.               *)
ImplementsBlockDevice == Block!Spec
=============================================================================

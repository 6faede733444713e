----------------------------- MODULE AtaProofs -----------------------------
(***************************************************************************)
(* The data-port window of the ATA controller, for every sector size,      *)
(* transfer length, register content and backing file.                     *)
(***************************************************************************)
EXTENDS AtaController, TLAPS

IInv == TypeOK /\ PioInWindow /\ IrqMeansProgress

LEMMA PositiveSize ==
  ASSUME NEW n \in Nat, n # 0
  PROVE  n * SectorWords \in Nat /\ n * SectorWords > 0
<1> DEFINE W == SectorWords
<1>1. W \in Nat /\ W > 0 /\ n > 0
  BY SizesAssumption
<1> HIDE DEF W
<1>2. n * W \in Nat /\ n * W > 0
  BY <1>1, Z3
<1> QED
  BY <1>2 DEF W

(* A buffer of n sectors, whatever fills it.                               *)
LEMMA BufferType ==
  ASSUME NEW n \in 0..ZeroCount, NEW f \in [0..n * SectorWords - 1 -> Words]
  PROVE  f \in Buffers(ZeroCount)
  BY DEF Buffers

LEMMA WordAddressType ==
  ASSUME NEW lba \in Nat
  PROVE  WordAddress(lba) \in Nat
<1>1. lba * SectorWords \in Nat
  BY SizesAssumption
<1> QED
  BY <1>1, SizesAssumption DEF WordAddress

(* The addresses the commands compute are natural numbers.                 *)
LEMMA AddressType ==
  ASSUME TypeOK
  PROVE  LbaAddress \in Nat /\ ChsAddress \in Nat
<1>1. /\ device_head.head \in Nat /\ cylinder_high \in Nat
      /\ cylinder_low \in Nat /\ sector_number \in Nat
  <2>1. /\ NumberValues \subseteq Nat /\ LowValues \subseteq Nat
        /\ HighValues \subseteq Nat /\ HeadValues \subseteq Nat
    BY SizesAssumption, ValuesAssumption
  <2>2. device_head.head \in {0} \cup HeadValues
    BY DEF TypeOK, Heads
  <2>3. device_head.head \in Nat
    <3>1. \A x \in {0} \cup HeadValues : x \in Nat
      BY <2>1
    <3> QED
      BY <2>2, <3>1
  <2>4. cylinder_high \in Nat /\ cylinder_low \in Nat
    BY <2>1 DEF TypeOK
  <2>5. sector_number \in Nat
    BY <2>1 DEF TypeOK
  <2> QED
    BY <2>3, <2>4, <2>5
<1>2. \A a, b \in Nat : a * Radix + b \in Nat
  BY SizesAssumption
<1>3. LbaAddress \in Nat
  BY <1>1, <1>2 DEF LbaAddress
<1>4. \A a \in Nat : a * XlatHeads \in Nat /\ a * XlatSectors \in Nat
  BY SizesAssumption
<1>5. \A a \in Int : a % Uint32 \in Nat
  BY SizesAssumption
<1> DEFINE c == cylinder_high * Radix + cylinder_low
<1>6. c \in Nat
  BY <1>1, <1>2
<1> DEFINE t == c * XlatHeads + device_head.head
<1> HIDE DEF c
<1>7. t \in Nat
  BY <1>1, <1>4, <1>6
<1> HIDE DEF t
<1>8. t * XlatSectors + sector_number - 1 \in Int
  BY <1>1, <1>4, <1>7
<1>9. ChsAddress \in Nat
  BY <1>5, <1>8 DEF ChsAddress, c, t
<1> QED
  BY <1>3, <1>9

LEMMA InitInv == Init => IInv
<1> SUFFICES ASSUME Init PROVE IInv
  OBVIOUS
<1>1. 0 * SectorWords = 0
  BY SizesAssumption
<1>2. NULL \in [0..0 * SectorWords - 1 -> Words]
  BY <1>1 DEF NULL
<1>3. NULL \in Buffers(ZeroCount)
  BY <1>2, BufferType, SizesAssumption
<1>4. disk \in [0..DiskWords - 1 -> Words]
  BY ValuesAssumption DEF Init
<1>5. device_head \in Heads
  BY DEF Init, Heads
<1>6. TypeOK
  BY <1>3, <1>4, <1>5 DEF Init, TypeOK, Devices
<1>7. ~Transferring /\ ~irq14
  BY DEF Init, Transferring
<1> QED
  BY <1>6, <1>7 DEF IInv, PioInWindow, ReadWindow, WriteWindow,
     DrqMeansTransfer, IrqMeansProgress

-----------------------------------------------------------------------------
(* The data a command puts in the read buffer.                             *)
LEMMA ReadContents ==
  ASSUME TypeOK, NEW at \in Nat, NEW n \in 0..ZeroCount,
         NEW k \in Block!Moved(n * SectorWords)
  PROVE  Block!Contents(disk, at, n * SectorWords, k) \in Buffers(ZeroCount)
<1> DEFINE size == n * SectorWords
<1>1. Block!Contents(disk, at, size, k) \in [0..size - 1 -> Words]
  BY ValuesAssumption DEF TypeOK, Block!Contents
<1> QED
  BY <1>1, BufferType

LEMMA ReadCommand ==
  ASSUME IInv, Present, cmd_read_sectors, command' = READ,
         UNCHANGED <<pCurrDev, address, disk>>
  PROVE  IInv'
<1> DEFINE n == IF sector_count = 0 THEN ZeroCount ELSE sector_count
           size == n * SectorWords
           lba == IF device_head.lba THEN LbaAddress ELSE ChsAddress
<1>1. n \in 0..ZeroCount /\ n # 0
  BY SizesAssumption, ValuesAssumption DEF IInv, TypeOK
<1>2. size \in Nat /\ size > 0
  BY <1>1, PositiveSize
<1>3. WordAddress(lba) \in Nat
  BY AddressType, WordAddressType DEF IInv
<1>4. PICK k \in Block!Moved(size) :
             readBuffer' = Block!Contents(disk, WordAddress(lba), size, k)
  BY DEF cmd_read_sectors
<1>5. readSize' = size /\ readOffset' = 0 /\ UNCHANGED <<writeSide, run>>
  BY DEF cmd_read_sectors
<1>6. /\ error' = {} /\ status' = {"DRDY", "DRQ"}
      /\ alternate_status' = {"DRDY", "DRQ"} /\ irq14' = TRUE
  BY DEF cmd_read_sectors, Finish
<1>7. readBuffer' \in Buffers(ZeroCount)
  BY <1>1, <1>3, <1>4, ReadContents DEF IInv
<1>8. DOMAIN readBuffer' = 0..size - 1
  BY <1>4 DEF Block!Contents
<1> HIDE DEF n, size, lba
<1>9. TypeOK'
  BY <1>2, <1>5, <1>6, <1>7
     DEF IInv, TypeOK, address, writeSide, Opcodes
<1>10. PioInWindow' /\ IrqMeansProgress'
  BY <1>2, <1>5, <1>6, <1>8
     DEF PioInWindow, ReadWindow, WriteWindow, DrqMeansTransfer,
         IrqMeansProgress, READ, WRITE, IDENTIFY
<1> QED
  BY <1>9, <1>10 DEF IInv

LEMMA WriteCommand ==
  ASSUME IInv, Present, cmd_write_sectors, command' = WRITE,
         UNCHANGED <<pCurrDev, address, disk>>
  PROVE  IInv'
<1> DEFINE size == sector_count * SectorWords
<1>1. sector_count \in 0..ZeroCount /\ sector_count # 0
  BY SizesAssumption, ValuesAssumption DEF IInv, TypeOK, cmd_write_sectors
<1>2. size \in Nat /\ size > 0
  BY <1>1, PositiveSize
<1>3. writeLBA' \in Nat
  BY AddressType DEF IInv, cmd_write_sectors
<1>4. writeBuffer' = [i \in 0..size - 1 |-> 0]
  BY DEF cmd_write_sectors
<1>5. writeBuffer' \in Buffers(ZeroCount) /\ DOMAIN writeBuffer' = 0..size - 1
  <2>1. writeBuffer' \in [0..size - 1 -> Words]
    BY <1>4, ValuesAssumption
  <2> QED
    BY <1>1, <1>4, <2>1, BufferType
<1>6. writeSize' = size /\ writeOffset' = 0 /\ UNCHANGED <<readSide, run>>
  BY DEF cmd_write_sectors
<1>7. /\ error' = {} /\ status' = {"DRDY", "DRQ"}
      /\ alternate_status' = {"DRDY", "DRQ"} /\ irq14' = FALSE
  BY DEF cmd_write_sectors, Finish
<1> HIDE DEF size
<1>8. TypeOK'
  BY <1>2, <1>3, <1>5, <1>6, <1>7
     DEF IInv, TypeOK, address, readSide, Opcodes
<1>9. PioInWindow' /\ IrqMeansProgress'
  BY <1>2, <1>5, <1>6, <1>7
     DEF PioInWindow, ReadWindow, WriteWindow, DrqMeansTransfer,
         IrqMeansProgress, READ, WRITE, IDENTIFY
<1> QED
  BY <1>8, <1>9 DEF IInv

LEMMA IdentifyCommand ==
  ASSUME IInv, Present, cmd_identify_device, command' = IDENTIFY,
         UNCHANGED <<pCurrDev, address, disk>>
  PROVE  IInv'
<1>1. readBuffer' \in Buffers(ZeroCount)
  <2>1. 1 * SectorWords = SectorWords /\ 1 \in 0..ZeroCount
    BY SizesAssumption
  <2>2. readBuffer' \in [0..1 * SectorWords - 1 -> Words]
    BY <2>1, ValuesAssumption DEF cmd_identify_device
  <2> QED
    BY <2>1, <2>2, BufferType
<1>2. DOMAIN readBuffer' = 0..SectorWords - 1
  BY ValuesAssumption DEF cmd_identify_device
<1>3. TypeOK'
  BY <1>1, SizesAssumption
     DEF IInv, TypeOK, cmd_identify_device, Finish, address, writeSide, Opcodes
<1>4. readOffset' = 0 /\ readSize' = SectorWords /\ irq14' = FALSE
  BY DEF cmd_identify_device
<1>5. PioInWindow' /\ IrqMeansProgress'
  <2>1. ReadWindow'
    BY <1>2, <1>4, SizesAssumption DEF ReadWindow
  <2>2. WriteWindow' /\ DrqMeansTransfer'
    BY DEF WriteWindow, DrqMeansTransfer, READ, WRITE, IDENTIFY
  <2>3. IrqMeansProgress'
    BY <1>4 DEF IrqMeansProgress
  <2> QED
    BY <2>1, <2>2, <2>3 DEF PioInWindow
<1> QED
  BY <1>3, <1>5 DEF IInv

(* The commands that move no data, and the ASSERTs.                        *)
LEMMA OtherCommand ==
  ASSUME IInv, Present, cmd_identify_packet_device \/ cmd_no_data \/ abort,
         command' \in Opcodes, UNCHANGED <<pCurrDev, address, disk>>
  PROVE  IInv'
<1>1. TypeOK'
  BY DEF IInv, TypeOK, cmd_identify_packet_device, cmd_no_data, abort, Finish,
         address, readSide, writeSide
<1>2. ~Transferring'
  BY DEF Transferring, cmd_identify_packet_device, cmd_no_data, abort, Finish
<1> QED
  BY <1>1, <1>2 DEF IInv, PioInWindow, ReadWindow, WriteWindow,
     DrqMeansTransfer, IrqMeansProgress

LEMMA OutCommandInv ==
  ASSUME IInv, NEW cmd \in Opcodes, OutCommand(cmd)
  PROVE  IInv'
<1>1. Present /\ command' = cmd /\ UNCHANGED <<pCurrDev, address, disk>>
  BY DEF OutCommand
<1>2. \/ cmd = READ /\ cmd_read_sectors
      \/ cmd = WRITE /\ cmd_write_sectors
      \/ cmd = IDENTIFY /\ cmd_identify_device
      \/ cmd_identify_packet_device \/ cmd_no_data \/ abort
  BY DEF OutCommand, do_command
<1> QED
  BY <1>1, <1>2, ReadCommand, WriteCommand, IdentifyCommand, OtherCommand

-----------------------------------------------------------------------------
(* Accesses that touch no buffer: the transfer in progress stays.          *)
LEMMA RegisterInv ==
  ASSUME IInv,
         \/ \E dev \in Devices, h \in [lba : BOOLEAN, head : HeadValues] :
               OutDeviceHead(dev, h)
         \/ OutRegister \/ InStatus \/ UnhandledAccess \/ ResetBeforeFirstRead
         \/ UNCHANGED vars
  PROVE  IInv'
<1> USE DEF result, readSide, writeSide
<1>1. TypeOK'
  <2>1. CASE \E dev \in Devices, h \in [lba : BOOLEAN, head : HeadValues] :
               OutDeviceHead(dev, h)
    BY <2>1 DEF IInv, TypeOK, OutDeviceHead, Heads
  <2>2. CASE OutRegister
    BY <2>2 DEF IInv, TypeOK, OutRegister
  <2>3. CASE InStatus \/ UnhandledAccess \/ ResetBeforeFirstRead
    BY <2>3 DEF IInv, TypeOK, InStatus, UnhandledAccess, ResetBeforeFirstRead,
                address
  <2>4. CASE UNCHANGED vars
    BY <2>4 DEF IInv, TypeOK, vars, address
  <2> QED
    BY <2>1, <2>2, <2>3, <2>4
<1>2. /\ UNCHANGED <<command, status, readSide, writeSide>>
      /\ run' # "up" \/ run' = run
      /\ irq14' = irq14 \/ irq14' = FALSE
  BY DEF OutDeviceHead, OutRegister, InStatus, UnhandledAccess,
         ResetBeforeFirstRead, vars
<1>3. PioInWindow' /\ IrqMeansProgress'
  BY <1>2 DEF IInv, PioInWindow, ReadWindow, WriteWindow, DrqMeansTransfer,
              Transferring, IrqMeansProgress
<1> QED
  BY <1>1, <1>3 DEF IInv

LEMMA SoftResetInv == IInv /\ do_softreset => IInv'
<1> SUFFICES ASSUME IInv, do_softreset PROVE IInv'
  OBVIOUS
<1>1. readBuffer' \in Buffers(ZeroCount)
  <2>1. PICK n \in 0..ZeroCount : readBuffer \in [0..n * SectorWords - 1 -> Words]
    BY DEF IInv, TypeOK, Buffers
  <2>2. readBuffer' \in [0..n * SectorWords - 1 -> Words]
    BY <2>1, ValuesAssumption DEF do_softreset
  <2> QED
    BY <2>2, BufferType
<1>2. TypeOK'
  BY <1>1 DEF IInv, TypeOK, do_softreset, Finish, writeSide, Heads, Devices
<1>3. ~Transferring'
  BY DEF Transferring, do_softreset, Finish
<1> QED
  BY <1>2, <1>3 DEF IInv, PioInWindow, ReadWindow, WriteWindow,
     DrqMeansTransfer, IrqMeansProgress

-----------------------------------------------------------------------------
(* The data port.                                                          *)
LEMMA InwInv == IInv /\ pio_inw => IInv'
<1> SUFFICES ASSUME IInv, pio_inw PROVE IInv'
  OBVIOUS
<1>1. /\ Transferring /\ command \in {READ, IDENTIFY}
      /\ readOffset' = readOffset + 1
      /\ UNCHANGED <<pCurrDev, address, command, readBuffer, readSize,
                     writeSide, disk, irq14, run>>
  BY DEF pio_inw, DataRequest
<1>2. \/ /\ readOffset + 1 >= readSize
         /\ status' = {"DRDY"} /\ alternate_status' = {"DRDY"}
         /\ UNCHANGED error
      \/ /\ readOffset + 1 < readSize
         /\ error' = {} /\ status' = {"DRDY", "DRQ"}
         /\ alternate_status' = {"DRDY", "DRQ"}
      \/ /\ readOffset + 1 < readSize
         /\ UNCHANGED <<error, status, alternate_status>>
  BY DEF IInv, TypeOK, pio_inw, Finish
<1>3. TypeOK'
  <2>1. readOffset' \in Nat
    BY <1>1 DEF IInv, TypeOK
  <2>2. /\ error' \subseteq {"ABRT"}
        /\ status' \subseteq {"DRDY", "DRQ", "ERR"}
        /\ alternate_status' \subseteq {"DRDY", "DRQ", "ERR"}
    BY <1>2 DEF IInv, TypeOK
  <2> QED
    BY <1>1, <2>1, <2>2 DEF IInv, TypeOK, address, writeSide
<1>4. PioInWindow'
  BY <1>1, <1>2 DEF IInv, TypeOK, PioInWindow, ReadWindow, WriteWindow,
     DrqMeansTransfer, Transferring, READ, WRITE, IDENTIFY
<1>5. IrqMeansProgress'
  BY <1>1, <1>2 DEF IInv, IrqMeansProgress, Transferring
<1> QED
  BY <1>3, <1>4, <1>5 DEF IInv

LEMMA OutwInv ==
  ASSUME IInv, NEW w \in Words, pio_outw(w)
  PROVE  IInv'
<1>1. /\ Transferring /\ command = WRITE
      /\ writeBuffer' = [writeBuffer EXCEPT ![writeOffset] = w]
      /\ writeOffset' = writeOffset + 1
      /\ UNCHANGED <<pCurrDev, address, command, error, readSide, writeSize,
                     writeLBA, run>>
  BY DEF pio_outw, DataRequest
<1>2. writeOffset < writeSize /\ DOMAIN writeBuffer = 0..writeSize - 1
  BY <1>1 DEF IInv, PioInWindow, WriteWindow
<1>3. writeBuffer' \in Buffers(ZeroCount)
  <2>1. PICK n \in 0..ZeroCount :
               writeBuffer \in [0..n * SectorWords - 1 -> Words]
    BY DEF IInv, TypeOK, Buffers
  <2>2. writeBuffer' \in [0..n * SectorWords - 1 -> Words]
    BY <1>1, <2>1
  <2> QED
    BY <2>2, BufferType
<1>4. DOMAIN writeBuffer' = 0..writeSize - 1
  BY <1>1, <1>2
<1>5. CASE writeOffset + 1 = writeSize
  <2>1. PICK k \in Block!Moved(writeSize) :
          disk' = Block!Updated(disk, WordAddress(writeLBA), writeBuffer', k)
    BY <1>5 DEF pio_outw, FlushWrite
  <2>2. /\ status' = {"DRDY"} /\ alternate_status' = {"DRDY"}
        /\ irq14' = TRUE
    BY <1>5 DEF pio_outw, FlushWrite
  <2>3. disk' \in [0..DiskWords - 1 -> Words]
    <3> DEFINE at == WordAddress(writeLBA)
    <3>1. at \in Nat
      BY WordAddressType DEF IInv, TypeOK
    <3>2. k \in 0..writeSize
      BY <2>1 DEF Block!Moved, IInv, TypeOK
    <3> HIDE DEF at
    <3>3. ASSUME NEW a \in 0..DiskWords - 1, a - at \in 0..k - 1
          PROVE  writeBuffer'[a - at] \in Words
      <4>1. a - at \in DOMAIN writeBuffer'
        BY <1>4, <3>1, <3>2, <3>3 DEF IInv, TypeOK
      <4> QED
        BY <1>3, <4>1 DEF Buffers
    <3> QED
      BY <2>1, <3>3 DEF Block!Updated, IInv, TypeOK, at
  <2>4. TypeOK'
    BY <1>1, <1>3, <2>2, <2>3 DEF IInv, TypeOK, address, readSide
  <2>5. ~Transferring'
    BY <2>2 DEF Transferring
  <2> QED
    BY <2>4, <2>5 DEF IInv, PioInWindow, ReadWindow, WriteWindow,
       DrqMeansTransfer, IrqMeansProgress
<1>6. CASE writeOffset + 1 # writeSize
  <2>1. UNCHANGED <<disk, status, alternate_status, irq14>>
    BY <1>6 DEF pio_outw
  <2>2. writeOffset' < writeSize
    BY <1>1, <1>2, <1>6 DEF IInv, TypeOK
  <2>3. TypeOK'
    BY <1>1, <1>3, <2>1 DEF IInv, TypeOK, address, readSide
  <2>4. PioInWindow' /\ IrqMeansProgress'
    BY <1>1, <1>4, <2>1, <2>2 DEF IInv, PioInWindow, ReadWindow, WriteWindow,
       DrqMeansTransfer, IrqMeansProgress, Transferring, READ, WRITE, IDENTIFY
  <2> QED
    BY <2>3, <2>4 DEF IInv
<1> QED
  BY <1>5, <1>6

LEMMA NextInv == IInv /\ [Next]_vars => IInv'
  BY OutCommandInv, RegisterInv, SoftResetInv, InwInv, OutwInv DEF Next

(* Every register and buffer of the controller stays in its range.         *)
THEOREM TypeCorrect == Spec => []TypeOK
<1>1. IInv => TypeOK
  BY DEF IInv
<1> QED
  BY <1>1, InitInv, NextInv, PTL DEF Spec

(* The unchecked indexing of pio_inw and pio_outw stays inside the buffer  *)
(* of the command in progress, for every driver that honours DRQ.          *)
THEOREM DataPortInWindow == Spec => []PioInWindow
<1>1. IInv => PioInWindow
  BY DEF IInv
<1> QED
  BY <1>1, InitInv, NextInv, PTL DEF Spec

(* No interrupt is pending while the controller waits for write data.      *)
THEOREM InterruptMeansProgress == Spec => []IrqMeansProgress
<1>1. IInv => IrqMeansProgress
  BY DEF IInv
<1> QED
  BY <1>1, InitInv, NextInv, PTL DEF Spec

-----------------------------------------------------------------------------
(* The refinement: what each access does to the transfer.                  *)
TransferIn == [op |-> "in", pos |-> readOffset, size |-> readSize,
               data |-> readBuffer]
TransferOut == [op |-> "out", pos |-> writeOffset, size |-> writeSize,
                at |-> WordAddress(writeLBA),
                data |-> [i \in 0..writeOffset - 1 |-> writeBuffer[i]]]

LEMMA TransferCases ==
  /\ ~Transferring => Transfer = Block!Idle
  /\ Transferring /\ command = WRITE => Transfer = TransferOut
  /\ Transferring /\ command # WRITE => Transfer = TransferIn
  BY DEF Transfer, TransferIn, TransferOut, Block!Idle

LEMMA TransferCasesNext ==
  /\ ~Transferring' => Transfer' = Block!Idle
  /\ Transferring' /\ command' = WRITE => Transfer' = TransferOut'
  /\ Transferring' /\ command' # WRITE => Transfer' = TransferIn'
<1>1. ( /\ ~Transferring => Transfer = Block!Idle
        /\ Transferring /\ command = WRITE => Transfer = TransferOut
        /\ Transferring /\ command # WRITE => Transfer = TransferIn )'
  BY TransferCases, PTL
<1> QED BY <1>1 DEF Block!Idle

LEMMA WordAddressRange ==
  ASSUME NEW lba \in Nat
  PROVE  WordAddress(lba) \in 0..DiskWords
<1>1. lba * SectorWords \in Nat
  BY SizesAssumption
<1> QED BY <1>1, SizesAssumption DEF WordAddress

LEMMA SizeOfSectors ==
  ASSUME NEW n \in 1..ZeroCount
  PROVE  n * SectorWords \in Block!Sizes
  BY DEF Block!Sizes

LEMMA BlockInit == Init => Block!Init
<1> SUFFICES ASSUME Init PROVE Block!Init
  OBVIOUS
<1>1. ~Transferring
  BY DEF Init, Transferring
<1>2. disk \in [0..DiskWords - 1 -> Words]
  BY ValuesAssumption DEF Init
<1> QED BY <1>1, <1>2, TransferCases DEF Block!Init

LEMMA ReadRefines ==
  ASSUME IInv, Present, cmd_read_sectors, command' = READ, UNCHANGED disk
  PROVE  Block!Read
<1> DEFINE n == IF sector_count = 0 THEN ZeroCount ELSE sector_count
           size == n * SectorWords
           lba == IF device_head.lba THEN LbaAddress ELSE ChsAddress
           at == WordAddress(lba)
<1>1. n \in 1..ZeroCount
  BY SizesAssumption, ValuesAssumption DEF IInv, TypeOK
<1>2. size \in Block!Sizes
  BY <1>1, SizeOfSectors
<1>3. at \in 0..DiskWords
  BY AddressType, WordAddressRange DEF IInv
<1>4. PICK k \in Block!Moved(size) :
             readBuffer' = Block!Contents(disk, at, size, k)
  BY DEF cmd_read_sectors
<1>5. /\ readSize' = size /\ readOffset' = 0 /\ run' = "up"
      /\ status' = {"DRDY", "DRQ"}
  BY DEF cmd_read_sectors, Finish, Present
<1> HIDE DEF n, size, lba, at
<1>6. Transfer' = TransferIn'
  BY <1>5, TransferCasesNext DEF Transferring, READ, WRITE
<1>7. Transfer' = [op |-> "in", pos |-> 0, size |-> size,
                   data |-> Block!Contents(disk, at, size, k)]
  BY <1>4, <1>5, <1>6 DEF TransferIn
<1> QED BY <1>2, <1>3, <1>4, <1>7 DEF Block!Read

LEMMA WriteRefines ==
  ASSUME IInv, Present, cmd_write_sectors, command' = WRITE, UNCHANGED disk
  PROVE  Block!Write
<1> DEFINE size == sector_count * SectorWords
           at == WordAddress(LbaAddress)
<1>1. sector_count \in 1..ZeroCount
  BY SizesAssumption, ValuesAssumption DEF IInv, TypeOK, cmd_write_sectors
<1>2. size \in Block!Sizes
  BY <1>1, SizeOfSectors
<1>3. at \in 0..DiskWords
  BY AddressType, WordAddressRange DEF IInv
<1>4. /\ writeSize' = size /\ writeOffset' = 0 /\ run' = "up"
      /\ writeLBA' = LbaAddress /\ status' = {"DRDY", "DRQ"}
  BY DEF cmd_write_sectors, Finish, Present
<1>5. Transfer' = TransferOut'
  BY <1>4, TransferCasesNext DEF Transferring
<1>6. WordAddress(writeLBA)' = at
  BY <1>4 DEF WordAddress
<1>7. [i \in 0..writeOffset' - 1 |-> writeBuffer'[i]] = [i \in 0..-1 |-> 0]
  BY <1>4
<1> HIDE DEF size, at
<1>8. Transfer' = [op |-> "out", pos |-> 0, size |-> size, at |-> at,
                   data |-> [i \in 0..-1 |-> 0]]
  BY <1>4, <1>5, <1>6, <1>7 DEF TransferOut
<1> QED BY <1>2, <1>3, <1>8 DEF Block!Write

LEMMA IdentifyRefines ==
  ASSUME Present, cmd_identify_device, command' = IDENTIFY, UNCHANGED disk
  PROVE  Block!Identify
<1>1. /\ readBuffer' = Identity /\ readOffset' = 0 /\ readSize' = SectorWords
      /\ run' = "up" /\ status' = {"DRDY", "DRQ"}
  BY DEF cmd_identify_device, Finish, Present
<1>2. Transfer' = TransferIn'
  BY <1>1, TransferCasesNext DEF Transferring, IDENTIFY, WRITE
<1> QED BY <1>1, <1>2 DEF TransferIn, Block!Identify

(* A transfer that stops short leaves no trace.                            *)
LEMMA CancelRefines ==
  ASSUME ~Transferring', UNCHANGED disk
  PROVE  Block!Cancel
  BY TransferCasesNext DEF Block!Cancel

LEMMA OutCommandRefines ==
  ASSUME IInv, NEW cmd \in Opcodes, OutCommand(cmd)
  PROVE  Block!Next
<1>1. Present /\ command' = cmd /\ UNCHANGED disk
  BY DEF OutCommand
<1>2. \/ cmd = READ /\ cmd_read_sectors
      \/ cmd = WRITE /\ cmd_write_sectors
      \/ cmd = IDENTIFY /\ cmd_identify_device
      \/ cmd_identify_packet_device \/ cmd_no_data \/ abort
  BY DEF OutCommand, do_command
<1>3. cmd_identify_packet_device \/ cmd_no_data \/ abort => ~Transferring'
  BY DEF Transferring, cmd_identify_packet_device, cmd_no_data, abort, Finish
<1> QED
  BY <1>1, <1>2, <1>3, ReadRefines, WriteRefines, IdentifyRefines,
     CancelRefines DEF Block!Next

(* Accesses that move no data: the transfer stays as it is, or the process *)
(* ends.                                                                   *)
LEMMA RegisterRefines ==
  ASSUME \/ \E dev \in Devices, h \in [lba : BOOLEAN, head : HeadValues] :
               OutDeviceHead(dev, h)
         \/ OutRegister \/ InStatus \/ UnhandledAccess \/ ResetBeforeFirstRead
         \/ UNCHANGED vars
  PROVE  Block!Next \/ UNCHANGED <<disk, Transfer>>
<1>1. /\ UNCHANGED <<command, status, readBuffer, readOffset, readSize,
                     writeBuffer, writeOffset, writeSize, writeLBA, disk>>
      /\ run' # "up" \/ run' = run
  BY DEF OutDeviceHead, OutRegister, InStatus, UnhandledAccess,
         ResetBeforeFirstRead, vars, result, readSide, writeSide
<1>2. CASE run' # "up"
  BY <1>1, <1>2, CancelRefines DEF Transferring, Block!Next
<1>3. CASE run' = run
  BY <1>1, <1>3 DEF Transfer, Transferring, WordAddress
<1> QED BY <1>1, <1>2, <1>3

LEMMA InwRefines ==
  ASSUME IInv, pio_inw
  PROVE  Block!Take
<1>1. /\ Transferring /\ command \in {READ, IDENTIFY}
      /\ readOffset' = readOffset + 1
      /\ UNCHANGED <<command, readBuffer, readSize, disk, run>>
  BY DEF pio_inw, DataRequest
<1>2. Transfer = TransferIn
  BY <1>1, TransferCases DEF READ, WRITE, IDENTIFY
<1>3. CASE readOffset + 1 >= readSize
  <2>1. ~Transferring'
    BY <1>3 DEF pio_inw, Transferring
  <2>2. ~(readOffset + 1 < readSize)
    BY <1>3 DEF IInv, TypeOK
  <2> QED BY <1>1, <1>2, <2>1, <2>2, TransferCasesNext
          DEF TransferIn, Block!Take
<1>4. CASE ~(readOffset + 1 >= readSize)
  <2>1. Transferring' /\ command' # WRITE
    BY <1>1, <1>4 DEF pio_inw, Finish, Transferring, READ, WRITE, IDENTIFY
  <2>2. Transfer' = [op |-> "in", pos |-> readOffset + 1, size |-> readSize,
                     data |-> readBuffer]
    BY <1>1, <2>1, TransferCasesNext DEF TransferIn
  <2>3. readOffset + 1 < readSize
    BY <1>4 DEF IInv, TypeOK
  <2> QED BY <1>1, <1>2, <2>2, <2>3 DEF TransferIn, Block!Take
<1> QED BY <1>3, <1>4

LEMMA OutwRefines ==
  ASSUME IInv, NEW w \in Words, pio_outw(w)
  PROVE  Block!Put(w)
<1>1. /\ Transferring /\ command = WRITE
      /\ writeBuffer' = [writeBuffer EXCEPT ![writeOffset] = w]
      /\ writeOffset' = writeOffset + 1
      /\ UNCHANGED <<command, writeSize, writeLBA, run>>
  BY DEF pio_outw, DataRequest
<1>2. /\ writeOffset < writeSize /\ DOMAIN writeBuffer = 0..writeSize - 1
      /\ writeOffset \in Nat /\ writeSize \in Nat
  BY <1>1 DEF IInv, TypeOK, PioInWindow, WriteWindow
<1>3. Transfer = TransferOut
  BY <1>1, TransferCases
<1>4. Block!Received(w) = [i \in 0..writeOffset |-> writeBuffer'[i]]
  <2>1. /\ Transfer.pos = writeOffset
        /\ \A i \in 0..writeOffset - 1 : Transfer.data[i] = writeBuffer[i]
    BY <1>3 DEF TransferOut
  <2>2. ASSUME NEW i \in 0..writeOffset
        PROVE  writeBuffer'[i] = IF i = writeOffset THEN w ELSE Transfer.data[i]
    <3>1. i \in 0..writeSize - 1 /\ (i # writeOffset => i \in 0..writeOffset - 1)
      BY <1>2, <2>2
    <3> QED BY <1>1, <1>2, <2>1, <3>1
  <2> QED BY <2>1, <2>2 DEF Block!Received
<1>5. CASE writeOffset + 1 = writeSize
  <2>1. PICK k \in Block!Moved(writeSize) :
          disk' = Block!Updated(disk, WordAddress(writeLBA), writeBuffer', k)
    BY <1>5 DEF pio_outw, FlushWrite
  <2>2. ~Transferring'
    BY <1>5 DEF pio_outw, FlushWrite, Transferring
  <2>3. writeBuffer' = [i \in 0..writeOffset |-> writeBuffer'[i]]
    <3>1. 0..writeSize - 1 = 0..writeOffset
      BY <1>2, <1>5
    <3> QED BY <1>1, <1>2, <3>1
  <2>4. disk' = Block!Updated(disk, Transfer.at, Block!Received(w), k)
    BY <1>3, <1>4, <2>1, <2>3 DEF TransferOut
  <2>5. /\ Transfer.op = "out" /\ Transfer.pos + 1 = Transfer.size
        /\ Transfer.size = writeSize
    BY <1>3, <1>5 DEF TransferOut
  <2>6. Transfer' = Block!Idle
    BY <2>2, TransferCasesNext
  <2> QED BY <2>1, <2>4, <2>5, <2>6 DEF Block!Put
<1>6. CASE writeOffset + 1 # writeSize
  <2>1. UNCHANGED <<disk, status>>
    BY <1>6 DEF pio_outw
  <2>2. Transfer' = TransferOut'
    BY <1>1, <2>1, TransferCasesNext DEF Transferring
  <2>3. WordAddress(writeLBA)' = WordAddress(writeLBA)
    BY <1>1 DEF WordAddress
  <2>4. TransferOut' = [op |-> "out", pos |-> writeOffset + 1,
                        size |-> writeSize, at |-> WordAddress(writeLBA),
                        data |-> [i \in 0..writeOffset |-> writeBuffer'[i]]]
    <3>1. 0..writeOffset' - 1 = 0..writeOffset
      BY <1>1, <1>2
    <3> QED BY <1>1, <2>3, <3>1 DEF TransferOut
  <2>5. Transfer.op = "out" /\ Transfer.pos + 1 < Transfer.size
    BY <1>2, <1>3, <1>6 DEF TransferOut
  <2> DEFINE received == Block!Received(w)
  <2>6. TransferOut' = [op |-> "out", pos |-> writeOffset + 1,
                        size |-> writeSize, at |-> WordAddress(writeLBA),
                        data |-> received]
    BY <1>4, <2>4
  <2> HIDE DEF received
  <2>7. [TransferOut EXCEPT !.pos = @ + 1, !.data = received]
          = [op |-> "out", pos |-> writeOffset + 1, size |-> writeSize,
             at |-> WordAddress(writeLBA), data |-> received]
    <3>1. TransferOut.pos = writeOffset
      BY DEF TransferOut
    <3>2. [TransferOut EXCEPT !.pos = @ + 1, !.data = received]
            = [[TransferOut EXCEPT !.pos = writeOffset + 1]
                 EXCEPT !.data = received]
      BY <3>1
    <3> DEFINE was == [i \in 0..writeOffset - 1 |-> writeBuffer[i]]
               now == writeOffset + 1
               to == WordAddress(writeLBA)
               moved == [TransferOut EXCEPT !.pos = now]
    <3>3. TransferOut = [op |-> "out", pos |-> writeOffset, size |-> writeSize,
                         at |-> to, data |-> was]
      BY DEF TransferOut
    <3> HIDE DEF was, now, to
    <3>4. moved = [op |-> "out", pos |-> now, size |-> writeSize, at |-> to,
                   data |-> was]
      BY <3>3
    <3> HIDE DEF moved
    <3>5. [moved EXCEPT !.data = received]
            = [op |-> "out", pos |-> now, size |-> writeSize, at |-> to,
               data |-> received]
      BY <3>4
    <3> QED BY <3>2, <3>5 DEF moved, now, to
  <2>8. Transfer' = [Transfer EXCEPT !.pos = @ + 1, !.data = received]
    BY <1>3, <2>2, <2>6, <2>7
  <2> QED BY <2>1, <2>5, <2>8 DEF Block!Put, received
<1> QED BY <1>5, <1>6

LEMMA NextRefines ==
  ASSUME IInv, [Next]_vars
  PROVE  [Block!Next]_<<disk, Transfer>>
<1>1. ASSUME do_softreset PROVE Block!Next
  <2>1. ~Transferring' /\ UNCHANGED disk
    BY <1>1 DEF do_softreset, Finish, Transferring
  <2> QED BY <2>1, CancelRefines DEF Block!Next
<1>2. ASSUME pio_inw PROVE Block!Next
  BY <1>2, InwRefines DEF Block!Next
<1>3. ASSUME NEW w \in Words, pio_outw(w) PROVE Block!Next
  BY <1>3, OutwRefines DEF Block!Next
<1> QED BY <1>1, <1>2, <1>3, OutCommandRefines, RegisterRefines DEF Next

(* The controller implements the block device, for every sector size,      *)
(* length, disk and address, with a backing file that may fail: every port *)
(* access begins, advances, completes or cancels one transfer whose        *)
(* address and length were fixed by the command, or leaves it alone.       *)
THEOREM ControllerImplementsBlockDevice == Spec => ImplementsBlockDevice
<1>1. Spec => []IInv
  BY InitInv, NextInv, PTL DEF Spec
<1>2. IInv /\ [Next]_vars => [Block!Next]_<<disk, Transfer>>
  BY NextRefines
<1> QED
  BY <1>1, <1>2, BlockInit, PTL DEF Spec, ImplementsBlockDevice, Block!Spec
=============================================================================

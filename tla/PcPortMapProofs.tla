-------------------------- MODULE PcPortMapProofs --------------------------
(* Who serves which port of the assembled machine, for all 65536 of them.  *)
EXTENDS PcPortMap, TLAPS

(* A number shifted right is what remains after one more shift, and a bit. *)
LEMMA Halves ==
  ASSUME NEW n \in Nat
  PROVE  \A b \in Bits : /\ n \div b = 2 * (n \div (2 * b)) + Bit(n, b)
                         /\ Bit(n, b) \in {0, 1}
                         /\ n \div b \in Nat /\ n \div (2 * b) \in Nat
<1> DEFINE P(b) == /\ n \div b = 2 * (n \div (2 * b)) + Bit(n, b)
                   /\ Bit(n, b) \in {0, 1}
                   /\ n \div b \in Nat /\ n \div (2 * b) \in Nat
<1>1. P(1) /\ P(2) /\ P(4) /\ P(8)
  BY SMT DEF Bit
<1>2. P(16) /\ P(32) /\ P(64) /\ P(128)
  BY SMT DEF Bit
<1>3. P(256) /\ P(512) /\ P(1024) /\ P(2048)
  BY SMT DEF Bit
<1>4. P(4096) /\ P(8192) /\ P(16384) /\ P(32768)
  BY SMT DEF Bit
<1> HIDE DEF P
<1>5. \A b \in Bits : P(b)
  BY <1>1, <1>2, <1>3, <1>4 DEF Bits
<1> QED BY <1>5 DEF P

(* Two numbers agree from a bit on if they agree on it and above it.       *)
LEMMA OneBitMore ==
  ASSUME NEW m \in Nat, NEW n \in Nat, NEW b \in Bits
  PROVE  m \div b = n \div b
           <=> m \div (2 * b) = n \div (2 * b) /\ Bit(m, b) = Bit(n, b)
<1> DEFINE mb == m \div b
           m2 == m \div (2 * b)
           nb == n \div b
           n2 == n \div (2 * b)
           x == Bit(m, b)
           y == Bit(n, b)
<1>1. /\ mb = 2 * m2 + x /\ x \in {0, 1} /\ m2 \in Nat
      /\ nb = 2 * n2 + y /\ y \in {0, 1} /\ n2 \in Nat
  BY Halves
<1> HIDE DEF mb, m2, nb, n2, x, y
<1>2. mb = nb <=> m2 = n2 /\ x = y
  BY <1>1
<1> QED BY <1>2 DEF mb, m2, nb, n2, x, y

Agree(m, n, b) == \A v \in Bits : v >= b => Bit(m, v) = Bit(n, v)

LEMMA AgreeAbove ==
  ASSUME NEW m \in Nat, NEW n \in Nat, m < 65536, n < 65536
  PROVE  \A b \in Bits : m \div b = n \div b <=> Agree(m, n, b)
<1> DEFINE Q(b) == m \div b = n \div b
           R(b) == Bit(m, b) = Bit(n, b)
<1>1. \A b \in Bits : Q(b) <=> Q(2 * b) /\ R(b)
  BY OneBitMore
<1>2. Q(65536)
  BY SMT
<1> HIDE DEF Q, R
<1>3. /\ (Q(1) <=> Q(2) /\ R(1)) /\ (Q(2) <=> Q(4) /\ R(2))
      /\ (Q(4) <=> Q(8) /\ R(4)) /\ (Q(8) <=> Q(16) /\ R(8))
      /\ (Q(16) <=> Q(32) /\ R(16)) /\ (Q(32) <=> Q(64) /\ R(32))
      /\ (Q(64) <=> Q(128) /\ R(64)) /\ (Q(128) <=> Q(256) /\ R(128))
      /\ (Q(256) <=> Q(512) /\ R(256)) /\ (Q(512) <=> Q(1024) /\ R(512))
      /\ (Q(1024) <=> Q(2048) /\ R(1024)) /\ (Q(2048) <=> Q(4096) /\ R(2048))
      /\ (Q(4096) <=> Q(8192) /\ R(4096)) /\ (Q(8192) <=> Q(16384) /\ R(8192))
      /\ (Q(16384) <=> Q(32768) /\ R(16384)) /\ (Q(32768) <=> R(32768))
  BY <1>1, <1>2, SMT DEF Bits
<1>4. ASSUME NEW b \in Bits
      PROVE  Q(b) <=> \A v \in Bits : v >= b => R(v)
  BY <1>3, SMT DEF Bits
<1> QED BY <1>4 DEF Agree, Q, R

(* A mask without its low bits has all the others.                         *)
Blocks == {1, 2, 4, 8, 16, 32}

LEMMA BlockMask ==
  ASSUME NEW s \in Blocks, NEW b \in Bits
  PROVE  Bit(65536 - s, b) = IF b >= s THEN 1 ELSE 0
<1> DEFINE P(t) == \A v \in Bits : Bit(65536 - t, v) = IF v >= t THEN 1 ELSE 0
<1>1. P(1) /\ P(2) /\ P(4)
  BY SMT DEF Bit, Bits
<1>2. P(8) /\ P(16) /\ P(32)
  BY SMT DEF Bit, Bits
<1> HIDE DEF P
<1>3. P(s)
  BY <1>1, <1>2 DEF Blocks
<1> QED BY <1>3 DEF P

LEMMA AlignedBits ==
  ASSUME NEW s \in Blocks, NEW n \in Nat, n % s = 0, NEW b \in Bits, b < s
  PROVE  Bit(n, b) = 0
<1>1. CASE s = 1
  BY <1>1 DEF Bits
<1>2. CASE s = 2 \/ s = 4
  BY <1>2, SMT DEF Bits, Bit
<1>3. CASE s = 8
  BY <1>3, SMT DEF Bits, Bit
<1>4. CASE s = 16
  BY <1>4, SMT DEF Bits, Bit
<1>5. CASE s = 32
  BY <1>5, SMT DEF Bits, Bit
<1> QED BY <1>1, <1>2, <1>3, <1>4, <1>5 DEF Blocks

LEMMA BlockOf ==
  ASSUME NEW s \in Blocks, NEW n \in Nat, n % s = 0, NEW p \in Nat
  PROVE  n \div s = p \div s <=> n <= p /\ p < n + s
<1>1. CASE s = 1
  <2>1. n \div 1 = n /\ p \div 1 = p
    BY SMT
  <2> QED BY <1>1, <2>1
<1>2. CASE s = 2 \/ s = 4
  BY <1>2, SMT
<1>3. CASE s = 8 \/ s = 16 \/ s = 32
  BY <1>3, SMT
<1> QED BY <1>1, <1>2, <1>3 DEF Blocks

(* A handler whose mask leaves out the low bits of an aligned base claims  *)
(* a block of ports.                                                       *)
LEMMA SelectsBlock ==
  ASSUME NEW s \in Blocks, NEW base \in Nat, base < 65536, base % s = 0,
         NEW p \in Nat, p < 65536
  PROVE  Selects(base, 65536 - s, p) <=> base <= p /\ p < base + s
<1>1. s \in Bits
  BY DEF Blocks, Bits
<1>2. Selects(base, 65536 - s, p)
        <=> \A b \in Bits : Bit(base, b) = IF b >= s THEN Bit(p, b) ELSE 0
  BY BlockMask DEF Selects
<1>3. Selects(base, 65536 - s, p) <=> Agree(base, p, s)
  <2>1. \A b \in Bits : ~(b >= s) => Bit(base, b) = 0
    BY AlignedBits DEF Bits, Blocks
  <2> QED BY <1>2, <2>1 DEF Agree
<1>4. Agree(base, p, s) <=> base \div s = p \div s
  BY <1>1, AgreeAbove
<1> QED BY <1>3, <1>4, BlockOf

(* CMOS looks at the low byte of the address only.                         *)
LEMMA LowByteBits ==
  ASSUME NEW p \in Nat, NEW b \in Bits
  PROVE  Bit(p % 256, b) = IF b < 256 THEN Bit(p, b) ELSE 0
<1> DEFINE P(v) == Bit(p % 256, v) = IF v < 256 THEN Bit(p, v) ELSE 0
<1>1. P(1) /\ P(2) /\ P(4) /\ P(8)
  BY SMT DEF Bit
<1>2. P(16) /\ P(32) /\ P(64) /\ P(128)
  BY SMT DEF Bit
<1>3. P(256) /\ P(512) /\ P(1024) /\ P(2048)
  BY SMT DEF Bit
<1>4. P(4096) /\ P(8192) /\ P(16384) /\ P(32768)
  BY SMT DEF Bit
<1> HIDE DEF P
<1>5. P(b)
  BY <1>1, <1>2, <1>3, <1>4 DEF Bits
<1> QED BY <1>5 DEF P

LEMMA CmosMask ==
  ASSUME NEW b \in Bits
  PROVE  /\ Bit(\hFE, b) = IF b >= 2 /\ b < 256 THEN 1 ELSE 0
         /\ b >= 256 => Bit(\h70, b) = 0
  BY SMT DEF Bit, Bits

LEMMA SelectsCmos ==
  ASSUME NEW p \in Nat, p < 65536
  PROVE  Selects(\h70, \hFE, p) <=> p % 256 \in {\h70, \h71}
<1>1. p % 256 \in Nat /\ p % 256 < 65536
  OBVIOUS
<1>2. Selects(\h70, \hFFFE, p % 256) <=> p % 256 \in {\h70, \h71}
  BY <1>1, SelectsBlock, 2 \in Blocks DEF Blocks
<1>3. Selects(\h70, \hFE, p) <=> Selects(\h70, \hFFFE, p % 256)
  <2>1. \A b \in Bits : Bit(\hFFFE, b) = IF b >= 2 THEN 1 ELSE 0
    BY BlockMask, 2 \in Blocks DEF Blocks
  <2>2. \A b \in Bits : b >= 2 \/ b < 2
    BY DEF Bits
  <2> QED BY <2>1, <2>2, CmosMask, LowByteBits, SMT DEF Selects
<1> QED BY <1>2, <1>3

(* ATA leaves out bit 9 too.                                               *)
LEMMA SelectsAta ==
  ASSUME NEW p \in Nat, \h1F0 <= p, p < \h1F8
  PROVE  Selects(\h1F0, \hFDF8, p)
<1>1. Selects(\h1F0, \hFFF8, p)
  BY SelectsBlock, 8 \in Blocks DEF Blocks
<1>2. \A b \in Bits : Bit(\hFDF8, b) = IF b = 512 THEN 0 ELSE Bit(\hFFF8, b)
  BY SMT DEF Bit, Bits
<1>3. Bit(\h1F0, 512) = 0
  BY SMT DEF Bit
<1> QED BY <1>1, <1>2, <1>3 DEF Selects

-----------------------------------------------------------------------------
(* The table after devices_register_all.                                   *)
Table == devices_register_all
Registered == {Table[i] : i \in 1..Len(Table)}

LEMMA TableSize == Len(Table) = 21
  BY DEF Table, devices_register_all

LEMMA TableType == Table \in Seq(Registered)
  BY DEF Table, Registered, devices_register_all

LEMMA TableEntries ==
  /\ Table[1] = cmos /\ Table[2] = ps2_pos /\ Table[3] = bios_debug
  /\ Table[4] = dma0 /\ Table[5] = dma1 /\ Table[6] = dma_page
  /\ Table[7] = pci /\ Table[8] = qemu_paravirt /\ Table[9] = keyboard
  /\ Table[10] = parallel(\h378) /\ Table[11] = parallel(\h278)
  /\ Table[12] = serial(\h3F8) /\ Table[13] = serial(\h2F8)
  /\ Table[14] = serial(\h3E8) /\ Table[15] = serial(\h2E8)
  /\ Table[16] = vga(\h3C0) /\ Table[17] = vga(\h3D0)
  /\ Table[18] = vga_debug /\ Table[19] = vbe
  /\ Table[20] = floppy /\ Table[21] = ata
  BY DEF Table, devices_register_all

LEMMA BlockPorts ==
  ASSUME NEW dev, NEW ops, NEW s \in Blocks, NEW base \in Nat, base < 65536,
         base % s = 0, NEW mask, mask = 65536 - s, NEW p \in Ports
  PROVE  p \in handler(dev, base, mask, ops).ports <=> base <= p /\ p < base + s
<1>1. p \in Nat /\ p < 65536
  BY PortsAssumption
<1>2. Selects(base, mask, p) <=> base <= p /\ p < base + s
  BY <1>1, SelectsBlock
<1> QED BY <1>2 DEF handler

LEMMA BlocksOfPorts ==
  ASSUME NEW p \in Ports, NEW base \in Nat, base < 65536, NEW dev, NEW ops
  PROVE  /\ p \in handler(dev, base, \hFFFF, ops).ports <=> p = base
         /\ base % 2 = 0 => (p \in handler(dev, base, \hFFFE, ops).ports
                                <=> base <= p /\ p < base + 2)
         /\ base % 4 = 0 => (p \in handler(dev, base, \hFFFC, ops).ports
                                <=> base <= p /\ p < base + 4)
         /\ base % 8 = 0 => (p \in handler(dev, base, \hFFF8, ops).ports
                                <=> base <= p /\ p < base + 8)
         /\ base % 16 = 0 => (p \in handler(dev, base, \hFFF0, ops).ports
                                <=> base <= p /\ p < base + 16)
         /\ base % 32 = 0 => (p \in handler(dev, base, \hFFE0, ops).ports
                                <=> base <= p /\ p < base + 32)
<1> DEFINE P(s, mask) ==
             base % s = 0 => (p \in handler(dev, base, mask, ops).ports
                                <=> base <= p /\ p < base + s)
<1>1. \A s \in Blocks : \A mask : mask = 65536 - s => P(s, mask)
  BY BlockPorts
<1> HIDE DEF P
<1>2. P(1, \hFFFF) /\ P(2, \hFFFE) /\ P(4, \hFFFC)
  BY <1>1, SMT DEF Blocks
<1>3. P(8, \hFFF8) /\ P(16, \hFFF0) /\ P(32, \hFFE0)
  BY <1>1, SMT DEF Blocks
<1>4. p \in Nat
  BY PortsAssumption
<1> QED BY <1>2, <1>3, <1>4, SMT DEF P

(* The ports of each handler, as numbers.                                  *)
LEMMA Claims ==
  ASSUME NEW p \in Ports
  PROVE  /\ p \in cmos.ports <=> p % 256 \in {\h70, \h71}
         /\ p \in ps2_pos.ports <=> \h90 <= p /\ p < \h98
         /\ p \in bios_debug.ports <=> \h402 <= p /\ p < \h403
         /\ p \in dma0.ports <=> 0 <= p /\ p < \h10
         /\ p \in dma1.ports <=> \hC0 <= p /\ p < \hE0
         /\ p \in dma_page.ports <=> \h80 <= p /\ p < \h90
         /\ p \in pci.ports <=> \hCF8 <= p /\ p < \hD00
         /\ p \in qemu_paravirt.ports <=> \h510 <= p /\ p < \h512
         /\ p \in keyboard.ports <=> \h60 <= p /\ p < \h68
         /\ p \in parallel(\h378).ports <=> \h378 <= p /\ p < \h37C
         /\ p \in parallel(\h278).ports <=> \h278 <= p /\ p < \h27C
         /\ p \in serial(\h3F8).ports <=> \h3F8 <= p /\ p < \h400
         /\ p \in serial(\h2F8).ports <=> \h2F8 <= p /\ p < \h300
         /\ p \in serial(\h3E8).ports <=> \h3E8 <= p /\ p < \h3F0
         /\ p \in serial(\h2E8).ports <=> \h2E8 <= p /\ p < \h2F0
         /\ p \in vga(\h3C0).ports <=> \h3C0 <= p /\ p < \h3D0
         /\ p \in vga(\h3D0).ports <=> \h3D0 <= p /\ p < \h3E0
         /\ p \in vga_debug.ports <=> \h500 <= p /\ p < \h501
         /\ p \in vbe.ports <=> \h1CE <= p /\ p < \h1D0
         /\ p \in floppy.ports <=> \h3F0 <= p /\ p < \h3F8
         /\ \h1F0 <= p /\ p < \h1F8 => p \in ata.ports
<1>1. p \in Nat /\ p < 65536
  BY PortsAssumption
<1>2. p \in cmos.ports <=> p % 256 \in {\h70, \h71}
  BY <1>1, SelectsCmos DEF cmos, handler
<1>3. \h1F0 <= p /\ p < \h1F8 => p \in ata.ports
  BY <1>1, SelectsAta DEF ata, handler
<1>4. p \in ps2_pos.ports <=> \h90 <= p /\ p < \h98
  BY <1>1, BlocksOfPorts, SMT DEF ps2_pos
<1>5. p \in bios_debug.ports <=> \h402 <= p /\ p < \h403
  BY <1>1, BlocksOfPorts, SMT DEF bios_debug
<1>6. p \in dma0.ports <=> 0 <= p /\ p < \h10
  BY <1>1, BlocksOfPorts, SMT DEF dma0
<1>7. p \in dma1.ports <=> \hC0 <= p /\ p < \hE0
  BY <1>1, BlocksOfPorts, SMT DEF dma1
<1>8. p \in dma_page.ports <=> \h80 <= p /\ p < \h90
  BY <1>1, BlocksOfPorts, SMT DEF dma_page
<1>9. p \in pci.ports <=> \hCF8 <= p /\ p < \hD00
  BY <1>1, BlocksOfPorts, SMT DEF pci
<1>10. p \in qemu_paravirt.ports <=> \h510 <= p /\ p < \h512
  BY <1>1, BlocksOfPorts, SMT DEF qemu_paravirt
<1>11. p \in keyboard.ports <=> \h60 <= p /\ p < \h68
  BY <1>1, BlocksOfPorts, SMT DEF keyboard
<1>12. p \in parallel(\h378).ports <=> \h378 <= p /\ p < \h37C
  BY <1>1, BlocksOfPorts, SMT DEF parallel
<1>13. p \in parallel(\h278).ports <=> \h278 <= p /\ p < \h27C
  BY <1>1, BlocksOfPorts, SMT DEF parallel
<1>14. p \in serial(\h3F8).ports <=> \h3F8 <= p /\ p < \h400
  BY <1>1, BlocksOfPorts, SMT DEF serial
<1>15. p \in serial(\h2F8).ports <=> \h2F8 <= p /\ p < \h300
  BY <1>1, BlocksOfPorts, SMT DEF serial
<1>16. p \in serial(\h3E8).ports <=> \h3E8 <= p /\ p < \h3F0
  BY <1>1, BlocksOfPorts, SMT DEF serial
<1>17. p \in serial(\h2E8).ports <=> \h2E8 <= p /\ p < \h2F0
  BY <1>1, BlocksOfPorts, SMT DEF serial
<1>18. p \in vga(\h3C0).ports <=> \h3C0 <= p /\ p < \h3D0
  BY <1>1, BlocksOfPorts, SMT DEF vga
<1>19. p \in vga(\h3D0).ports <=> \h3D0 <= p /\ p < \h3E0
  BY <1>1, BlocksOfPorts, SMT DEF vga
<1>20. p \in vga_debug.ports <=> \h500 <= p /\ p < \h501
  BY <1>1, BlocksOfPorts, SMT DEF vga_debug
<1>21. p \in vbe.ports <=> \h1CE <= p /\ p < \h1D0
  BY <1>1, BlocksOfPorts, SMT DEF vbe
<1>22. p \in floppy.ports <=> \h3F0 <= p /\ p < \h3F8
  BY <1>1, BlocksOfPorts, SMT DEF floppy
<1> QED BY <1>2, <1>3, <1>4, <1>5, <1>6, <1>7, <1>8, <1>9, <1>10, <1>11,
           <1>12, <1>13, <1>14, <1>15, <1>16, <1>17, <1>18, <1>19, <1>20,
           <1>21, <1>22
(* The boot.  iohandler is the first part of the table.                    *)
Booting ==
  /\ booted \in 0..Len(Table)
  /\ iohandler \in Seq(Registered) /\ Len(iohandler) = booted
  /\ \A i \in 1..booted : iohandler[i] = Table[i]

LEMMA BootInit == Init => Booting
  BY TableSize DEF Init, Bus!Init, Booting

LEMMA BootStep == Booting /\ [Next]_vars => Booting'
<1> SUFFICES ASSUME Booting, [Next]_vars PROVE Booting'
  OBVIOUS
<1>1. CASE Boot
  <2>1. /\ booted \in Nat /\ booted < 21 /\ booted' = booted + 1
        /\ Len(iohandler) = booted /\ iohandler \in Seq(Registered)
    BY <1>1, TableSize DEF Boot, Booting, Table
  <2>2. Table[booted + 1] \in Registered
    BY <2>1, TableSize DEF Registered
  <2>3. iohandler' = Append(iohandler, Table[booted + 1])
    BY <1>1, <2>1 DEF Boot, Bus!io_register_handler, Table
  <2>4. /\ iohandler' \in Seq(Registered) /\ Len(iohandler') = booted + 1
        /\ \A i \in 1..booted : iohandler'[i] = iohandler[i]
        /\ iohandler'[booted + 1] = Table[booted + 1]
    BY <2>1, <2>2, <2>3
  <2> QED BY <2>1, <2>4, TableSize DEF Booting
<1>2. CASE Guest \/ UNCHANGED vars
  <2>1. UNCHANGED <<iohandler, booted>>
    BY <1>2 DEF Guest, Bus!Access, vars
  <2> QED BY <2>1 DEF Booting
<1> QED BY <1>1, <1>2 DEF Next

(* The handler of a port is the first of the table that claims it.         *)
Takes(i, p) == p \in Table[i].ports

LEMMA FirstTaker ==
  ASSUME Booting, booted = 21, NEW p \in Ports, NEW i \in 1..21,
         Takes(i, p), \A j \in 1..i - 1 : ~Takes(j, p)
  PROVE  Serves(Table[i].dev, p)
<1>1. /\ Len(iohandler) = 21
      /\ \A j \in 1..21 : iohandler[j] = Table[j]
  BY DEF Booting
<1>2. \A j \in 1..21 : Bus!Matches(j, p) <=> Takes(j, p)
  BY <1>1 DEF Bus!Matches, Takes
<1>3. Bus!First(i, p)
  BY <1>1, <1>2 DEF Bus!First
<1>4. \A j \in 1..21 : Bus!First(j, p) => j = i
  BY <1>1, <1>2, <1>3 DEF Bus!First
<1>5. Bus!lookup_handler(p) = i
  BY <1>1, <1>3, <1>4 DEF Bus!lookup_handler
<1> QED BY <1>1, <1>5 DEF Serves

LEMMA Names ==
  /\ Table[1].dev = "cmos" /\ Table[2].dev = "ps2_pos"
  /\ Table[3].dev = "bios_debug" /\ Table[4].dev = "dma0"
  /\ Table[5].dev = "dma1" /\ Table[6].dev = "dma_page"
  /\ Table[7].dev = "pci" /\ Table[8].dev = "qemu_paravirt"
  /\ Table[9].dev = "keyboard" /\ Table[10].dev = "parallel"
  /\ Table[11].dev = "parallel" /\ Table[12].dev = "serial"
  /\ Table[13].dev = "serial" /\ Table[14].dev = "serial"
  /\ Table[15].dev = "serial" /\ Table[16].dev = "vga"
  /\ Table[17].dev = "vga" /\ Table[18].dev = "vga_debug"
  /\ Table[19].dev = "vbe" /\ Table[20].dev = "floppy"
  /\ Table[21].dev = "ata"
  BY TableEntries DEF handler, cmos, ps2_pos, bios_debug, dma0, dma1, dma_page,
       pci, qemu_paravirt, keyboard, parallel, serial, vga, vga_debug, vbe,
       floppy, ata
(* Which slot is the first to take a port.                              *)
LEMMA Takers ==
  ASSUME NEW p \in Ports
  PROVE  /\ p \in Nat
         /\ Takes(1, p) <=> p % 256 \in {\h70, \h71}
         /\ Takes(2, p) <=> \h90 <= p /\ p < \h98
         /\ Takes(3, p) <=> p = \h402
         /\ Takes(4, p) <=> 0 <= p /\ p < \h10
         /\ Takes(5, p) <=> \hC0 <= p /\ p < \hE0
         /\ Takes(6, p) <=> \h80 <= p /\ p < \h90
         /\ Takes(7, p) <=> \hCF8 <= p /\ p < \hD00
         /\ Takes(8, p) <=> \h510 <= p /\ p < \h512
         /\ Takes(9, p) <=> \h60 <= p /\ p < \h68
         /\ Takes(10, p) <=> \h378 <= p /\ p < \h37C
         /\ Takes(11, p) <=> \h278 <= p /\ p < \h27C
         /\ Takes(12, p) <=> \h3F8 <= p /\ p < \h400
         /\ Takes(13, p) <=> \h2F8 <= p /\ p < \h300
         /\ Takes(14, p) <=> \h3E8 <= p /\ p < \h3F0
         /\ Takes(15, p) <=> \h2E8 <= p /\ p < \h2F0
         /\ Takes(16, p) <=> \h3C0 <= p /\ p < \h3D0
         /\ Takes(17, p) <=> \h3D0 <= p /\ p < \h3E0
         /\ Takes(18, p) <=> p = \h500
         /\ Takes(19, p) <=> \h1CE <= p /\ p < \h1D0
         /\ Takes(20, p) <=> \h3F0 <= p /\ p < \h3F8
         /\ \h1F0 <= p /\ p < \h1F8 => Takes(21, p)
<1>1. p \in Nat
  BY PortsAssumption
<1> QED BY <1>1, Claims, TableEntries, SMT DEF Takes

FirstSlot(p, i) == Takes(i, p) /\ \A j \in 1..i - 1 : ~Takes(j, p)

LEMMA Slots ==
  ASSUME NEW p \in Ports
  PROVE  /\ p \in {\h70, \h71} => FirstSlot(p, 1)
         /\ p = \h92 => FirstSlot(p, 2)
         /\ p = \h402 => FirstSlot(p, 3)
         /\ p < \h10 => FirstSlot(p, 4)
         /\ \hC0 <= p /\ p < \hE0 => FirstSlot(p, 5)
         /\ \h80 <= p /\ p < \h90 => FirstSlot(p, 6)
         /\ \hCF8 <= p /\ p < \hD00 => FirstSlot(p, 7)
         /\ \h510 <= p /\ p < \h512 => FirstSlot(p, 8)
         /\ \h60 <= p /\ p < \h68 => FirstSlot(p, 9)
         /\ \h378 <= p /\ p < \h37C => FirstSlot(p, 10)
         /\ \h278 <= p /\ p < \h27C => FirstSlot(p, 11)
         /\ \h3F8 <= p /\ p < \h400 => FirstSlot(p, 12)
         /\ \h2F8 <= p /\ p < \h300 => FirstSlot(p, 13)
         /\ \h3E8 <= p /\ p < \h3F0 => FirstSlot(p, 14)
         /\ \h2E8 <= p /\ p < \h2F0 => FirstSlot(p, 15)
         /\ \h3C0 <= p /\ p < \h3D0 => FirstSlot(p, 16)
         /\ \h3D0 <= p /\ p < \h3E0 => FirstSlot(p, 17)
         /\ p = \h500 => FirstSlot(p, 18)
         /\ \h1CE <= p /\ p < \h1D0 => FirstSlot(p, 19)
         /\ \h3F0 <= p /\ p < \h3F8 => FirstSlot(p, 20)
         /\ \h1F0 <= p /\ p < \h1F8 => FirstSlot(p, 21)
<1>1. p \in {\h70, \h71} => FirstSlot(p, 1)
  BY Takers, SMT DEF FirstSlot
<1>2. p = \h92 => FirstSlot(p, 2)
  BY Takers, SMT DEF FirstSlot
<1>3. p = \h402 => FirstSlot(p, 3)
  BY Takers, SMT DEF FirstSlot
<1>4. p < \h10 => FirstSlot(p, 4)
  BY Takers, SMT DEF FirstSlot
<1>5. \hC0 <= p /\ p < \hE0 => FirstSlot(p, 5)
  BY Takers, SMT DEF FirstSlot
<1>6. \h80 <= p /\ p < \h90 => FirstSlot(p, 6)
  BY Takers, SMT DEF FirstSlot
<1>7. \hCF8 <= p /\ p < \hD00 => FirstSlot(p, 7)
  BY Takers, SMT DEF FirstSlot
<1>8. \h510 <= p /\ p < \h512 => FirstSlot(p, 8)
  BY Takers, SMT DEF FirstSlot
<1>9. \h60 <= p /\ p < \h68 => FirstSlot(p, 9)
  BY Takers, SMT DEF FirstSlot
<1>10. \h378 <= p /\ p < \h37C => FirstSlot(p, 10)
  BY Takers, SMT DEF FirstSlot
<1>11. \h278 <= p /\ p < \h27C => FirstSlot(p, 11)
  BY Takers, SMT DEF FirstSlot
<1>12. \h3F8 <= p /\ p < \h400 => FirstSlot(p, 12)
  BY Takers, SMT DEF FirstSlot
<1>13. \h2F8 <= p /\ p < \h300 => FirstSlot(p, 13)
  BY Takers, SMT DEF FirstSlot
<1>14. \h3E8 <= p /\ p < \h3F0 => FirstSlot(p, 14)
  BY Takers, SMT DEF FirstSlot
<1>15. \h2E8 <= p /\ p < \h2F0 => FirstSlot(p, 15)
  BY Takers, SMT DEF FirstSlot
<1>16. \h3C0 <= p /\ p < \h3D0 => FirstSlot(p, 16)
  BY Takers, SMT DEF FirstSlot
<1>17. \h3D0 <= p /\ p < \h3E0 => FirstSlot(p, 17)
  BY Takers, SMT DEF FirstSlot
<1>18. p = \h500 => FirstSlot(p, 18)
  BY Takers, SMT DEF FirstSlot
<1>19. \h1CE <= p /\ p < \h1D0 => FirstSlot(p, 19)
  BY Takers, SMT DEF FirstSlot
<1>20. \h3F0 <= p /\ p < \h3F8 => FirstSlot(p, 20)
  BY Takers, SMT DEF FirstSlot
<1>21. \h1F0 <= p /\ p < \h1F8 => FirstSlot(p, 21)
  BY Takers, SMT DEF FirstSlot
<1> QED BY <1>1, <1>2, <1>3, <1>4, <1>5, <1>6, <1>7, <1>8, <1>9, <1>10, <1>11,
           <1>12, <1>13, <1>14, <1>15, <1>16, <1>17, <1>18, <1>19, <1>20,
           <1>21
LEMMA SlotServes ==
  ASSUME Booting, booted = 21, NEW p \in Ports, NEW i \in 1..21, FirstSlot(p, i)
  PROVE  Serves(Table[i].dev, p)
  BY FirstTaker DEF FirstSlot

(* ATA's bit 6 tells 0x3B4 from its ports.                                 *)
LEMMA AtaLeavesCrtc ==
  ASSUME \h3B4 \in Ports
  PROVE  ~Takes(21, \h3B4)
<1>1. 64 \in Bits /\ Bit(\hFDF8, 64) = 1 /\ Bit(\h1F0, 64) = 1
      /\ Bit(\h3B4, 64) = 0
  BY SMT DEF Bits, Bit
<1>2. ~Selects(\h1F0, \hFDF8, \h3B4)
  BY <1>1 DEF Selects
<1> QED BY <1>2, TableEntries DEF Takes, ata, handler

(* A port that no slot takes has no handler.                               *)
LEMMA NoTaker ==
  ASSUME Booting, booted = 21, NEW p \in Ports, \A j \in 1..21 : ~Takes(j, p),
         NEW dev
  PROVE  ~Serves(dev, p)
<1>1. /\ Len(iohandler) = 21
      /\ \A j \in 1..21 : iohandler[j] = Table[j]
  BY DEF Booting
<1>2. \A j \in 1..21 : ~Bus!First(j, p)
  BY <1>1 DEF Bus!First, Bus!Matches, Takes
<1>3. Bus!lookup_handler(p) = 0
  BY <1>1, <1>2 DEF Bus!lookup_handler
<1> QED BY <1>3 DEF Serves

LEMMA NotReached ==
  ASSUME Booting, booted = 21
  PROVE  /\ \h3B4 \in Ports => ~Serves("vga", \h3B4)
         /\ \h3F6 \in Ports => Serves("floppy", \h3F6) /\ ~Serves("ata", \h3F6)
<1>1. ASSUME \h3B4 \in Ports PROVE ~Serves("vga", \h3B4)
  <2>1. \A j \in 1..20 : ~Takes(j, \h3B4)
    BY <1>1, Takers, SMT
  <2>2. \A j \in 1..21 : j \in 1..20 \/ j = 21
    OBVIOUS
  <2>3. \A j \in 1..21 : ~Takes(j, \h3B4)
    BY <1>1, <2>1, <2>2, AtaLeavesCrtc
  <2> QED BY <1>1, <2>3, NoTaker
<1>2. ASSUME \h3F6 \in Ports
      PROVE  Serves("floppy", \h3F6) /\ ~Serves("ata", \h3F6)
  <2>1. FirstSlot(\h3F6, 20)
    BY <1>2, Slots, SMT
  <2>2. Serves("floppy", \h3F6)
    BY <1>2, <2>1, SlotServes, Names
  <2> QED BY <2>2 DEF Serves
<1> QED BY <1>1, <1>2

(* A device that the table names is served at the ports it implements.     *)
LEMMA AllReached ==
  ASSUME Booting, booted = 21
  PROVE  \A dev \in DOMAIN Implemented : \A p \in Implemented[dev] \cap Ports :
           Serves(dev, p) <=> <<dev, p>> \notin Unreached
<1> DEFINE Reached(dev, S) == \A p \in S \cap Ports : Serves(dev, p)
<1>1. Reached("cmos", Implemented.cmos)
  <2> SUFFICES ASSUME NEW p \in Ports, p \in Implemented.cmos
               PROVE  Serves("cmos", p)
    OBVIOUS
  <2>1. FirstSlot(p, 1)
    BY Slots, PortsAssumption, SMT DEF Implemented
  <2> QED BY <2>1, SlotServes, Names
<1>2. Reached("ps2_pos", Implemented.ps2_pos)
  <2> SUFFICES ASSUME NEW p \in Ports, p \in Implemented.ps2_pos
               PROVE  Serves("ps2_pos", p)
    OBVIOUS
  <2>1. FirstSlot(p, 2)
    BY Slots, PortsAssumption, SMT DEF Implemented
  <2> QED BY <2>1, SlotServes, Names
<1>3. Reached("bios_debug", Implemented.bios_debug)
  <2> SUFFICES ASSUME NEW p \in Ports, p \in Implemented.bios_debug
               PROVE  Serves("bios_debug", p)
    OBVIOUS
  <2>1. FirstSlot(p, 3)
    BY Slots, PortsAssumption, SMT DEF Implemented
  <2> QED BY <2>1, SlotServes, Names
<1>4. Reached("dma0", Implemented.dma0)
  <2> SUFFICES ASSUME NEW p \in Ports, p \in Implemented.dma0
               PROVE  Serves("dma0", p)
    OBVIOUS
  <2>1. FirstSlot(p, 4)
    BY Slots, PortsAssumption, SMT DEF Implemented
  <2> QED BY <2>1, SlotServes, Names
<1>5. Reached("dma1", Implemented.dma1)
  <2> SUFFICES ASSUME NEW p \in Ports, p \in Implemented.dma1
               PROVE  Serves("dma1", p)
    OBVIOUS
  <2>1. FirstSlot(p, 5)
    BY Slots, PortsAssumption, SMT DEF Implemented
  <2> QED BY <2>1, SlotServes, Names
<1>6. Reached("dma_page", Implemented.dma_page)
  <2> SUFFICES ASSUME NEW p \in Ports, p \in Implemented.dma_page
               PROVE  Serves("dma_page", p)
    OBVIOUS
  <2>1. FirstSlot(p, 6)
    BY Slots, PortsAssumption, SMT DEF Implemented
  <2> QED BY <2>1, SlotServes, Names
<1>7. Reached("pci", Implemented.pci)
  <2> SUFFICES ASSUME NEW p \in Ports, p \in Implemented.pci
               PROVE  Serves("pci", p)
    OBVIOUS
  <2>1. FirstSlot(p, 7)
    BY Slots, PortsAssumption, SMT DEF Implemented
  <2> QED BY <2>1, SlotServes, Names
<1>8. Reached("qemu_paravirt", Implemented.qemu_paravirt)
  <2> SUFFICES ASSUME NEW p \in Ports, p \in Implemented.qemu_paravirt
               PROVE  Serves("qemu_paravirt", p)
    OBVIOUS
  <2>1. FirstSlot(p, 8)
    BY Slots, PortsAssumption, SMT DEF Implemented
  <2> QED BY <2>1, SlotServes, Names
<1>9. Reached("keyboard", Implemented.keyboard)
  <2> SUFFICES ASSUME NEW p \in Ports, p \in Implemented.keyboard
               PROVE  Serves("keyboard", p)
    OBVIOUS
  <2>1. FirstSlot(p, 9)
    BY Slots, PortsAssumption, SMT DEF Implemented
  <2> QED BY <2>1, SlotServes, Names
<1>10. Reached("parallel", Implemented.parallel)
  <2> SUFFICES ASSUME NEW p \in Ports, p \in Implemented.parallel
               PROVE  Serves("parallel", p)
    OBVIOUS
  <2>1. FirstSlot(p, 10) \/ FirstSlot(p, 11)
    BY Slots, PortsAssumption, SMT DEF Implemented
  <2> QED BY <2>1, SlotServes, Names
<1>11. Reached("serial", Implemented.serial)
  <2> SUFFICES ASSUME NEW p \in Ports, p \in Implemented.serial
               PROVE  Serves("serial", p)
    OBVIOUS
  <2>1. FirstSlot(p, 12) \/ FirstSlot(p, 13) \/ FirstSlot(p, 14)
        \/ FirstSlot(p, 15)
    BY Slots, PortsAssumption, SMT DEF Implemented
  <2> QED BY <2>1, SlotServes, Names
<1>12. Reached("vga", Implemented.vga \ {\h3B4})
  <2> SUFFICES ASSUME NEW p \in (Implemented.vga \ {\h3B4}) \cap Ports
               PROVE  Serves("vga", p)
    BY Zenon DEF Reached
  <2>a. p \in Implemented.vga /\ p # \h3B4 /\ p \in Ports
    OBVIOUS
  <2>1. FirstSlot(p, 16) \/ FirstSlot(p, 17)
    BY <2>a, Slots, PortsAssumption, SMT DEF Implemented
  <2> QED BY <2>1, SlotServes, Names
<1>13. Reached("vga_debug", Implemented.vga_debug)
  <2> SUFFICES ASSUME NEW p \in Ports, p \in Implemented.vga_debug
               PROVE  Serves("vga_debug", p)
    OBVIOUS
  <2>1. FirstSlot(p, 18)
    BY Slots, PortsAssumption, SMT DEF Implemented
  <2> QED BY <2>1, SlotServes, Names
<1>14. Reached("vbe", Implemented.vbe)
  <2> SUFFICES ASSUME NEW p \in Ports, p \in Implemented.vbe
               PROVE  Serves("vbe", p)
    OBVIOUS
  <2>1. FirstSlot(p, 19)
    BY Slots, PortsAssumption, SMT DEF Implemented
  <2> QED BY <2>1, SlotServes, Names
<1>15. Reached("floppy", Implemented.floppy)
  <2> SUFFICES ASSUME NEW p \in Ports, p \in Implemented.floppy
               PROVE  Serves("floppy", p)
    OBVIOUS
  <2>1. FirstSlot(p, 20)
    BY Slots, PortsAssumption, SMT DEF Implemented
  <2> QED BY <2>1, SlotServes, Names
<1>16. Reached("ata", Implemented.ata \ {\h3F6})
  <2> SUFFICES ASSUME NEW p \in (Implemented.ata \ {\h3F6}) \cap Ports
               PROVE  Serves("ata", p)
    BY Zenon DEF Reached
  <2>a. p \in Implemented.ata /\ p # \h3F6 /\ p \in Ports
    OBVIOUS
  <2>1. FirstSlot(p, 21)
    BY <2>a, Slots, PortsAssumption, SMT DEF Implemented
  <2> QED BY <2>1, SlotServes, Names
<1> HIDE DEF Reached
<1>17. DOMAIN Implemented =
         {"cmos", "ps2_pos", "bios_debug", "dma0", "dma1", "dma_page", "pci",
          "qemu_paravirt", "keyboard", "parallel", "serial", "vga",
          "vga_debug", "vbe", "floppy", "ata"}
  BY DEF Implemented
<1>18. \A dev \in DOMAIN Implemented \ {"vga", "ata"} :
         Reached(dev, Implemented[dev])
  BY <1>1, <1>2, <1>3, <1>4, <1>5, <1>6, <1>7, <1>8, <1>9, <1>10, <1>11,
     <1>13, <1>14, <1>15, <1>17
<1>19. ASSUME NEW dev \in DOMAIN Implemented \ {"vga", "ata"},
              NEW p \in Implemented[dev] \cap Ports
       PROVE  Serves(dev, p) /\ <<dev, p>> \notin Unreached
  BY <1>18, <1>19 DEF Reached, Unreached
<1>20. ASSUME NEW p \in Implemented.vga \cap Ports
       PROVE  Serves("vga", p) <=> <<"vga", p>> \notin Unreached
  <2>1. <<"vga", p>> \in Unreached <=> p = \h3B4
    BY SMT DEF Unreached
  <2> QED BY <1>12, <2>1, NotReached DEF Reached
<1>21. ASSUME NEW p \in Implemented.ata \cap Ports
       PROVE  Serves("ata", p) <=> <<"ata", p>> \notin Unreached
  <2>1. <<"ata", p>> \in Unreached <=> p = \h3F6
    BY SMT DEF Unreached
  <2> QED BY <1>16, <2>1, NotReached DEF Reached
<1> QED BY <1>19, <1>20, <1>21

LEMMA AlwaysBooting == Spec => []Booting
  BY BootInit, BootStep, PTL DEF Spec

(* In the booted machine a port that a device implements reaches that      *)
(* device, whichever of the 65536 addresses it is, but for 0x3B4 and       *)
(* 0x3F6, which never reach the VGA and the disk.                          *)
THEOREM EveryDeviceReached == Spec => []DevicesReached
<1>1. Booting => DevicesReached
  BY AllReached, TableSize DEF DevicesReached, Table
<1> QED BY <1>1, AlwaysBooting, PTL

(* The ATA controller's device control register, which ata_internal.h      *)
(* places at 0x3F6, belongs to the floppy controller for good: no          *)
(* sequence of accesses ever resets the disk.                              *)
THEOREM AtaControlNeverReached ==
  \h3F6 \in Ports
    => (Spec => [](booted = Len(devices_register_all)
                     => Serves("floppy", \h3F6) /\ ~Serves("ata", \h3F6)))
<1> SUFFICES ASSUME \h3F6 \in Ports
             PROVE  Spec => [](booted = Len(devices_register_all)
                       => Serves("floppy", \h3F6) /\ ~Serves("ata", \h3F6))
  OBVIOUS
<1>1. ASSUME Booting, booted = 21
      PROVE  Serves("floppy", \h3F6) /\ ~Serves("ata", \h3F6)
  BY <1>1, NotReached
<1>2. Booting => (booted = Len(devices_register_all)
                    => Serves("floppy", \h3F6) /\ ~Serves("ata", \h3F6))
  BY <1>1, TableSize DEF Table
<1> QED BY <1>2, AlwaysBooting, PTL

(* The machine is an instance of the dispatcher: start-up and the guest's  *)
(* accesses are steps of PortBus, so what holds of every bus holds of it.  *)
THEOREM MachineIsPortBus == Spec => Bus!Spec
<1>1. Init => Bus!Init
  BY DEF Init
<1>2. Booting /\ [Next]_vars => [Bus!Next]_Bus!vars
  <2> SUFFICES ASSUME Booting, [Next]_vars PROVE [Bus!Next]_Bus!vars
    OBVIOUS
  <2>1. CASE Boot
    <3>1. booted + 1 \in 1..Len(devices_register_all)
      BY <2>1, TableSize DEF Boot, Booting, Table
    <3> QED BY <2>1, <3>1 DEF Boot, Bus!Next
  <2>2. CASE Guest
    BY <2>2 DEF Guest, Bus!Next
  <2>3. CASE UNCHANGED vars
    BY <2>3 DEF vars, Bus!vars
  <2> QED BY <2>1, <2>2, <2>3 DEF Next
<1> QED BY <1>1, <1>2, AlwaysBooting, PTL DEF Spec, Bus!Spec
=============================================================================

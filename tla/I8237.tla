------------------------------- MODULE I8237 -------------------------------
(***************************************************************************)
(* The two DMA controllers of src/devices/x86/i8237-dma.c: 16-bit address  *)
(* and count registers, written a byte at a time through a flip-flop per   *)
(* register, and the page registers.  Mode and mask are kept by the code   *)
(* but never read, so they are left out.  A flip-flop is an int of which   *)
(* only bit 0 is ever used: here 0 or 1.                                   *)
(***************************************************************************)
EXTENDS Integers

CONSTANTS Controllers,   \* {0, 1}
          Registers,     \* the registers the driver programs, within 0..6
          Pages,         \* the page registers it writes, within 0..14
          DmaBytes,      \* values of a byte of a register
          PageBytes      \* values of a page register

ASSUME DmaAssumption ==
  /\ Controllers \subseteq 0..1 /\ Registers \subseteq 0..6
  /\ Pages \subseteq 0..14
  /\ DmaBytes \subseteq Nat /\ 0 \in DmaBytes
  /\ PageBytes \subseteq Nat /\ 0 \in PageBytes

VARIABLES regs,       \* regs[c][r][0] is the low byte, regs[c][r][1] the high
          flipflop,   \* which byte the next access of a register takes
          page,
          next,       \* history: the byte the driver takes to be next
          sent        \* history: what the driver takes regs to hold

dmaVars == <<regs, flipflop, page, next, sent>>

Flops == [0..1 -> [0..6 -> 0..1]]

DmaTypeOK ==
  /\ regs \in [0..1 -> [0..6 -> [0..1 -> DmaBytes]]]
  /\ sent \in [0..1 -> [0..6 -> [0..1 -> DmaBytes]]]
  /\ flipflop \in Flops /\ next \in Flops
  /\ page \in [0..14 -> PageBytes]

DmaInit ==
  /\ regs = [c \in 0..1 |-> [r \in 0..6 |-> [b \in 0..1 |-> 0]]]
  /\ flipflop = [c \in 0..1 |-> [r \in 0..6 |-> 0]]
  /\ next = flipflop /\ sent = regs
  /\ page = [p \in 0..14 |-> 0]

Toggle(f, c, r) == [f EXCEPT ![c][r] = 1 - @]

(* i8237_outb to an address or count register.                             *)
OutRegister(c, r, val) ==
  /\ regs' = [regs EXCEPT ![c][r][flipflop[c][r]] = val]
  /\ flipflop' = Toggle(flipflop, c, r)
  /\ next' = Toggle(next, c, r)
  /\ sent' = [sent EXCEPT ![c][r][next[c][r]] = val]
  /\ UNCHANGED page

(* i8237_inb advances the flip-flop as well.                               *)
InRegister(c, r) ==
  /\ flipflop' = Toggle(flipflop, c, r)
  /\ next' = Toggle(next, c, r)
  /\ UNCHANGED <<regs, page, sent>>

(* The seven bytes that memset clears hold flip-flop 0 and the low bytes   *)
(* of flip-flop 1.                                                         *)
Cleared == {0, 1}

(* W_FLIPFLOP_RESET with 0xFF; with 0 nothing happens.                     *)
FlipFlopReset(c) ==
  /\ flipflop' = [flipflop EXCEPT ![c] =
                    [r \in 0..6 |-> IF r \in Cleared THEN 0 ELSE @[r]]]
  /\ next' = [next EXCEPT ![c] = [r \in 0..6 |-> 0]]
  /\ UNCHANGED <<regs, page, sent>>

MasterClear(c) ==
  /\ regs' = [regs EXCEPT ![c] = [r \in 0..6 |-> [b \in 0..1 |-> 0]]]
  /\ sent' = [sent EXCEPT ![c] = [r \in 0..6 |-> [b \in 0..1 |-> 0]]]
  /\ flipflop' = [flipflop EXCEPT ![c] = [r \in 0..6 |-> 0]]
  /\ next' = [next EXCEPT ![c] = [r \in 0..6 |-> 0]]
  /\ UNCHANGED page

(* i8237_page_outb.                                                        *)
OutPage(p, val) == /\ page' = [page EXCEPT ![p] = val]
                   /\ UNCHANGED <<regs, flipflop, next, sent>>

(* The addressing of dma_transfer_from_device, which serves channel 2: of  *)
(* what the registers hold, or of what the driver sent.                    *)
Word(r, file) == file[0][r][1] * 256 + file[0][r][0]
Destination(file) == page[1] * 65536 + Word(4, file)
TransferBytes(file) == Word(5, file) + 1

(* No register pair of controller c is half written.                       *)
PairsComplete(c) == \A r \in 0..6 : next[c][r] = 0

DmaNext ==
  \/ \E c \in Controllers, r \in Registers :
       InRegister(c, r) \/ \E val \in DmaBytes : OutRegister(c, r, val)
  \/ \E c \in Controllers : FlipFlopReset(c) \/ MasterClear(c)
  \/ \E p \in Pages, val \in PageBytes : OutPage(p, val)

DmaSpec == DmaInit /\ [][DmaNext]_dmaVars

(* i8237-dma.c 95-96: W_FLIPFLOP_RESET with 0xFF is not a bitmasked reset  *)
(* but one of all flip-flops, so the byte the controller takes next is the *)
(* one the driver sends.                                                   *)
FlipFlopsInStep == flipflop = next
=============================================================================

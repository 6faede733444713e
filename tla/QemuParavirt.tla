--------------------------- MODULE QemuParavirt ---------------------------
(***************************************************************************)
(* The configuration interface of src/devices/x86/qemu_paravirt.c: writing *)
(* an item's number to port 0x510 puts its reply into a buffer, whose      *)
(* bytes the guest then reads one after the other from port 0x511.  Items  *)
(* have names for numbers; a byte of the buffer is the item it belongs to. *)
(***************************************************************************)
EXTENDS GuestMemory

CONSTANTS Items,        \* the items the guest asks for
          ReplyLen,     \* the bytes each of them writes
          BufferSize    \* 1024 in the code

(* The longest reply is the memory map.                                    *)
ASSUME ParavirtAssumption ==
  /\ BufferSize \in Nat \ {0}
  /\ ReplyLen \in [Items -> 0..BufferSize]

VARIABLES buff, off,
          chosen,   \* history: the item selected last, or "none"
          taken     \* history: how many bytes were read since

paravirtVars == <<buff, off, chosen, taken>>

ParavirtTypeOK ==
  /\ buff \in [0..BufferSize - 1 -> Items \cup {"none"}]
  /\ off \in 0..BufferSize
  /\ chosen \in Items \cup {"none"}
  /\ taken \in 0..BufferSize

ParavirtInit == /\ buff = [k \in 0..BufferSize - 1 |-> "none"]
                /\ off = 0 /\ chosen = "none" /\ taken = 0

-----------------------------------------------------------------------------
(* Mutant: the boot menu, too, leaves the offset where it is.              *)
KeepsToo == {"numa", "bootmenu"}

(* The items whose selection leaves the offset alone.                      *)
Keeps == {"numa"}

(* qemupara_outw to port 0x510, of an item it knows.                       *)
SelectItem(i) ==
  /\ Running
  /\ off' = IF i \in Keeps THEN off ELSE 0
  /\ buff' = [k \in 0..BufferSize - 1 |-> IF k < ReplyLen[i] THEN i ELSE buff[k]]
  /\ chosen' = i /\ taken' = 0
  /\ UNCHANGED memoryVars

(* Mutant: the last byte may be read once more.                            *)
ReadOneMore ==
  /\ Running /\ off <= BufferSize
  /\ off' = off + 1 /\ taken' = taken + 1
  /\ UNCHANGED <<memoryVars, buff, chosen>>

(* qemupara_inb, of either port.                                           *)
ReadReply ==
  /\ Running /\ off < BufferSize
  /\ off' = off + 1 /\ taken' = taken + 1
  /\ UNCHANGED <<memoryVars, buff, chosen>>

(* A read past the buffer, an unknown item, and the other widths.          *)
ReadPastReply ==
  /\ Running /\ off = BufferSize
  /\ run' = "aborted"
  /\ UNCHANGED <<boot, ramsize, slots, mmio, rom, paravirtVars>>

OtherParavirtAccess ==
  /\ Running
  /\ run' = "aborted"
  /\ UNCHANGED <<boot, ramsize, slots, mmio, rom, paravirtVars>>

ParavirtNext == \/ \E i \in Items : SelectItem(i)
                \/ ReadReply \/ ReadPastReply \/ OtherParavirtAccess

-----------------------------------------------------------------------------
(* The table that item 0x8003 returns: areas of RAM, and one that is       *)
(* reserved up to 4 GB.                                                    *)
E820Ram == { [base |-> 0, size |-> VideoWindow],
             [base |-> Meg, size |-> HoleStart - Meg] }
E820Reserved == [base |-> 262127, size |-> FourGig - 262127]   \* 0xFFFBC000
=============================================================================

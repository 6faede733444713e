------------------------------ MODULE PortBus ------------------------------
(***************************************************************************)
(* The I/O port dispatcher of src/io.c and the loop of handle_io in        *)
(* src/system.c that feeds it.  A handler claims the ports whose address   *)
(* under its mask is its base; here, the set of those ports.  The table    *)
(* keeps the handlers in the order of their registration and a lookup      *)
(* takes the first that matches.                                           *)
(***************************************************************************)
EXTENDS Integers, Sequences

CONSTANTS Ports,         \* the port addresses considered
          Handlers,      \* handlers that may be registered
          MaxHandlers    \* MAX_HANDLERS: 128

Ops == {"inb", "inw", "inl", "outb", "outw", "outl"}

ASSUME HandlersAssumption ==
  \A h \in Handlers : h.ports \subseteq Ports /\ h.ops \subseteq Ops
ASSUME MaxAssumption == MaxHandlers \in Nat \ {0}

VARIABLES iohandler,   \* the registered handlers, in order
          run,         \* "aborted": an ASSERT; "crashed": a NULL callback
          last,        \* the last guest access and how it ended
          claimed      \* history: the slot that first claimed a port, or 0

vars == <<iohandler, run, last, claimed>>

Matches(i, p) == i \in 1..Len(iohandler) /\ p \in iohandler[i].ports
First(i, p) == Matches(i, p) /\ \A j \in 1..i - 1 : ~Matches(j, p)

(* Mutant: the search goes on after a match, and the last one counts.      *)
LastMatch(p) ==
  IF \E i \in 1..Len(iohandler) : Matches(i, p)
  THEN CHOOSE i \in 1..Len(iohandler) :
         Matches(i, p) /\ \A j \in i + 1..Len(iohandler) : ~Matches(j, p)
  ELSE 0

(* The slot of the handler of a port; 0 is the NULL of the code.           *)
lookup_handler(p) ==
  IF \E i \in 1..Len(iohandler) : First(i, p)
  THEN CHOOSE i \in 1..Len(iohandler) : First(i, p)
  ELSE 0

NoAccess == [port |-> 0, op |-> "none", slot |-> 0, result |-> "none"]
Results == {"none", "served", "ones", "zero", "ignored", "aborted", "crashed"}

TypeOK ==
  /\ iohandler \in Seq(Handlers) /\ Len(iohandler) < MaxHandlers
  /\ run \in {"up", "aborted", "crashed"}
  /\ claimed \in [Ports -> 0..Len(iohandler)]
  /\ last \in [port : Ports \cup {0}, op : Ops \cup {"none"},
               slot : 0..Len(iohandler), result : Results]

Init == /\ iohandler = << >> /\ run = "up" /\ last = NoAccess
        /\ claimed = [p \in Ports |-> 0]

(* Mutant: a full table takes one more handler.                            *)
RegisterPastEnd(h) ==
  /\ run = "up"
  /\ \/ /\ Len(iohandler) < MaxHandlers
        /\ iohandler' = Append(iohandler, h)
        /\ claimed' = [p \in Ports |-> IF claimed[p] = 0 /\ p \in h.ports
                                       THEN Len(iohandler) + 1
                                       ELSE claimed[p]]
     \/ /\ Len(iohandler) >= MaxHandlers
        /\ UNCHANGED <<iohandler, claimed>>
  /\ UNCHANGED <<run, last>>

(* The last slot of the table is never used; a full table drops the        *)
(* handler and answers NULL, which no caller looks at.                     *)
io_register_handler(h) ==
  /\ run = "up"
  /\ \/ /\ Len(iohandler) < MaxHandlers - 1
        /\ iohandler' = Append(iohandler, h)
        /\ claimed' = [p \in Ports |-> IF claimed[p] = 0 /\ p \in h.ports
                                       THEN Len(iohandler) + 1
                                       ELSE claimed[p]]
     \/ /\ Len(iohandler) >= MaxHandlers - 1
        /\ UNCHANGED <<iohandler, claimed>>
  /\ UNCHANGED <<run, last>>

(* Its one caller, x86_cmos_init, puts a handler of the same ports back.   *)
io_remap_handler(i, h) ==
  /\ run = "up"
  /\ i \in 1..Len(iohandler) /\ h.ports = iohandler[i].ports
  /\ iohandler' = [iohandler EXCEPT ![i] = h]
  /\ UNCHANGED <<run, last, claimed>>

(* What an access without a handler reads.                                 *)
Unhandled(op) == IF op = "inb" THEN "ones"
                 ELSE IF op \in {"inw", "inl"} THEN "zero" ELSE "ignored"

(* The writes ASSERT their callback, the reads call whatever is there.     *)
Dispatch(slot, op) ==
  IF slot = 0 THEN Unhandled(op)
  ELSE IF op \in iohandler[slot].ops THEN "served"
  ELSE IF op \in {"outb", "outw", "outl"} THEN "aborted" ELSE "crashed"

(* handle_io: every repetition of a string instruction goes the same way.  *)
Access(p, op) ==
  LET slot == lookup_handler(p)
      r == Dispatch(slot, op)
  IN  /\ run = "up"
      /\ last' = [port |-> p, op |-> op, slot |-> slot, result |-> r]
      /\ run' = IF r \in {"aborted", "crashed"} THEN r ELSE "up"
      /\ UNCHANGED <<iohandler, claimed>>

Next == \/ \E h \in Handlers : io_register_handler(h)
        \/ \E h \in Handlers, i \in 1..Len(iohandler) : io_remap_handler(i, h)
        \/ \E p \in Ports, op \in Ops : Access(p, op)

Spec == Init /\ [][Next]_vars

-----------------------------------------------------------------------------
(* Whatever is registered or remapped later, also when the table is full,  *)
(* a port stays with the slot that claimed it first, and a port that is    *)
(* served was claimed: registration order alone decides (io.c 15-26).      *)
FirstClaimWins == \A p \in Ports : lookup_handler(p) = claimed[p]
=============================================================================

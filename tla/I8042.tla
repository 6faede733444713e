------------------------------- MODULE I8042 -------------------------------
(***************************************************************************)
(* The keyboard controller of src/devices/x86/i8042.c.                     *)
(*                                                                         *)
(* Two threads share the file-static record `regs` without a lock: the     *)
(* VCPU thread, which runs kbd_inb/kbd_outb for every guest access to the  *)
(* ports 0x60-0x67, and the viewer thread (vga/viewer.c), which runs       *)
(* kbd_inject for every key event.  The Makefile builds without            *)
(* optimisation, so every read-modify-write of a shared field is a load    *)
(* and a store; each is a step here.  What only the VCPU touches           *)
(* (the command byte, the pending parameters) changes in the first step of *)
(* the handler.  Steps interleave sequentially consistently.               *)
(***************************************************************************)
EXTENDS Integers, FiniteSets

CONSTANTS Scancodes,    \* scan codes the key table maps keys to
          Commands,     \* bytes the guest writes to the command port 0x64
          DataBytes,    \* bytes the guest writes to the data port 0x60
          PoliteGuest   \* TRUE: the guest polls the status port as the
                        \* protocol asks; FALSE: it accesses any port any time

ASSUME ScancodesAssumption == Scancodes \subseteq 1..127
ASSUME BytesAssumption == /\ Commands \subseteq 0..255
                          /\ DataBytes \subseteq 0..255
ASSUME PoliteAssumption == PoliteGuest \in BOOLEAN

VARIABLES status,         \* the flags set in regs.status
          command_byte, buf_output, ndx_output,
          cmdparams_left, cmdparams_cmd,
          kbdparams_left, kbdparams_cmd,
          irq1,           \* level of the line irq_set(1,_) drives
          vcpu,           \* where the VCPU thread is
          vtmp, vndx,     \* its register copies of status and ndx_output
          vnext,          \* how the handler will raise the status flag
          viewer, wtmp,   \* where the viewer thread is, its copy of status
          run,            \* "aborted" once an ASSERT has called abort()
          guest,          \* what the guest learnt from its last access
          overlap,        \* history: a call started while another was running
          fresh           \* history: buf_output[0] written since it was read

regs == <<status, command_byte, buf_output, ndx_output>>
params == <<cmdparams_left, cmdparams_cmd, kbdparams_left, kbdparams_cmd>>
locals == <<vtmp, vndx, vnext>>
vars == <<regs, params, irq1, vcpu, locals, viewer, wtmp, run, guest,
          overlap, fresh>>

Byte == 0..255
Flags == {"OBF", "IBF"}     \* bits 0 and 1 of the status register
ACK == 250                  \* 0xFA
WithParam == {96, 209, 211, 212}      \* 0x60, 0xD1, 0xD3, 0xD4


(* Answers to the self-test commands 0xA9, 0xAA and 0xAB.                  *)
TestResult == [cmd \in 169..171 |-> CASE cmd = 169 -> 1
                                      [] cmd = 170 -> 85
                                      [] cmd = 171 -> 0]

VcpuPoints == {"guest", "ndx", "or_load", "or_store", "ibf", "set",
               "idx", "rd", "dec_load", "dec_store", "ack", "more",
               "clr_load", "clr_store", "again"}
ViewerPoints == {"poll", "ndx", "load", "store", "irq"}

TypeOK ==
  /\ status \subseteq Flags
  /\ command_byte \in Byte
  /\ buf_output \in [0..7 -> Byte]
  /\ ndx_output \in -1..1
  /\ cmdparams_left \in 0..1 /\ cmdparams_cmd \in Byte
  /\ kbdparams_left \in 0..1 /\ kbdparams_cmd \in Byte
  /\ irq1 \in BOOLEAN
  /\ vcpu \in VcpuPoints /\ vtmp \subseteq Flags /\ vndx \in -1..1
  /\ vnext \in {"or_load", "ibf", "set"}
  /\ viewer \in ViewerPoints /\ wtmp \subseteq Flags
  /\ run \in {"up", "aborted"}
  /\ guest \in {"idle", "sawOBF", "sawEmpty", "emptyAfterOBF"}
  /\ overlap \in BOOLEAN /\ fresh \in BOOLEAN

(* x86_keyboard_init: the memset after `regs.status = 0x14` leaves zeros,  *)
(* so ndx_output is 0, not the -1 that means an empty buffer.              *)
Init ==
  /\ status = {} /\ command_byte = 0
  /\ buf_output = [i \in 0..7 |-> 0] /\ ndx_output = 0
  /\ cmdparams_left = 0 /\ cmdparams_cmd = 0
  /\ kbdparams_left = 0 /\ kbdparams_cmd = 0
  /\ irq1 = FALSE
  /\ vcpu = "guest" /\ vtmp = {} /\ vndx = 0 /\ vnext = "set"
  /\ viewer = "poll" /\ wtmp = {}
  /\ run = "up" /\ guest = "idle" /\ overlap = FALSE /\ fresh = FALSE

-----------------------------------------------------------------------------
(* Guest accesses.  A call starts when the VCPU is in the guest.           *)

VcpuStarts == /\ run = "up" /\ vcpu = "guest"
              /\ overlap' = (overlap \/ viewer # "poll")

MayWrite == PoliteGuest => guest = "sawEmpty"
MayRead == PoliteGuest => guest = "sawOBF"

(* inb(0x64): a single load of regs.status.                                *)
InStatus ==
  /\ run = "up" /\ vcpu = "guest"
  /\ guest' = IF "OBF" \in status THEN "sawOBF" ELSE "sawEmpty"
  /\ UNCHANGED <<regs, params, irq1, vcpu, locals, viewer, wtmp, run,
                 overlap, fresh>>

(* Store an answer byte; the index and the flag follow in later steps.     *)
Answer(byte, ndx, next) ==
  /\ buf_output' = [buf_output EXCEPT ![0] = byte,
                                      ![1] = IF ndx = 1 THEN ACK ELSE @]
  /\ vcpu' = "ndx" /\ vndx' = ndx /\ vnext' = next /\ fresh' = TRUE
  /\ UNCHANGED <<status, ndx_output, irq1, vtmp, run>>

Silent == UNCHANGED <<status, buf_output, ndx_output, irq1, vcpu, locals,
                      run, fresh>>

Abort == /\ run' = "aborted"
         /\ UNCHANGED <<status, buf_output, ndx_output, irq1, vcpu, locals,
                        fresh>>

ArmCommand(cmd) == /\ cmdparams_left' = 1 /\ cmdparams_cmd' = cmd
                   /\ UNCHANGED <<kbdparams_left, kbdparams_cmd>>
ArmKeyboard(cmd) == /\ kbdparams_left' = 1 /\ kbdparams_cmd' = cmd
                    /\ UNCHANGED <<cmdparams_left, cmdparams_cmd>>

(* Case 0x20 stores its answer and has no break: it arms a parameter.      *)
ReadCommandByte == /\ Answer(command_byte, 0, "or_load")
                   /\ ArmCommand(32)

handle_command(cmd) ==
  /\ UNCHANGED command_byte
  /\ \/ cmd = 32 /\ ReadCommandByte
     \/ cmd \in WithParam /\ ArmCommand(cmd) /\ Silent
     \/ /\ cmd \in DOMAIN TestResult
        /\ Answer(TestResult[cmd], 0, "or_load") /\ UNCHANGED params
     \/ cmd \in {173, 174, 255} /\ Silent /\ UNCHANGED params
     \/ /\ cmd \notin WithParam \cup DOMAIN TestResult
                                \cup {32, 173, 174, 255}
        /\ Abort /\ UNCHANGED params

(* outb(0x64,cmd).                                                         *)
OutCommand(cmd) ==
  /\ VcpuStarts /\ MayWrite /\ guest' = "idle"
  /\ handle_command(cmd)
  /\ UNCHANGED <<viewer, wtmp>>

(* Mutant: a byte is taken as a parameter although none is expected.       *)
ParamUnasked(val) ==
  /\ VcpuStarts /\ MayWrite /\ guest' = "idle"
  /\ cmdparams_left' = cmdparams_left - 1
  /\ command_byte' = IF cmdparams_cmd = 96 THEN val ELSE command_byte
  /\ IF cmdparams_cmd \in WithParam THEN Silent ELSE Abort
  /\ UNCHANGED <<cmdparams_cmd, kbdparams_left, kbdparams_cmd, viewer, wtmp>>

(* outb(0x60,val) while a controller command waits for its parameter.      *)
OutCommandParam(val) ==
  /\ VcpuStarts /\ MayWrite /\ guest' = "idle"
  /\ cmdparams_left > 0
  /\ cmdparams_left' = cmdparams_left - 1
  /\ command_byte' = IF cmdparams_cmd = 96 THEN val ELSE command_byte
  /\ IF cmdparams_cmd \in WithParam THEN Silent ELSE Abort
  /\ UNCHANGED <<cmdparams_cmd, kbdparams_left, kbdparams_cmd, viewer, wtmp>>

(* outb(0x60,val) while a keyboard command waits for its parameter.        *)
OutKeyboardParam(val) ==
  /\ VcpuStarts /\ MayWrite /\ guest' = "idle"
  /\ cmdparams_left = 0 /\ kbdparams_left > 0
  /\ kbdparams_left' = kbdparams_left - 1
  /\ IF kbdparams_cmd \in {237, 240} THEN Answer(ACK, 0, "set") ELSE Abort
  /\ UNCHANGED <<command_byte, cmdparams_left, cmdparams_cmd, kbdparams_cmd,
                 viewer, wtmp>>

handle_kbd_command(cmd) ==
  \/ cmd = 5 /\ Silent /\ UNCHANGED params
  \/ cmd = 237 /\ ArmKeyboard(cmd) /\ Silent                       \* 0xED
  \/ cmd = 240 /\ ArmKeyboard(cmd) /\ Answer(ACK, 0, "set")        \* 0xF0
  \/ cmd \in {242, 244, 245} /\ Answer(ACK, 0, "set") /\ UNCHANGED params
  \/ cmd = 255 /\ Answer(170, 1, "ibf") /\ UNCHANGED params        \* 0xFF
  \/ /\ cmd \notin {5, 237, 240, 242, 244, 245, 255}
     /\ Abort /\ UNCHANGED params

(* outb(0x60,val) with no parameter expected: it is for the keyboard.      *)
OutKeyboard(val) ==
  /\ VcpuStarts /\ MayWrite /\ guest' = "idle"
  /\ cmdparams_left = 0 /\ kbdparams_left = 0
  /\ handle_kbd_command(val)
  /\ UNCHANGED <<command_byte, viewer, wtmp>>

(* The ASSERT(0)s of the six other ports of the block and of every word    *)
(* and long access.                                                        *)
OtherAccess ==
  /\ VcpuStarts /\ ~PoliteGuest
  /\ Abort
  /\ UNCHANGED <<command_byte, params, viewer, wtmp, guest>>

(* Mutant: the buffer is read without a look at the index.                 *)
InDataUntested ==
  /\ VcpuStarts /\ MayRead
  /\ guest' = "idle" /\ vcpu' = "idx"
  /\ UNCHANGED <<regs, params, irq1, locals, viewer, wtmp, run, fresh>>

(* inb(0x60), up to the test of ndx_output.                                *)
InData ==
  /\ VcpuStarts /\ MayRead
  /\ IF ndx_output < 0
     THEN /\ guest' = IF guest = "sawOBF" THEN "emptyAfterOBF" ELSE "idle"
          /\ UNCHANGED vcpu
     ELSE guest' = "idle" /\ vcpu' = "idx"
  /\ UNCHANGED <<regs, params, irq1, locals, viewer, wtmp, run, fresh>>

-----------------------------------------------------------------------------
(* The later steps of the VCPU's handlers, one shared access each.         *)

At(from, to) == run = "up" /\ vcpu = from /\ vcpu' = to

(* The handler returns; what its dead registers hold is forgotten.         *)
Return(from) == /\ At(from, "guest")
                /\ vtmp' = {} /\ vndx' = 0 /\ vnext' = "set"

others == <<command_byte, params, viewer, wtmp, run, guest, overlap>>

(* An answer is made visible: the index, then the status flag.             *)
StoreNdx ==
  /\ At("ndx", vnext) /\ ndx_output' = vndx
  /\ UNCHANGED <<status, buf_output, irq1, locals, fresh, others>>
LoadStatus ==
  /\ At("or_load", "or_store") /\ vtmp' = status
  /\ UNCHANGED <<status, buf_output, ndx_output, irq1, vndx, vnext, fresh,
                 others>>
StoreStatus ==
  /\ Return("or_store") /\ status' = vtmp \cup {"OBF"}
  /\ UNCHANGED <<buf_output, ndx_output, irq1, fresh, others>>
FlagInputFull ==
  /\ At("ibf", "set") /\ status' = {"IBF"}
  /\ UNCHANGED <<buf_output, ndx_output, irq1, locals, fresh, others>>
SetStatus ==
  /\ Return("set") /\ status' = {"OBF"}
  /\ UNCHANGED <<buf_output, ndx_output, irq1, fresh, others>>

(* A byte is read: ret = buf_output[ndx_output], ndx_output--, irq_set.    *)
LoadIndex ==
  /\ At("idx", "rd") /\ vndx' = ndx_output
  /\ UNCHANGED <<status, buf_output, ndx_output, irq1, vtmp, vnext, fresh,
                 others>>
LoadByte ==
  /\ At("rd", "dec_load") /\ fresh' = (fresh /\ vndx # 0)
  /\ UNCHANGED <<status, buf_output, ndx_output, irq1, locals, others>>
LoadNdx ==
  /\ At("dec_load", "dec_store") /\ vndx' = ndx_output
  /\ UNCHANGED <<status, buf_output, ndx_output, irq1, vtmp, vnext, fresh,
                 others>>
(* Mutant: the byte that was read stays in the buffer.                     *)
KeepNdx ==
  /\ At("dec_store", "ack")
  /\ UNCHANGED <<status, buf_output, ndx_output, irq1, locals, fresh, others>>

DecrementNdx ==
  /\ At("dec_store", "ack") /\ ndx_output' = vndx - 1
  /\ UNCHANGED <<status, buf_output, irq1, locals, fresh, others>>
(* Mutant: kbd_inb leaves the interrupt line high.                         *)
LeaveIrq ==
  /\ At("ack", "more")
  /\ UNCHANGED <<status, buf_output, ndx_output, irq1, locals, fresh, others>>

LowerIrq ==
  /\ At("ack", "more") /\ irq1' = FALSE
  /\ UNCHANGED <<status, buf_output, ndx_output, locals, fresh, others>>
TestNdx ==
  /\ At("more", IF ndx_output < 0 THEN "clr_load" ELSE "again")
  /\ UNCHANGED <<status, buf_output, ndx_output, irq1, locals, fresh, others>>
LoadForClear ==
  /\ At("clr_load", "clr_store") /\ vtmp' = status
  /\ UNCHANGED <<status, buf_output, ndx_output, irq1, vndx, vnext, fresh,
                 others>>
(* Mutant: the full flag survives the last byte.                           *)
LeaveStatus ==
  /\ Return("clr_store")
  /\ UNCHANGED <<status, buf_output, ndx_output, irq1, fresh, others>>

ClearStatus ==
  /\ Return("clr_store") /\ status' = vtmp \ {"OBF"}
  /\ UNCHANGED <<buf_output, ndx_output, irq1, fresh, others>>
(* Mutant: the line stays low although a byte is left.                     *)
StayLow ==
  /\ Return("again")
  /\ UNCHANGED <<status, buf_output, ndx_output, irq1, fresh, others>>

RaiseAgain ==
  /\ Return("again") /\ irq1' = TRUE
  /\ UNCHANGED <<status, buf_output, ndx_output, fresh, others>>

VcpuStep ==
  \/ StoreNdx \/ LoadStatus \/ StoreStatus \/ FlagInputFull \/ SetStatus
  \/ LoadIndex \/ LoadByte \/ LoadNdx \/ DecrementNdx \/ LowerIrq
  \/ TestNdx \/ LoadForClear \/ ClearStatus \/ RaiseAgain

-----------------------------------------------------------------------------
(* kbd_inject, called by the viewer thread for a key event.                *)

vcpuSide == <<command_byte, params, vcpu, locals, run, guest>>
ViewerAt(from, to) == run = "up" /\ viewer = from /\ viewer' = to

(* Make codes are the scan code, break codes have bit 7 set (sc | 0x80).   *)
InjectByte(sc, pressed) ==
  /\ ViewerAt("poll", "ndx")
  /\ buf_output' = [buf_output EXCEPT ![0] = IF pressed THEN sc ELSE sc + 128]
  /\ fresh' = TRUE
  /\ overlap' = (overlap \/ vcpu # "guest")
  /\ UNCHANGED <<status, ndx_output, irq1, wtmp, vcpuSide>>
InjectNdx ==
  /\ ViewerAt("ndx", "load") /\ ndx_output' = 0
  /\ UNCHANGED <<status, buf_output, irq1, wtmp, fresh, overlap, vcpuSide>>
InjectLoad ==
  /\ ViewerAt("load", "store") /\ wtmp' = status
  /\ UNCHANGED <<status, buf_output, ndx_output, irq1, fresh, overlap,
                 vcpuSide>>
InjectStore ==
  /\ ViewerAt("store", "irq") /\ status' = wtmp \cup {"OBF"} /\ wtmp' = {}
  /\ UNCHANGED <<buf_output, ndx_output, irq1, fresh, overlap, vcpuSide>>
InjectIrq ==
  /\ ViewerAt("irq", "poll") /\ irq1' = TRUE
  /\ UNCHANGED <<status, buf_output, ndx_output, wtmp, fresh, overlap,
                 vcpuSide>>

InjectStep == InjectNdx \/ InjectLoad \/ InjectStore \/ InjectIrq

-----------------------------------------------------------------------------
Next ==
  \/ InStatus \/ InData \/ OtherAccess
  \/ \E cmd \in Commands : OutCommand(cmd)
  \/ \E val \in DataBytes :
        OutCommandParam(val) \/ OutKeyboardParam(val) \/ OutKeyboard(val)
  \/ VcpuStep
  \/ \E sc \in Scancodes, pressed \in BOOLEAN : InjectByte(sc, pressed)
  \/ InjectStep

Spec == Init /\ [][Next]_vars

(* KVM keeps scheduling both threads, and a guest that polls gets round to *)
(* polling and to reading what it saw, however often it does other things. *)
FairSpec ==
  /\ Spec
  /\ WF_vars(VcpuStep) /\ WF_vars(InjectStep)
  /\ SF_vars(InStatus) /\ SF_vars(InData)

-----------------------------------------------------------------------------
Quiet == run = "up" /\ vcpu = "guest" /\ viewer = "poll"

(* The index that kbd_inb uses to read buf_output is one of an element,    *)
(* however kbd_inject interleaves with the test of ndx_output, its second  *)
(* load and the decrement (i8042.c 212, 221, 222).                         *)
ReadIndexInBounds == vcpu = "rd" => vndx \in DOMAIN buf_output

(* As long as no two calls have overlapped, between calls the status       *)
(* register, the buffer index and the interrupt line tell the same story:  *)
(* a raised line has a byte to read, a full flag has a byte in the buffer, *)
(* and the transient input-buffer-full flag is gone.                       *)
QuietConsistent ==
  Quiet /\ ~overlap => /\ irq1 => "OBF" \in status
                       /\ "OBF" \in status => ndx_output >= 0
                       /\ "IBF" \notin status

(* As long as no two calls have overlapped, no stored byte is handed to    *)
(* the guest twice: the byte at index 0 was written after it was last read.*)
NoDuplicate ==
  ~overlap /\ vcpu = "rd" /\ vndx = 0 /\ "OBF" \in status => fresh

(* As long as no two calls have overlapped, a read that took a byte leaves *)
(* the line high exactly if the status register still shows a byte: the    *)
(* second one of an answer gets an interrupt of its own, and the last one  *)
(* leaves none behind (i8042.c 223-228).                                   *)
LineAfterRead ==
  [][~overlap /\ vcpu \in {"clr_store", "again"} /\ vcpu' = "guest"
       => (irq1' <=> "OBF" \in status')]_vars

(* A guest that keeps polling empties the output buffer, as long as no two *)
(* calls have overlapped.  Once kbd_inject has run into kbd_inb, OBF may   *)
(* stay set over an empty buffer, which no read clears (i8042.c 212-215):  *)
(* PolledReadFindsByte shows how, and nothing is promised here.            *)
Drained == ("OBF" \in status /\ ~overlap)
             ~> ("OBF" \notin status \/ overlap \/ run = "aborted")

(* i8042.c 211-213: a data read that follows a status read showing OBF     *)
(* finds a byte (`ASSERT(regs.ndx_output >= 0,...)`, commented out).       *)
PolledReadFindsByte == guest # "emptyAfterOBF"

(* i8042.c 87, 263: only a command that writes something expects a         *)
(* parameter; any other data byte is for the keyboard.                     *)
OnlyWritesTakeParams == cmdparams_left > 0 => cmdparams_cmd \in WithParam
=============================================================================

---------------------------- MODULE I8042Proofs ----------------------------
(***************************************************************************)
(* What holds of the keyboard controller for every set of scan codes,      *)
(* commands and data bytes, whatever the two threads interleave.           *)
(***************************************************************************)
EXTENDS I8042, TLAPS

USE ScancodesAssumption, BytesAssumption, PoliteAssumption

(* The reader's hold on the index: from the test of ndx_output to its      *)
(* decrement only the viewer writes the index, and it writes 0.            *)
IndexHeld ==
  /\ vcpu = "idx" => ndx_output \in 0..1
  /\ vcpu = "rd" => vndx \in 0..1
  /\ vcpu = "rd" => ndx_output \in 0..1
  /\ vcpu = "dec_load" => ndx_output \in 0..1
  /\ vcpu = "dec_store" => vndx \in 0..1

IInv == TypeOK /\ IndexHeld

LEMMA TestResultByte == \A cmd \in DOMAIN TestResult : TestResult[cmd] \in Byte
<1> SUFFICES ASSUME NEW cmd \in 169..171
             PROVE  TestResult[cmd] \in Byte
  BY DEF TestResult
<1>1. cmd = 169 \/ cmd = 170 \/ cmd = 171
  OBVIOUS
<1> QED
  BY <1>1 DEF TestResult, Byte

(* What a handler's Answer does to the typed state.                        *)
LEMMA AnswerInv ==
  ASSUME IInv, vcpu = "guest", NEW b \in Byte, NEW n \in 0..1,
         NEW x \in {"or_load", "ibf", "set"}, Answer(b, n, x)
  PROVE  /\ status' \subseteq Flags /\ buf_output' \in [0..7 -> Byte]
         /\ ndx_output' \in -1..1 /\ irq1' \in BOOLEAN
         /\ vcpu' = "ndx" /\ vtmp' \subseteq Flags /\ vndx' \in -1..1
         /\ vnext' \in {"or_load", "ibf", "set"}
         /\ run' \in {"up", "aborted"} /\ fresh' \in BOOLEAN
  BY DEF IInv, TypeOK, Answer, Byte, ACK

(* The parts of the state that a call of the guest may leave alone.        *)
LEMMA SilentInv ==
  ASSUME IInv, vcpu = "guest", Silent \/ Abort
  PROVE  /\ status' \subseteq Flags /\ buf_output' \in [0..7 -> Byte]
         /\ ndx_output' \in -1..1 /\ irq1' \in BOOLEAN
         /\ vcpu' = "guest" /\ vtmp' \subseteq Flags /\ vndx' \in -1..1
         /\ vnext' \in {"or_load", "ibf", "set"}
         /\ run' \in {"up", "aborted"} /\ fresh' \in BOOLEAN
  BY DEF IInv, TypeOK, Silent, Abort, locals

LEMMA InitInv == Init => IInv
<1> SUFFICES ASSUME Init PROVE IInv
  OBVIOUS
<1>1. buf_output \in [0..7 -> Byte]
  BY DEF Init, Byte
<1>2. /\ command_byte \in Byte /\ cmdparams_cmd \in Byte
      /\ kbdparams_cmd \in Byte
      /\ ndx_output \in -1..1 /\ vndx \in -1..1
      /\ cmdparams_left \in 0..1 /\ kbdparams_left \in 0..1
  BY DEF Init, Byte
<1>3. vcpu \in VcpuPoints /\ viewer \in ViewerPoints
  BY DEF Init, VcpuPoints, ViewerPoints
<1>4. status \subseteq Flags /\ vtmp \subseteq Flags /\ wtmp \subseteq Flags
  BY DEF Init
<1>5. IndexHeld
  BY DEF Init, IndexHeld
<1> QED
  BY <1>1, <1>2, <1>3, <1>4, <1>5 DEF Init, IInv, TypeOK

(* outb(0x64,_): the controller's commands.                                *)
LEMMA OutCommandInv ==
  ASSUME IInv, NEW cmd \in Commands, OutCommand(cmd)
  PROVE  IInv'
<1>1. vcpu = "guest" /\ cmd \in Byte /\ command_byte \in Byte
  BY DEF OutCommand, VcpuStarts, IInv, TypeOK, Byte
<1>2. /\ overlap' \in BOOLEAN /\ guest' = "idle" /\ command_byte' \in Byte
      /\ viewer' \in ViewerPoints /\ wtmp' \subseteq Flags
  BY DEF OutCommand, VcpuStarts, handle_command, IInv, TypeOK
<1>3. /\ cmdparams_left' \in 0..1 /\ cmdparams_cmd' \in Byte
      /\ kbdparams_left' \in 0..1 /\ kbdparams_cmd' \in Byte
  BY <1>1 DEF OutCommand, handle_command, ReadCommandByte, ArmCommand, params,
              IInv, TypeOK, Byte
<1>4. \/ Silent \/ Abort
      \/ \E b \in Byte : Answer(b, 0, "or_load")
  BY <1>1, TestResultByte DEF OutCommand, handle_command, ReadCommandByte
<1>5. CASE Silent \/ Abort
  BY <1>1, <1>2, <1>3, <1>5, SilentInv DEF IInv, TypeOK, IndexHeld, VcpuPoints
<1>6. CASE \E b \in Byte : Answer(b, 0, "or_load")
  <2>1. PICK b \in Byte : Answer(b, 0, "or_load")
    BY <1>6
  <2> QED
    BY <1>1, <1>2, <1>3, <2>1, AnswerInv DEF IInv, TypeOK, IndexHeld, VcpuPoints
<1> QED
  BY <1>4, <1>5, <1>6

(* outb(0x60,_) in its three roles.                                        *)
LEMMA OutDataInv ==
  ASSUME IInv, NEW val \in DataBytes,
         OutCommandParam(val) \/ OutKeyboardParam(val) \/ OutKeyboard(val)
  PROVE  IInv'
<1>1. vcpu = "guest" /\ val \in Byte
  BY DEF OutCommandParam, OutKeyboardParam, OutKeyboard, VcpuStarts, Byte
<1>2. /\ overlap' \in BOOLEAN /\ guest' = "idle" /\ command_byte' \in Byte
      /\ viewer' \in ViewerPoints /\ wtmp' \subseteq Flags
  BY <1>1 DEF OutCommandParam, OutKeyboardParam, OutKeyboard, VcpuStarts, IInv,
              TypeOK
<1>3. /\ cmdparams_left' \in 0..1 /\ cmdparams_cmd' \in Byte
      /\ kbdparams_left' \in 0..1 /\ kbdparams_cmd' \in Byte
  <2>1. CASE OutCommandParam(val)
    BY <2>1 DEF OutCommandParam, IInv, TypeOK
  <2>2. CASE OutKeyboardParam(val)
    BY <2>2 DEF OutKeyboardParam, IInv, TypeOK
  <2>3. CASE OutKeyboard(val)
    BY <1>1, <2>3 DEF OutKeyboard, handle_kbd_command, ArmKeyboard, params,
                      IInv, TypeOK
  <2> QED
    BY <2>1, <2>2, <2>3
<1>4. \/ Silent \/ Abort
      \/ Answer(ACK, 0, "set") \/ Answer(170, 1, "ibf")
  BY DEF OutCommandParam, OutKeyboardParam, OutKeyboard, handle_kbd_command
<1>5. CASE Silent \/ Abort
  BY <1>1, <1>2, <1>3, <1>5, SilentInv DEF IInv, TypeOK, IndexHeld, VcpuPoints
<1>6. CASE Answer(ACK, 0, "set")
  <2>1. ACK \in Byte
    BY DEF ACK, Byte
  <2> QED
    BY <1>1, <1>2, <1>3, <1>6, <2>1, AnswerInv
       DEF IInv, TypeOK, IndexHeld, VcpuPoints
<1>7. CASE Answer(170, 1, "ibf")
  <2>1. 170 \in Byte
    BY DEF Byte
  <2> QED
    BY <1>1, <1>2, <1>3, <1>7, <2>1, AnswerInv
       DEF IInv, TypeOK, IndexHeld, VcpuPoints
<1> QED
  BY <1>4, <1>5, <1>6, <1>7

(* inb, and the accesses that abort.                                       *)
LEMMA ReadInv == IInv /\ (InStatus \/ InData \/ OtherAccess) => IInv'
<1> SUFFICES ASSUME IInv, InStatus \/ InData \/ OtherAccess PROVE IInv'
  OBVIOUS
<1> USE DEF IInv, TypeOK, IndexHeld, VcpuPoints, regs, params, locals
<1>1. CASE InStatus
  BY <1>1 DEF InStatus
<1>2. CASE InData
  BY <1>2 DEF InData, VcpuStarts
<1>3. CASE OtherAccess
  BY <1>3 DEF OtherAccess, VcpuStarts, Abort
<1> QED
  BY <1>1, <1>2, <1>3

(* The later steps of the VCPU's handlers.                                 *)
LEMMA VcpuStepInv == IInv /\ VcpuStep => IInv'
<1> SUFFICES ASSUME IInv, VcpuStep PROVE IInv'
  OBVIOUS
<1> USE DEF IInv, TypeOK, IndexHeld, VcpuPoints, At, Return, others, params,
            locals
<1>1. CASE StoreNdx
  BY <1>1 DEF StoreNdx
<1>2. CASE LoadStatus
  BY <1>2 DEF LoadStatus
<1>3. CASE StoreStatus
  BY <1>3 DEF StoreStatus, Flags
<1>4. CASE FlagInputFull
  BY <1>4 DEF FlagInputFull, Flags
<1>5. CASE SetStatus
  BY <1>5 DEF SetStatus, Flags
<1>6. CASE LoadIndex
  BY <1>6 DEF LoadIndex
<1>7. CASE LoadByte
  BY <1>7 DEF LoadByte
<1>8. CASE LoadNdx
  BY <1>8 DEF LoadNdx
<1>9. CASE DecrementNdx
  BY <1>9 DEF DecrementNdx
<1>10. CASE LowerIrq
  BY <1>10 DEF LowerIrq
<1>11. CASE TestNdx
  BY <1>11 DEF TestNdx
<1>12. CASE LoadForClear
  BY <1>12 DEF LoadForClear
<1>13. CASE ClearStatus
  BY <1>13 DEF ClearStatus, Flags
<1>14. CASE RaiseAgain
  BY <1>14 DEF RaiseAgain
<1> QED
  BY <1>1, <1>2, <1>3, <1>4, <1>5, <1>6, <1>7, <1>8, <1>9, <1>10, <1>11,
     <1>12, <1>13, <1>14 DEF VcpuStep

(* kbd_inject: it may write the index under the reader's feet, but only 0. *)
LEMMA InjectInv ==
  ASSUME IInv,
         \/ \E sc \in Scancodes, pressed \in BOOLEAN : InjectByte(sc, pressed)
         \/ InjectStep
  PROVE  IInv'
<1> USE DEF IInv, TypeOK, IndexHeld, ViewerPoints, ViewerAt, vcpuSide, params,
            locals
<1>1. CASE \E sc \in Scancodes, pressed \in BOOLEAN : InjectByte(sc, pressed)
  <2>1. PICK sc \in Scancodes, pressed \in BOOLEAN : InjectByte(sc, pressed)
    BY <1>1
  <2>2. sc \in 1..127
    OBVIOUS
  <2>3. (IF pressed THEN sc ELSE sc + 128) \in Byte
    BY <2>2 DEF Byte
  <2> QED
    BY <2>1, <2>3 DEF InjectByte
<1>2. CASE InjectNdx
  BY <1>2 DEF InjectNdx
<1>3. CASE InjectLoad
  BY <1>3 DEF InjectLoad
<1>4. CASE InjectStore
  BY <1>4 DEF InjectStore, Flags
<1>5. CASE InjectIrq
  BY <1>5 DEF InjectIrq
<1> QED
  BY <1>1, <1>2, <1>3, <1>4, <1>5 DEF InjectStep

LEMMA NextInv == IInv /\ [Next]_vars => IInv'
<1> SUFFICES ASSUME IInv, [Next]_vars PROVE IInv'
  OBVIOUS
<1>1. CASE InStatus \/ InData \/ OtherAccess
  BY <1>1, ReadInv
<1>2. CASE \E cmd \in Commands : OutCommand(cmd)
  BY <1>2, OutCommandInv
<1>3. CASE \E val \in DataBytes :
             OutCommandParam(val) \/ OutKeyboardParam(val) \/ OutKeyboard(val)
  BY <1>3, OutDataInv
<1>4. CASE VcpuStep
  BY <1>4, VcpuStepInv
<1>5. CASE \/ \E sc \in Scancodes, pressed \in BOOLEAN : InjectByte(sc, pressed)
           \/ InjectStep
  BY <1>5, InjectInv
<1>6. CASE UNCHANGED vars
  BY <1>6 DEF vars, regs, params, locals, IInv, TypeOK, IndexHeld
<1> QED
  BY <1>1, <1>2, <1>3, <1>4, <1>5, <1>6 DEF Next

(* Every field of regs stays in its range: in particular ndx_output never  *)
(* falls below -1, although its decrement races with kbd_inject.           *)
THEOREM TypeCorrect == Spec => []TypeOK
<1>1. IInv => TypeOK
  BY DEF IInv
<1> QED
  BY <1>1, InitInv, NextInv, PTL DEF Spec

(* kbd_inb never reads outside buf_output, for any interleaving with       *)
(* kbd_inject and any guest.                                               *)
THEOREM ReadsInBounds == Spec => []ReadIndexInBounds
<1>1. IInv => ReadIndexInBounds
  BY DEF IInv, TypeOK, IndexHeld, ReadIndexInBounds
<1> QED
  BY <1>1, InitInv, NextInv, PTL DEF Spec
-----------------------------------------------------------------------------
(* Calls that do not overlap.  As long as overlap is FALSE one of the two  *)
(* threads is outside its handler, and where the other one is tells what   *)
(* status, ndx_output, the line and the freshness of element 0 have to do  *)
(* with one another.                                                       *)
Serial == vcpu = "guest" \/ viewer = "poll"

Settled == /\ irq1 => "OBF" \in status
           /\ "OBF" \in status => ndx_output >= 0 /\ fresh
           /\ ndx_output = 1 => "OBF" \in status
           /\ "IBF" \notin status

(* A byte was stored and is being made visible.                            *)
Answering ==
  /\ vcpu = "ndx" => /\ fresh /\ "IBF" \notin status
                     /\ vndx = 0 \/ (vndx = 1 /\ vnext = "ibf")
  /\ vcpu = "or_load" => fresh /\ ndx_output = 0 /\ "IBF" \notin status
  /\ vcpu = "or_store" => fresh /\ ndx_output = 0 /\ "IBF" \notin vtmp
  /\ vcpu \in {"ibf", "set"} => fresh /\ ndx_output >= 0

(* A byte is being read: a second one, if any, is still unread.            *)
Unread(ndx) == /\ "IBF" \notin status
               /\ ndx_output = ndx => "OBF" \in status /\ fresh

Reading ==
  /\ vcpu = "idx" => Settled
  /\ vcpu = "rd" => Settled /\ vndx = ndx_output
  /\ vcpu = "dec_load" => Unread(1)
  /\ vcpu = "dec_store" => Unread(1) /\ vndx = ndx_output
  /\ vcpu = "ack" => Unread(0) /\ ndx_output \in -1..0
  /\ vcpu = "more" => Unread(0) /\ ndx_output \in -1..0 /\ ~irq1
  /\ vcpu = "clr_load" => ~irq1 /\ ndx_output = -1 /\ "IBF" \notin status
  /\ vcpu = "clr_store" => ~irq1 /\ ndx_output = -1 /\ "IBF" \notin vtmp
  /\ vcpu = "again" => Unread(0) /\ ndx_output = 0

(* kbd_inject stores a scan code and makes it visible.                     *)
Injecting ==
  /\ viewer = "ndx" => fresh /\ "IBF" \notin status
  /\ viewer = "load" => fresh /\ ndx_output = 0 /\ "IBF" \notin status
  /\ viewer = "store" => fresh /\ ndx_output = 0 /\ "IBF" \notin wtmp
  /\ viewer = "irq" => Settled /\ "OBF" \in status

Story == /\ Serial
         /\ vcpu = "guest" /\ viewer = "poll" => Settled
         /\ Answering /\ Reading /\ Injecting

SerialInv == ~overlap => Story

LEMMA StoryInit == Init => SerialInv
  BY DEF Init, SerialInv, Story, Serial, Settled, Answering, Reading, Injecting,
         Unread

(* A call of the guest begins when no other call runs, or overlap is set.  *)
LEMMA CallBegins ==
  ASSUME SerialInv, VcpuStarts, ~overlap'
  PROVE  /\ ~overlap /\ vcpu = "guest" /\ viewer = "poll"
         /\ Story /\ Settled
  BY DEF SerialInv, Story, VcpuStarts

LEMMA AnswerStory ==
  ASSUME SerialInv, VcpuStarts, ~overlap', UNCHANGED viewer,
         NEW b, NEW n, NEW x, n = 0 \/ (n = 1 /\ x = "ibf"), Answer(b, n, x)
  PROVE  Story'
  BY CallBegins
  DEF Answer, Story, Serial, Settled, Answering, Reading, Injecting

LEMMA SilentStory ==
  ASSUME SerialInv, VcpuStarts, ~overlap', UNCHANGED viewer, Silent \/ Abort
  PROVE  Story'
  BY CallBegins
  DEF Silent, Abort, locals, Story, Serial, Settled, Answering, Reading,
      Injecting

LEMMA GuestStory ==
  ASSUME SerialInv,
         \/ InStatus \/ InData \/ OtherAccess
         \/ \E cmd \in Commands : OutCommand(cmd)
         \/ \E val \in DataBytes :
              OutCommandParam(val) \/ OutKeyboardParam(val) \/ OutKeyboard(val)
  PROVE  SerialInv'
<1> SUFFICES ASSUME ~overlap' PROVE Story'
  BY DEF SerialInv
<1>1. CASE InStatus
  <2>1. UNCHANGED <<status, ndx_output, irq1, vcpu, vtmp, vndx, vnext, viewer,
                    wtmp, overlap, fresh>>
    BY <1>1 DEF InStatus, regs, locals
  <2>2. Story
    BY <2>1 DEF SerialInv
  <2> QED BY <2>1, <2>2 DEF Story, Serial, Settled, Answering, Reading,
                            Injecting, Unread
<1>2. CASE InData
  <2>1. Settled /\ viewer = "poll" /\ VcpuStarts
    BY <1>2, CallBegins DEF InData
  <2>2. UNCHANGED <<status, ndx_output, irq1, viewer, fresh>>
    BY <1>2 DEF InData, regs
  <2>3. vcpu' \in {"guest", "idx"}
    BY <1>2, <2>1 DEF InData, VcpuStarts
  <2> QED BY <2>1, <2>2, <2>3 DEF Story, Serial, Settled, Answering, Reading,
                                  Injecting
<1>3. CASE OtherAccess
  BY <1>3, SilentStory DEF OtherAccess
<1>4. ASSUME NEW cmd \in Commands, OutCommand(cmd)
      PROVE  Story'
  <2>1. VcpuStarts /\ UNCHANGED viewer
    BY <1>4 DEF OutCommand
  <2>2. Silent \/ Abort \/ \E b : Answer(b, 0, "or_load")
    BY <1>4 DEF OutCommand, handle_command, ReadCommandByte
  <2> QED BY <2>1, <2>2, SilentStory, AnswerStory
<1>5. ASSUME NEW val \in DataBytes,
             OutCommandParam(val) \/ OutKeyboardParam(val) \/ OutKeyboard(val)
      PROVE  Story'
  <2>1. VcpuStarts /\ UNCHANGED viewer
    BY <1>5 DEF OutCommandParam, OutKeyboardParam, OutKeyboard
  <2>2. \/ Silent \/ Abort
        \/ Answer(ACK, 0, "set") \/ Answer(170, 1, "ibf")
    BY <1>5 DEF OutCommandParam, OutKeyboardParam, OutKeyboard,
                handle_kbd_command
  <2> QED BY <2>1, <2>2, SilentStory, AnswerStory
<1> QED BY <1>1, <1>2, <1>3, <1>4, <1>5

LEMMA VcpuStory ==
  ASSUME SerialInv, TypeOK, IndexHeld, VcpuStep
  PROVE  SerialInv'
<1> SUFFICES ASSUME ~overlap' PROVE Story'
  BY DEF SerialInv
<1>0. Story /\ UNCHANGED <<viewer, wtmp>> /\ viewer = "poll"
  BY DEF SerialInv, Story, Serial, VcpuStep, At, Return, others, StoreNdx,
         LoadStatus, StoreStatus, FlagInputFull, SetStatus, LoadIndex, LoadByte,
         LoadNdx, DecrementNdx, LowerIrq, TestNdx, LoadForClear, ClearStatus,
         RaiseAgain
<1> USE <1>0 DEF TypeOK, IndexHeld, Flags, Story, Serial, Settled, Answering,
        Reading, Injecting, Unread, At, Return, locals
<1>1. CASE StoreNdx
  BY <1>1 DEF StoreNdx
<1>2. CASE LoadStatus
  BY <1>2 DEF LoadStatus
<1>3. CASE StoreStatus
  BY <1>3 DEF StoreStatus
<1>4. CASE FlagInputFull
  BY <1>4 DEF FlagInputFull
<1>5. CASE SetStatus
  BY <1>5 DEF SetStatus
<1>6. CASE LoadIndex
  BY <1>6 DEF LoadIndex
<1>7. CASE LoadByte
  BY <1>7 DEF LoadByte
<1>8. CASE LoadNdx
  BY <1>8 DEF LoadNdx
<1>9. CASE DecrementNdx
  BY <1>9 DEF DecrementNdx
<1>10. CASE LowerIrq
  BY <1>10 DEF LowerIrq
<1>11. CASE TestNdx
  BY <1>11 DEF TestNdx
<1>12. CASE LoadForClear
  BY <1>12 DEF LoadForClear
<1>13. CASE ClearStatus
  BY <1>13 DEF ClearStatus
<1>14. CASE RaiseAgain
  BY <1>14 DEF RaiseAgain
<1> QED
  BY <1>1, <1>2, <1>3, <1>4, <1>5, <1>6, <1>7, <1>8, <1>9, <1>10, <1>11,
     <1>12, <1>13, <1>14 DEF VcpuStep

LEMMA InjectStory ==
  ASSUME SerialInv, TypeOK,
         \/ \E sc \in Scancodes, pressed \in BOOLEAN : InjectByte(sc, pressed)
         \/ InjectStep
  PROVE  SerialInv'
<1> SUFFICES ASSUME ~overlap' PROVE Story'
  BY DEF SerialInv
<1> USE DEF TypeOK, Flags, SerialInv, Story, Serial, Settled, Answering,
            Reading, Injecting, ViewerAt, vcpuSide, locals
<1>1. CASE \E sc \in Scancodes, pressed \in BOOLEAN : InjectByte(sc, pressed)
  <2>1. /\ fresh' /\ viewer' = "ndx" /\ ~overlap
        /\ viewer = "poll" /\ vcpu = "guest"
        /\ UNCHANGED <<status, ndx_output, irq1, wtmp, vcpuSide>>
    BY <1>1 DEF InjectByte
  <2> QED BY <2>1
<1>2. CASE InjectNdx
  BY <1>2 DEF InjectNdx
<1>3. CASE InjectLoad
  BY <1>3 DEF InjectLoad
<1>4. CASE InjectStore
  BY <1>4 DEF InjectStore
<1>5. CASE InjectIrq
  BY <1>5 DEF InjectIrq
<1> QED BY <1>1, <1>2, <1>3, <1>4, <1>5 DEF InjectStep

LEMMA StoryStep == IInv /\ SerialInv /\ [Next]_vars => SerialInv'
<1> SUFFICES ASSUME IInv, SerialInv, [Next]_vars PROVE SerialInv'
  OBVIOUS
<1>1. CASE UNCHANGED vars
  BY <1>1 DEF vars, regs, locals, SerialInv, Story, Serial, Settled, Answering,
              Reading, Injecting, Unread
<1> QED BY <1>1, GuestStory, VcpuStory, InjectStory DEF Next, IInv

(* Between calls that did not overlap, status, index and line agree: for   *)
(* every guest, polite or not, and every key.                              *)
THEOREM SerialCallsConsistent == Spec => []QuietConsistent
<1>1. SerialInv => QuietConsistent
  BY DEF SerialInv, Story, Settled, QuietConsistent, Quiet
<1> QED
  BY <1>1, InitInv, NextInv, StoryInit, StoryStep, PTL DEF Spec

(* Without overlapping calls the interrupt line tells, after each byte     *)
(* read, whether there is another one: kbd_inb's second irq_set is neither *)
(* missing nor one too many.                                               *)
THEOREM SerialReadsRaise == Spec => LineAfterRead
<1> DEFINE Raised ==
      ~overlap /\ vcpu \in {"clr_store", "again"} /\ vcpu' = "guest"
        => (irq1' <=> "OBF" \in status')
<1>1. ASSUME IInv, SerialInv, [Next]_vars
      PROVE  [Raised]_vars
  <2> SUFFICES ASSUME vcpu \in {"clr_store", "again"}, vcpu' = "guest",
                      ~overlap, Next
               PROVE  irq1' <=> "OBF" \in status'
    BY <1>1
  <2>1. irq1 \in BOOLEAN /\ Story
    BY <1>1 DEF IInv, TypeOK, SerialInv
  <2>2. ~VcpuStarts /\ vcpu # "guest" /\ vcpu # vcpu'
    BY DEF VcpuStarts
  <2>3. VcpuStep
    BY <2>2 DEF Next, InStatus, InData, OtherAccess, OutCommand,
                OutCommandParam, OutKeyboardParam, OutKeyboard, InjectByte,
                InjectStep, InjectNdx, InjectLoad, InjectStore, InjectIrq,
                vcpuSide
  <2>4. ClearStatus \/ RaiseAgain
    BY <2>3 DEF VcpuStep, At, Return, StoreNdx, LoadStatus, StoreStatus,
                FlagInputFull, SetStatus, LoadIndex, LoadByte, LoadNdx,
                DecrementNdx, LowerIrq, TestNdx, LoadForClear
  <2>5. CASE ClearStatus
    BY <2>1, <2>5 DEF ClearStatus, Return, At, Story, Reading
  <2>6. CASE RaiseAgain
    BY <2>1, <2>6 DEF RaiseAgain, Return, At, Story, Reading, Unread
  <2> QED BY <2>4, <2>5, <2>6
<1> QED
  BY <1>1, InitInv, NextInv, StoryInit, StoryStep, PTL DEF Spec, LineAfterRead

(* Without overlapping calls no stored byte is delivered twice.            *)
THEOREM SerialCallsDeliverOnce == Spec => []NoDuplicate
<1>1. SerialInv => NoDuplicate
  BY DEF SerialInv, Story, Reading, Settled, NoDuplicate
<1> QED
  BY <1>1, InitInv, NextInv, StoryInit, StoryStep, PTL DEF Spec
=============================================================================

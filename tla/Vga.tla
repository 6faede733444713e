-------------------------------- MODULE Vga --------------------------------
(***************************************************************************)
(* The VGA adapter: the registers of src/devices/x86/vga/registers.c and   *)
(* the planes of vga/ram.c, which the VCPU thread writes, and the thread   *)
(* of vga/viewer.c, which draws frames from them without a lock.  Each of  *)
(* the viewer's loads is a step of its own: the mode, the two bytes of the *)
(* start address, every byte of the picture, and its colours.              *)
(*                                                                         *)
(* A frame is the bytes it was drawn from, with the colours they had; the  *)
(* font and the SDL surface are functions of these.                        *)
(***************************************************************************)
EXTENDS Integers, Sequences

CONSTANTS
  NumPlanes,    \* 4
  PlaneSize,    \* 0x20000
  TextBase,     \* 0x18000: where text begins in plane 0
  TextBytes,    \* 80 * 25 * 2
  GfxBytes,     \* 320 * 200, a multiple of NumPlanes per line
  Radix,        \* 256
  Components,   \* 3: bytes of a palette entry
  PelSpare,     \* 32: the bytes of palette, which follows pel
  Nibble,       \* 16: text colours
  Bytes,        \* values of a byte of the planes and of the palette
  RegBytes,     \* values of a byte of a register
  Indices,      \* the register numbers the guest uses, by controller
  Contents,     \* what the planes hold at first; malloc leaves it open
  VramAddresses,  \* the addresses the guest writes
  MaxAccesses   \* how many accesses the guest makes before it is quiet

ASSUME VgaAssumption ==
  /\ {NumPlanes, PlaneSize, TextBytes, GfxBytes, Radix, Components, Nibble}
       \subseteq Nat \ {0}
  /\ {TextBase, PelSpare, MaxAccesses} \subseteq Nat
  /\ RegBytes \subseteq 0..Radix - 1 /\ Bytes \subseteq 0..Radix - 1
  /\ GfxBytes + Radix * Radix - 1 <= PlaneSize
  /\ TextBase + TextBytes <= PlaneSize
  /\ Contents \in [0..NumPlanes - 1 -> [0..PlaneSize - 1 -> Bytes]]
  /\ VramAddresses \subseteq 0..PlaneSize - 1
  /\ 0 \in Bytes /\ 0 \in RegBytes
  /\ \A c \in {"seq", "gcont", "crtc"} : Indices[c] \subseteq Nat

(* The low nibble of a byte is a byte, and every palette address fits the  *)
(* 16 bits that hold it.                                                   *)
ASSUME NibbleAssumption == \A val \in RegBytes : val % 16 \in RegBytes
ASSUME PaletteAssumption == Components * Radix <= 65536

VARIABLES
  run, left,                    \* left: accesses the guest may still make
  ndx, reg,                     \* sequencer, graphics and CRT controller
  attr_ndx, misc_output_reg, retrace,
  pel, pel_write_addr, pel_read_addr,
  pVRAM,
  viewer,                       \* the viewer's next load
  mode, hi, start, cell, ci,    \* its local variables
  frame, screen,                \* the frame being drawn, and the shown one
  seen                          \* history: values since this frame began

guestVars == <<ndx, reg, attr_ndx, misc_output_reg, retrace,
               pel, pel_write_addr, pel_read_addr, pVRAM>>
viewerVars == <<viewer, mode, hi, start, cell, ci, frame, screen>>
vars == <<run, left, guestVars, viewerVars, seen>>

Controllers == {"seq", "gcont", "crtc"}
Last == [seq |-> 4, gcont |-> 8, crtc |-> 24]
Planes == 0..NumPlanes - 1
PelSize == Components * Radix        \* 256 colours
Starts == 0..(Radix * Radix) - 1
Word == 65536                        \* the palette addresses are uint16_t

(* The mode is bit 0 of graphics register 6; start address bytes are CRTC  *)
(* registers 0xC and 0xD.                                                  *)
Mode == IF reg["gcont"][6] % 2 = 0 THEN "text" ELSE "graphics"
High == reg["crtc"][12]
Low == reg["crtc"][13]
MapMask(p) == (reg["seq"][2] \div 2^p) % 2 = 1

BytesOf(m) == IF m = "text" THEN TextBytes ELSE GfxBytes

RegistersOK ==
  /\ DOMAIN ndx = Controllers /\ DOMAIN reg = Controllers
  /\ \A c \in Controllers : ndx[c] \in -1..Last[c]
  /\ ndx["crtc"] # -1
  /\ \A c \in Controllers : reg[c] \in [0..Last[c] -> RegBytes]
  /\ attr_ndx \in Indices["attr"] \cup {0} /\ misc_output_reg \in RegBytes
  /\ retrace \in 0..1
PicturesOK ==
  /\ pel \in [0..PelSize - 1 -> Bytes]
  /\ pel_write_addr \in 0..Word - 1 /\ pel_read_addr \in 0..Word - 1
  /\ pVRAM \in [Planes -> [0..PlaneSize - 1 -> Bytes]]
Cells == [byte : Bytes, colours : Seq(Seq(Bytes))]
ViewerOK ==
  /\ viewer \in {"mode", "high", "low", "byte", "colour", "flip"}
  /\ mode \in {"text", "graphics"} /\ hi \in RegBytes /\ start \in Starts
  /\ viewer \in {"mode", "high", "low"} => cell = 0
  /\ viewer \in {"byte", "colour"} => cell \in 0..BytesOf(mode) - 1
  /\ viewer = "flip" => cell = BytesOf(mode)
  /\ ci \in Bytes
  /\ frame \in Seq(Cells)
  /\ Len(frame) = cell
TypeOK ==
  /\ run \in {"up", "aborted", "crashed", "moved"} /\ left \in 0..MaxAccesses
  /\ RegistersOK /\ PicturesOK /\ ViewerOK

(* What can be seen now, as sets that grow while a frame is drawn.         *)
Now == [mode |-> {Mode}, high |-> {High}, low |-> {Low},
        vram |-> [p \in Planes |-> [a \in 0..PlaneSize - 1 |-> {pVRAM[p][a]}]],
        pel |-> [i \in 0..PelSize - 1 |-> {pel[i]}]]
Since(old, new) ==
  [mode |-> old.mode \cup new.mode, high |-> old.high \cup new.high,
   low |-> old.low \cup new.low,
   vram |-> [p \in Planes |-> [a \in 0..PlaneSize - 1 |->
               old.vram[p][a] \cup new.vram[p][a]]],
   pel |-> [i \in 0..PelSize - 1 |-> old.pel[i] \cup new.pel[i]]]

Init ==
  /\ run = "up" /\ left = MaxAccesses
  /\ ndx = [c \in Controllers |-> 0]
  /\ reg = [c \in Controllers |-> [r \in 0..Last[c] |-> 0]]
  /\ attr_ndx = 0 /\ misc_output_reg = 0 /\ retrace = 0
  /\ pel = [i \in 0..PelSize - 1 |-> 0]
  /\ pel_write_addr = 0 /\ pel_read_addr = 0
  /\ pVRAM = Contents
  /\ viewer = "mode" /\ mode = "text" /\ hi = 0 /\ start = 0
  /\ cell = 0 /\ ci = 0 /\ frame = << >> /\ screen = << >>
  /\ seen = Now

-----------------------------------------------------------------------------
(* The guest's accesses.  Each of them runs to its end before the next;    *)
(* the viewer can step between any two of them.                            *)
Guest == /\ run = "up" /\ left > 0
         /\ left' = left - 1
         /\ UNCHANGED viewerVars

GuestAborts == run' = "aborted" /\ UNCHANGED guestVars

(* Mutant: an index one past the last register is accepted.                *)
LatchOneMore(c, val) == IF val <= Last[c] + 1 THEN val ELSE -1

(* vgareg_outb to an index port.  The sequencer and the graphics           *)
(* controller note a register they do not have; the CRTC ASSERTs.          *)
Latch(c, val) == IF val <= Last[c] THEN val ELSE -1
OutIndex(c, val) ==
  /\ Guest
  /\ IF c = "crtc" /\ val > Last[c]
     THEN GuestAborts
     ELSE /\ ndx' = [ndx EXCEPT ![c] = Latch(c, val)]
          /\ UNCHANGED <<run, reg, attr_ndx, misc_output_reg, retrace,
                         pel, pel_write_addr, pel_read_addr, pVRAM>>

(* sequencer_write, graphics_controller_write and crtc_write, with the     *)
(* index i: register 0 of the sequencer only resets it, and the map mask   *)
(* has four bits.                                                          *)
Stored(c, i, val) ==
  IF i = -1 \/ (c = "seq" /\ i = 0) THEN reg
  ELSE [reg EXCEPT ![c][i] = IF c = "seq" /\ i = 2 THEN val % 16 ELSE val]

(* vgareg_outb to a data port.                                             *)
OutData(c, val) ==
  /\ Guest
  /\ reg' = Stored(c, ndx[c], val)
  /\ UNCHANGED <<run, ndx, attr_ndx, misc_output_reg, retrace,
                 pel, pel_write_addr, pel_read_addr, pVRAM>>

(* vgareg_outw: the index, then the data.                                  *)
OutIndexed(c, i, val) ==
  /\ Guest
  /\ IF c = "crtc" /\ i > Last[c]
     THEN GuestAborts
     ELSE /\ ndx' = [ndx EXCEPT ![c] = Latch(c, i)]
          /\ reg' = Stored(c, Latch(c, i), val)
          /\ UNCHANGED <<run, attr_ndx, misc_output_reg, retrace,
                         pel, pel_write_addr, pel_read_addr, pVRAM>>

(* vgareg_outb to 0x3C7 and 0x3C8.                                         *)
OutPelAddress(read, val) ==
  /\ Guest
  /\ IF read
     THEN pel_read_addr' = val * Components /\ UNCHANGED pel_write_addr
     ELSE pel_write_addr' = val * Components /\ UNCHANGED pel_read_addr
  /\ UNCHANGED <<run, ndx, reg, attr_ndx, misc_output_reg, retrace, pel, pVRAM>>

(* palette_write.  Nothing stops the address at the end of pel: palette    *)
(* comes next, which nothing reads, and then the pointers to the planes.   *)
(* A write into these does not stop the program, which goes on with a      *)
(* plane that lies elsewhere, until it uses it: the model follows it no    *)
(* further than to "moved", since no property can be expected from there.  *)
palette_write(val) ==
  /\ Guest
  /\ pel' = IF pel_write_addr < PelSize
            THEN [pel EXCEPT ![pel_write_addr] = val] ELSE pel
  /\ run' = IF pel_write_addr < PelSize + PelSpare THEN run ELSE "moved"
  /\ pel_write_addr' = (pel_write_addr + 1) % Word
  /\ UNCHANGED <<ndx, reg, attr_ndx, misc_output_reg, retrace,
                 pel_read_addr, pVRAM>>

(* vgareg_outb to 0x3C0: index and data go to the same port, and every     *)
(* write is taken for an index.                                            *)
OutAttribute(val) ==
  /\ Guest
  /\ attr_ndx' = val
  /\ UNCHANGED <<run, ndx, reg, misc_output_reg, retrace,
                 pel, pel_write_addr, pel_read_addr, pVRAM>>

(* misc_output_write, and the mode select port 0x3D8, which stores to the  *)
(* same register without its test.                                         *)
OutMisc(port, val) ==
  /\ Guest
  /\ IF port = "misc" /\ val % 2 = 0
     THEN GuestAborts
     ELSE /\ misc_output_reg' = val
          /\ UNCHANGED <<run, ndx, reg, attr_ndx, retrace,
                         pel, pel_write_addr, pel_read_addr, pVRAM>>

(* vgareg_inb of the palette and of the status port, whose retrace bit     *)
(* changes with every read.                                                *)
InPel ==
  /\ Guest
  /\ pel_read_addr' = (pel_read_addr + 1) % Word
  /\ UNCHANGED <<run, ndx, reg, attr_ndx, misc_output_reg, retrace,
                 pel, pel_write_addr, pVRAM>>
InStatus ==
  /\ Guest
  /\ retrace' = 1 - retrace
  /\ UNCHANGED <<run, ndx, reg, attr_ndx, misc_output_reg,
                 pel, pel_write_addr, pel_read_addr, pVRAM>>

(* sequencer_read and attribute_read know only some registers.  The other  *)
(* reads change nothing, or are of a port (the index of the CRTC is one)   *)
(* or of a width that is not implemented.                                  *)
Unhandled(port) == CASE port = "seq" -> ndx["seq"] \in {0, 1, 3}
                     [] port = "attr" -> attr_ndx < 20 /\ attr_ndx # 16
                     [] port = "plain" -> FALSE
                     [] port = "absent" -> TRUE
In(port) ==
  /\ Guest
  /\ IF Unhandled(port) THEN GuestAborts ELSE UNCHANGED <<run, guestVars>>

(* The writes that store nothing: the palette mask, where only all ones is *)
(* accepted, the debug and VBE ports, and what is not implemented.         *)
OutNothing(accepted) ==
  /\ Guest
  /\ IF accepted THEN UNCHANGED <<run, guestVars>> ELSE GuestAborts

(* writeb of vga/ram.c.  Its loop over the planes is one step, since the   *)
(* viewer loads a given address from one plane only.  writew and writel    *)
(* are several of these, writeq drops its value, and reads are of plane 0. *)
writeb(a, val) ==
  /\ Guest
  /\ pVRAM' = [p \in Planes |-> IF MapMask(p) THEN [pVRAM[p] EXCEPT ![a] = val]
                                ELSE pVRAM[p]]
  /\ UNCHANGED <<run, ndx, reg, attr_ndx, misc_output_reg, retrace,
                 pel, pel_write_addr, pel_read_addr>>

GuestAccess ==
  \/ \E c \in Controllers : \E i \in Indices[c] :
       OutIndex(c, i) \/ \E val \in RegBytes : OutIndexed(c, i, val)
  \/ \E c \in Controllers, val \in RegBytes : OutData(c, val)
  \/ \E read \in BOOLEAN, val \in RegBytes : OutPelAddress(read, val)
  \/ \E val \in Bytes : palette_write(val)
  \/ \E val \in Indices["attr"] : OutAttribute(val)
  \/ \E port \in {"misc", "mode_select"}, val \in RegBytes : OutMisc(port, val)
  \/ InPel \/ InStatus
  \/ \E port \in {"seq", "attr", "plain", "absent"} : In(port)
  \/ \E accepted \in BOOLEAN : OutNothing(accepted)
  \/ \E a \in VramAddresses, val \in Bytes : writeb(a, val)

GuestNext == GuestAccess /\ seen' = Since(seen, Now')

-----------------------------------------------------------------------------
(* The viewer.  viewer_thread tests the mode once for each frame.          *)
Viewer == run = "up" /\ UNCHANGED <<left, guestVars>>

isTextMode ==
  /\ Viewer /\ viewer = "mode"
  /\ mode' = Mode /\ viewer' = "high"
  /\ seen' = Now
  /\ UNCHANGED <<run, hi, start, cell, ci, frame, screen>>

(* Mutant: the high byte is loaded when the guest has changed the low one. *)
LoadHighIfLowMoved ==
  /\ Viewer /\ viewer = "high"
  /\ hi' = IF Low # start % Radix THEN High ELSE hi
  /\ viewer' = "low"
  /\ UNCHANGED <<run, mode, start, cell, ci, frame, screen, seen>>

(* Both update functions load the start address, high byte first.          *)
LoadHigh ==
  /\ Viewer /\ viewer = "high"
  /\ hi' = High /\ viewer' = "low"
  /\ UNCHANGED <<run, mode, start, cell, ci, frame, screen, seen>>

LoadLow ==
  /\ Viewer /\ viewer = "low"
  /\ start' = Radix * hi + Low /\ viewer' = "byte"
  /\ UNCHANGED <<run, mode, hi, cell, ci, frame, screen, seen>>

(* updateTextmode and updateGraphics: where byte k of the picture lies.    *)
Plane(m, k) == IF m = "text" THEN 0 ELSE k % NumPlanes
Offset(m, s, k) == IF m = "text" THEN TextBase + 2 * s + k ELSE k + s

(* Mutant: the start address is taken from the registers for each byte.    *)
LoadByteByRegister ==
  LET at == Offset(mode, Radix * High + Low, cell)
  IN  /\ Viewer /\ viewer = "byte"
      /\ ci' \in IF at < PlaneSize THEN {pVRAM[Plane(mode, cell)][at]} ELSE Bytes
      /\ viewer' = "colour"
      /\ UNCHANGED <<run, mode, hi, start, cell, frame, screen, seen>>

(* A byte behind the plane is whatever lies there, if anything does.       *)
LoadByte ==
  /\ Viewer /\ viewer = "byte"
  /\ IF Offset(mode, start, cell) < PlaneSize
     THEN /\ ci' = pVRAM[Plane(mode, cell)][Offset(mode, start, cell)]
          /\ UNCHANGED run
     ELSE ci' \in Bytes /\ run' \in {"up", "crashed"}
  /\ viewer' = "colour"
  /\ UNCHANGED <<mode, hi, start, cell, frame, screen, seen>>

(* drawGlyphAt takes two colours from the attribute, the odd byte of a     *)
(* character; a byte of graphics is one colour.                            *)
Colours(m, k, byte) == CASE m = "graphics" -> <<byte>>
                         [] m = "text" /\ k % 2 = 0 -> << >>
                         [] OTHER -> <<byte % Nibble, byte \div Nibble>>
PelIndex(c, j) == Components * c + j - 1
Drawn(m, k, byte) ==
  LET cs == Colours(m, k, byte)
  IN  [byte |-> byte,
       colours |-> [i \in DOMAIN cs |->
                      [j \in 1..Components |-> pel[PelIndex(cs[i], j)]]]]

(* Mutant: the loop over the picture stops one byte short.                 *)
LoadColourStopsShort ==
  /\ Viewer /\ viewer = "colour"
  /\ frame' = Append(frame, Drawn(mode, cell, ci))
  /\ cell' = cell + 1
  /\ viewer' = IF cell' = BytesOf(mode) - 1 THEN "flip" ELSE "byte"
  /\ UNCHANGED <<run, mode, hi, start, ci, screen, seen>>

LoadColour ==
  /\ Viewer /\ viewer = "colour"
  /\ frame' = Append(frame, Drawn(mode, cell, ci))
  /\ cell' = cell + 1
  /\ viewer' = IF cell' = BytesOf(mode) THEN "flip" ELSE "byte"
  /\ UNCHANGED <<run, mode, hi, start, ci, screen, seen>>

(* Mutant: the mode is tested before the loop.                             *)
FlipToHigh ==
  /\ Viewer /\ viewer = "flip"
  /\ screen' = [mode |-> mode, cells |-> frame]
  /\ viewer' = "high" /\ cell' = 0 /\ frame' = << >>
  /\ UNCHANGED <<run, mode, hi, start, ci, seen>>

(* SDL_Flip; then key events (module I8042) and sleep.                     *)
SDL_Flip ==
  /\ Viewer /\ viewer = "flip"
  /\ screen' = [mode |-> mode, cells |-> frame]
  /\ viewer' = "mode" /\ cell' = 0 /\ frame' = << >>
  /\ UNCHANGED <<run, mode, hi, start, ci, seen>>

viewer_thread ==
  isTextMode \/ LoadHigh \/ LoadLow \/ LoadByte \/ LoadColour \/ SDL_Flip

Next == GuestNext \/ viewer_thread
Spec == Init /\ [][Next]_vars

(* The viewer loops for as long as the process lives, on a thread of its   *)
(* own; the guest need not do anything.                                    *)
FairSpec == Spec /\ WF_vars(viewer_thread)

-----------------------------------------------------------------------------
(* The byte that was drawn k-th and its colours are among those of old.    *)
CellSeen(drawn, m, s, k, old) ==
  LET at == Offset(m, s, k)
      cs == Colours(m, k, drawn.byte)
  IN  /\ at < PlaneSize => drawn.byte \in old.vram[Plane(m, k)][at]
      /\ \A i \in DOMAIN cs, j \in 1..Components :
           drawn.colours[i][j] \in old.pel[PelIndex(cs[i], j)]

(* A frame is a view of what the registers and the planes held while it    *)
(* was drawn: its mode is one of that time, its bytes come from one start  *)
(* address, whose high and low byte were each current at some point, and   *)
(* every byte and every colour was there since the frame began.  Nothing   *)
(* is left over from an earlier frame, and one frame never mixes two modes *)
(* or two start addresses, whatever the guest does meanwhile.              *)
OneViewPerFrame ==
  viewer = "flip" =>
    /\ mode \in seen.mode
    /\ \E h \in seen.high, l \in seen.low :
         \A k \in 0..cell - 1 :
           CellSeen(frame[k + 1], mode, Radix * h + l, k, seen)

(* The viewer reads a byte behind a plane in text mode only, and then only *)
(* because a high and a low byte that the start address had since this     *)
(* frame began, not necessarily both at once, put the page behind the end  *)
(* of the plane.  In graphics mode no start address leads there, torn or   *)
(* not, and no start address of an earlier frame ever does.                *)
DrawsInPlane ==
  viewer = "byte" /\ Offset(mode, start, cell) >= PlaneSize =>
    /\ mode = "text"
    /\ \E h \in seen.high, l \in seen.low :
         TextBase + 2 * (Radix * h + l) + TextBytes > PlaneSize

Picture ==
  [mode |-> Mode,
   cells |-> [k \in 1..BytesOf(Mode) |->
     Drawn(Mode, k - 1, pVRAM[Plane(Mode, k - 1)]
                             [Offset(Mode, Radix * High + Low, k - 1)])]]
PictureFits == Offset(Mode, Radix * High + Low, BytesOf(Mode)) <= PlaneSize

(* A frame during which the guest changed nothing is exact: every byte in  *)
(* its place, with the colours of the palette, none missing and none from  *)
(* the frame before, whatever the guest did until the frame began.         *)
QuietFrameExact ==
  viewer = "flip" /\ seen = Now /\ PictureFits
    => [mode |-> mode, cells |-> frame] = Picture

(* Once the guest leaves registers and planes alone, the screen comes to   *)
(* show what they hold and keeps showing it: a frame that was torn by the  *)
(* guest's writes is replaced.                                             *)
Settles == <>[](run = "up" /\ PictureFits => screen = Picture)
=============================================================================

----------------------------- MODULE VgaProofs -----------------------------
(***************************************************************************)
(* Proofs about Vga, for every size of the planes and of the picture and   *)
(* any number of accesses by the guest.  Types come first; then FrameSeen, *)
(* which ties what the viewer holds at each of its loads to what the       *)
(* registers and the planes held since the frame began.                    *)
(***************************************************************************)
EXTENDS Vga, TLAPS

LEMMA Sizes ==
  /\ {NumPlanes, PlaneSize, TextBytes, GfxBytes, Radix, Components, Nibble}
       \subseteq Nat \ {0}
  /\ {TextBase, PelSpare, MaxAccesses} \subseteq Nat
  BY VgaAssumption

LEMMA WordPositive == Word \in Nat \ {0} /\ PelSize <= Word
  BY PaletteAssumption, SMT DEF Word, PelSize

LEMMA BytesPositive == \A m : BytesOf(m) \in Nat \ {0}
  BY Sizes DEF BytesOf

LEMMA NextCell ==
  ASSUME NEW n \in Nat \ {0}, NEW c \in 0..n - 1, c + 1 # n
  PROVE  c + 1 \in 0..n - 1
  OBVIOUS

LEMMA LargestStart ==
  ASSUME NEW r \in Nat \ {0}, NEW h \in 0..r - 1, NEW l \in 0..r - 1
  PROVE  r * h + l <= r * r - 1 /\ r * h + l \in Nat
<1>1. r * h <= r * (r - 1)
  OBVIOUS
<1>2. r * (r - 1) = r * r - r
  OBVIOUS
<1>3. r * h \in Nat /\ r * r \in Nat
  OBVIOUS
<1> QED BY <1>1, <1>2, <1>3

LEMMA StartIsWord ==
  ASSUME NEW h \in RegBytes, NEW l \in RegBytes
  PROVE  Radix * h + l \in Starts
<1>1. h \in 0..Radix - 1 /\ l \in 0..Radix - 1 /\ Radix \in Nat \ {0}
  BY VgaAssumption
<1>2. Radix * h + l \in Nat /\ Radix * h + l <= Radix * Radix - 1
  BY <1>1, LargestStart
<1>3. Radix * Radix \in Nat
  BY <1>1
<1>4. \A x, n \in Nat : x <= n - 1 => x \in 0..n - 1
  OBVIOUS
<1> QED BY <1>2, <1>3, <1>4 DEF Starts

(* Division leaves a byte within the palette.                              *)
LEMMA Divided ==
  ASSUME NEW n \in Nat \ {0}, NEW b \in Nat
  PROVE  /\ b % n \in Nat /\ b % n <= b
         /\ b \div n \in Nat /\ b \div n <= b
<1>1. b % n \in Nat /\ b \div n \in Nat
  OBVIOUS
<1>2. b % n <= b
  OBVIOUS
<1>3. b \div n <= b
  OBVIOUS
<1> QED BY <1>1, <1>2, <1>3

(* A colour is one of the palette, its entry one of pel.                   *)
LEMMA ColoursOK ==
  ASSUME NEW m \in {"text", "graphics"}, NEW k \in Nat, NEW b \in Bytes
  PROVE  Colours(m, k, b) \in Seq(0..Radix - 1)
<1>1. b \in 0..Radix - 1 /\ Radix \in Nat \ {0} /\ Nibble \in Nat \ {0}
  BY VgaAssumption
<1>2. b % Nibble \in 0..Radix - 1 /\ b \div Nibble \in 0..Radix - 1
  <2>1. /\ b % Nibble \in Nat /\ b % Nibble <= b
        /\ b \div Nibble \in Nat /\ b \div Nibble <= b
    BY <1>1, Divided
  <2> QED BY <1>1, <2>1
<1>3. \A S : \A x, y \in S : << >> \in Seq(S) /\ <<x>> \in Seq(S)
                             /\ <<x, y>> \in Seq(S)
  OBVIOUS
<1> QED BY <1>1, <1>2, <1>3 DEF Colours

LEMMA PelIndexOK ==
  ASSUME NEW c \in 0..Radix - 1, NEW j \in 1..Components
  PROVE  PelIndex(c, j) \in 0..PelSize - 1
<1>1. Components \in Nat \ {0} /\ Radix \in Nat \ {0}
  BY Sizes
<1>2. Components * c <= Components * (Radix - 1) /\ Components * c \in Nat
  BY <1>1
<1>3. Components * (Radix - 1) = Components * Radix - Components
      /\ Components * Radix \in Nat
  BY <1>1
<1> QED BY <1>1, <1>2, <1>3 DEF PelIndex, PelSize

LEMMA PlaneOK ==
  ASSUME NEW m, NEW k \in Nat
  PROVE  Plane(m, k) \in Planes
  BY Sizes DEF Plane, Planes

LEMMA OffsetOK ==
  ASSUME NEW m, NEW s \in Starts, NEW k \in Nat
  PROVE  Offset(m, s, k) \in Nat
<1>1. s \in Nat /\ TextBase \in Nat
  BY Sizes DEF Starts
<1> QED BY <1>1 DEF Offset

LEMMA DrawnOK ==
  ASSUME NEW m \in {"text", "graphics"}, NEW k \in Nat, NEW b \in Bytes,
         PicturesOK
  PROVE  Drawn(m, k, b) \in Cells
<1> DEFINE cs == Colours(m, k, b)
<1>1. cs \in Seq(0..Radix - 1)
  BY ColoursOK
<1>2. Components \in Nat
  BY Sizes
<1> HIDE DEF cs
<1>3. DOMAIN cs = 1..Len(cs) /\ Len(cs) \in Nat
  BY <1>1
<1>4. ASSUME NEW i \in DOMAIN cs
      PROVE  [j \in 1..Components |-> pel[PelIndex(cs[i], j)]] \in Seq(Bytes)
  <2>1. cs[i] \in 0..Radix - 1
    <3>1. \A S : \A q \in Seq(S) : \A n \in 1..Len(q) : q[n] \in S
      OBVIOUS
    <3> QED BY <1>1, <1>4, <1>3, <3>1
  <2>2. \A j \in 1..Components : pel[PelIndex(cs[i], j)] \in Bytes
    BY <2>1, PelIndexOK DEF PicturesOK
  <2>3. \A f : f \in [1..Components -> Bytes] => f \in Seq(Bytes)
    BY <1>2
  <2> QED BY <2>2, <2>3
<1>5. [i \in DOMAIN cs |-> [j \in 1..Components |-> pel[PelIndex(cs[i], j)]]]
        \in Seq(Seq(Bytes))
  <2>1. \A n \in Nat : \A S, f : f \in [1..n -> S] => f \in Seq(S)
    OBVIOUS
  <2> QED BY <1>4, <1>3, <2>1
<1> QED BY <1>5 DEF Drawn, Cells, cs

-----------------------------------------------------------------------------
(* Types.                                                                  *)
LEMMA LastOK ==
  /\ \A c \in Controllers : Last[c] \in Nat
  /\ Last["seq"] = 4 /\ Last["gcont"] = 8 /\ Last["crtc"] = 24
  /\ Controllers = {"seq", "gcont", "crtc"}
  BY DEF Last, Controllers

LEMMA TypeInit == Init => TypeOK
<1> SUFFICES ASSUME Init PROVE TypeOK
  OBVIOUS
<1>1. RegistersOK
  <2>1. \A c \in Controllers : reg[c] \in [0..Last[c] -> RegBytes]
    BY VgaAssumption DEF Init
  <2>2. \A c \in Controllers : ndx[c] = 0 /\ 0 \in -1..Last[c]
    BY LastOK DEF Init
  <2>3. DOMAIN ndx = Controllers /\ DOMAIN reg = Controllers /\ ndx["crtc"] = 0
    BY LastOK DEF Init
  <2> QED BY <2>1, <2>2, <2>3, VgaAssumption DEF Init, RegistersOK
<1>2. PicturesOK
  <2>1. 0 \in 0..Word - 1
    BY WordPositive
  <2> QED BY <2>1, VgaAssumption DEF Init, PicturesOK, Planes
<1>3. ViewerOK
  <2>1. 0 \in Starts
    <3>1. 0 \in RegBytes /\ Radix * 0 + 0 = 0
      BY VgaAssumption
    <3> QED BY <3>1, StartIsWord
  <2> QED BY <2>1, VgaAssumption DEF Init, ViewerOK
<1> QED BY <1>1, <1>2, <1>3, Sizes DEF Init, TypeOK

(* Whatever register a guest's data goes to, all of them keep their type.  *)
LEMMA StoredOK ==
  ASSUME RegistersOK, NEW c \in Controllers, NEW i \in -1..Last[c],
         NEW val \in RegBytes
  PROVE  /\ DOMAIN Stored(c, i, val) = Controllers
         /\ \A d \in Controllers :
              Stored(c, i, val)[d] \in [0..Last[d] -> RegBytes]
<1>1. CASE Stored(c, i, val) = reg
  BY <1>1 DEF RegistersOK
<1>2. ASSUME NEW v \in RegBytes, Stored(c, i, val) = [reg EXCEPT ![c][i] = v]
      PROVE  /\ DOMAIN Stored(c, i, val) = Controllers
             /\ \A d \in Controllers :
                  Stored(c, i, val)[d] \in [0..Last[d] -> RegBytes]
  <2>1. DOMAIN Stored(c, i, val) = Controllers
    BY <1>2 DEF RegistersOK
  <2>2. ASSUME NEW d \in Controllers
        PROVE  Stored(c, i, val)[d] \in [0..Last[d] -> RegBytes]
    <3>1. CASE d = c
      <4>1. Stored(c, i, val)[c] = [reg[c] EXCEPT ![i] = v]
        BY <1>2 DEF RegistersOK
      <4>2. reg[c] \in [0..Last[c] -> RegBytes]
        BY DEF RegistersOK
      <4> HIDE DEF Stored
      <4> QED BY <3>1, <4>1, <4>2
    <3>2. CASE d # c
      BY <1>2, <3>2 DEF RegistersOK
    <3> QED BY <3>1, <3>2
  <2> QED BY <2>1, <2>2
<1>3. \/ Stored(c, i, val) = reg
      \/ \E v \in RegBytes : Stored(c, i, val) = [reg EXCEPT ![c][i] = v]
  <2> DEFINE v == IF c = "seq" /\ i = 2 THEN val % 16 ELSE val
  <2>1. v \in RegBytes
    <3>1. val % 16 \in RegBytes
      BY NibbleAssumption
    <3> QED BY <3>1
  <2>2. Stored(c, i, val) = reg \/ Stored(c, i, val) = [reg EXCEPT ![c][i] = v]
    BY DEF Stored
  <2> QED BY <2>1, <2>2
<1> QED BY <1>1, <1>2, <1>3

LEMMA LatchOK ==
  ASSUME NEW c \in Controllers, NEW i \in Indices[c]
  PROVE  /\ Latch(c, i) \in -1..Last[c]
         /\ ~(c = "crtc" /\ i > Last[c]) /\ c = "crtc" => Latch(c, i) # -1
<1>1. i \in Nat /\ Last[c] \in Nat
  <2>1. Indices[c] \subseteq Nat
    BY VgaAssumption DEF Controllers
  <2> QED BY <2>1, LastOK
<1> QED BY <1>1 DEF Latch

(* The registers, under every access of the guest.                         *)
LEMMA RegistersStep ==
  ASSUME RegistersOK, GuestAccess
  PROVE  RegistersOK'
<1> DEFINE Rest == <<attr_ndx, misc_output_reg, retrace>>
<1>1. ASSUME UNCHANGED <<ndx, reg, Rest>> PROVE RegistersOK'
  BY <1>1 DEF RegistersOK
<1>2. ASSUME NEW c \in Controllers, NEW i \in Indices[c],
             ~(c = "crtc" /\ i > Last[c]),
             ndx' = [ndx EXCEPT ![c] = Latch(c, i)]
      PROVE  /\ DOMAIN ndx' = Controllers
             /\ \A d \in Controllers : ndx'[d] \in -1..Last[d]
             /\ ndx'["crtc"] # -1
  BY <1>2, LatchOK, LastOK DEF RegistersOK
<1>3. ASSUME NEW c \in Controllers, NEW i \in Indices[c], OutIndex(c, i)
      PROVE  RegistersOK'
  <2>1. CASE c = "crtc" /\ i > Last[c]
    BY <1>1, <1>3, <2>1 DEF OutIndex, GuestAborts, guestVars
  <2>2. CASE ~(c = "crtc" /\ i > Last[c])
    <3>1. ndx' = [ndx EXCEPT ![c] = Latch(c, i)] /\ UNCHANGED <<reg, Rest>>
      BY <1>3, <2>2 DEF OutIndex
    <3> QED BY <1>2, <2>2, <3>1 DEF RegistersOK
  <2> QED BY <2>1, <2>2
<1>4. ASSUME NEW c \in Controllers, NEW i \in Indices[c],
             NEW val \in RegBytes, OutIndexed(c, i, val)
      PROVE  RegistersOK'
  <2>1. CASE c = "crtc" /\ i > Last[c]
    BY <1>1, <1>4, <2>1 DEF OutIndexed, GuestAborts, guestVars
  <2>2. CASE ~(c = "crtc" /\ i > Last[c])
    <3>1. /\ ndx' = [ndx EXCEPT ![c] = Latch(c, i)]
          /\ reg' = Stored(c, Latch(c, i), val) /\ UNCHANGED Rest
      BY <1>4, <2>2 DEF OutIndexed
    <3>2. /\ DOMAIN reg' = Controllers
          /\ \A d \in Controllers : reg'[d] \in [0..Last[d] -> RegBytes]
      BY <3>1, LatchOK, StoredOK
    <3> QED BY <1>2, <2>2, <3>1, <3>2 DEF RegistersOK
  <2> QED BY <2>1, <2>2
<1>5. ASSUME NEW c \in Controllers, NEW val \in RegBytes, OutData(c, val)
      PROVE  RegistersOK'
  <2>1. reg' = Stored(c, ndx[c], val) /\ UNCHANGED <<ndx, Rest>>
    BY <1>5 DEF OutData
  <2>2. ndx[c] \in -1..Last[c]
    BY DEF RegistersOK
  <2>3. /\ DOMAIN reg' = Controllers
        /\ \A d \in Controllers : reg'[d] \in [0..Last[d] -> RegBytes]
    BY <2>1, <2>2, StoredOK
  <2> QED BY <2>1, <2>3 DEF RegistersOK
<1>6. ASSUME NEW val \in Indices["attr"], OutAttribute(val)
      PROVE  RegistersOK'
  BY <1>6 DEF OutAttribute, RegistersOK
<1>7. ASSUME NEW port, NEW val \in RegBytes, OutMisc(port, val)
      PROVE  RegistersOK'
  BY <1>7 DEF OutMisc, GuestAborts, guestVars, RegistersOK
<1>8. CASE InStatus
  BY <1>8 DEF InStatus, RegistersOK
<1>9. \/ RegistersOK'
      \/ UNCHANGED <<ndx, reg, Rest>>
  BY <1>3, <1>4, <1>5, <1>6, <1>7, <1>8
  DEF GuestAccess, OutPelAddress, palette_write, InPel, In, OutNothing,
      writeb, GuestAborts, guestVars
<1> QED BY <1>1, <1>9

(* The palette and the planes, under every access of the guest.            *)
LEMMA PicturesStep ==
  ASSUME PicturesOK, GuestAccess
  PROVE  PicturesOK'
<1>1. ASSUME UNCHANGED <<pel, pel_write_addr, pel_read_addr, pVRAM>>
      PROVE  PicturesOK'
  BY <1>1 DEF PicturesOK
<1>2. \A n \in Nat : (n + 1) % Word \in 0..Word - 1
  BY WordPositive
<1>3. ASSUME NEW read \in BOOLEAN, NEW val \in RegBytes,
             OutPelAddress(read, val)
      PROVE  PicturesOK'
  <2>1. val \in 0..Radix - 1 /\ Components \in Nat \ {0} /\ Radix \in Nat \ {0}
    BY VgaAssumption
  <2>2. val * Components <= Components * (Radix - 1)
        /\ Components * (Radix - 1) = Components * Radix - Components
        /\ val * Components \in Nat /\ Components * Radix \in Nat
    BY <2>1
  <2>3. val * Components \in 0..Word - 1
    BY <2>1, <2>2, WordPositive DEF PelSize
  <2> QED BY <1>3, <2>3 DEF OutPelAddress, PicturesOK
<1>4. ASSUME NEW val \in Bytes, palette_write(val)
      PROVE  PicturesOK'
  <2>1. pel' \in [0..PelSize - 1 -> Bytes]
    BY <1>4 DEF palette_write, PicturesOK
  <2>2. pel_write_addr' \in 0..Word - 1
    BY <1>2, <1>4, WordPositive DEF palette_write, PicturesOK
  <2> QED BY <1>4, <2>1, <2>2 DEF palette_write, PicturesOK
<1>5. CASE InPel
  BY <1>2, <1>5, WordPositive DEF InPel, PicturesOK
<1>6. ASSUME NEW a \in VramAddresses, NEW val \in Bytes, writeb(a, val)
      PROVE  PicturesOK'
  <2>1. pVRAM' \in [Planes -> [0..PlaneSize - 1 -> Bytes]]
    <3>1. ASSUME NEW p \in Planes
          PROVE  /\ pVRAM[p] \in [0..PlaneSize - 1 -> Bytes]
                 /\ [pVRAM[p] EXCEPT ![a] = val] \in [0..PlaneSize - 1 -> Bytes]
      BY DEF PicturesOK
    <3> QED BY <1>6, <3>1 DEF writeb
  <2> QED BY <1>6, <2>1 DEF writeb, PicturesOK
<1>7. PicturesOK' \/ UNCHANGED <<pel, pel_write_addr, pel_read_addr, pVRAM>>
  BY <1>3, <1>4, <1>5, <1>6
  DEF GuestAccess, OutIndex, OutIndexed, OutData, OutAttribute, OutMisc,
      InStatus, In, OutNothing, GuestAborts, guestVars
<1> QED BY <1>1, <1>7

(* An access of the guest leaves the viewer alone.                         *)
LEMMA GuestStep ==
  ASSUME GuestAccess
  PROVE  /\ UNCHANGED viewerVars
         /\ left \in 0..MaxAccesses => left' \in 0..MaxAccesses
         /\ run' \in {run, "aborted", "moved"}
<1>1. Guest
  BY DEF GuestAccess, OutIndex, OutIndexed, OutData, OutPelAddress,
         palette_write, OutAttribute, OutMisc, InPel, InStatus, In, OutNothing,
         writeb
<1>2. run' \in {run, "aborted", "moved"}
  BY DEF GuestAccess, OutIndex, OutIndexed, OutData, OutPelAddress,
         palette_write, OutAttribute, OutMisc, InPel, InStatus, In, OutNothing,
         writeb, GuestAborts
<1>3. left \in 0..MaxAccesses => left' \in 0..MaxAccesses
  BY <1>1, Sizes DEF Guest
<1> QED BY <1>1, <1>2, <1>3 DEF Guest

LEMMA RegisterBytes == TypeOK => High \in RegBytes /\ Low \in RegBytes
<1> SUFFICES ASSUME TypeOK PROVE High \in RegBytes /\ Low \in RegBytes
  OBVIOUS
<1>1. "crtc" \in Controllers /\ Last["crtc"] = 24
  BY LastOK
<1>2. RegistersOK /\ 12 \in 0..24 /\ 13 \in 0..24
  BY DEF TypeOK
<1>3. reg["crtc"] \in [0..24 -> RegBytes]
  BY <1>1, <1>2 DEF RegistersOK
<1> QED BY <1>2, <1>3 DEF High, Low

LEMMA RegisterBytesNext == TypeOK' => High' \in RegBytes /\ Low' \in RegBytes
<1>1. (TypeOK => High \in RegBytes /\ Low \in RegBytes)'
  BY RegisterBytes, PTL
<1> QED BY <1>1

(* A step of the viewer leaves the registers and the planes alone.         *)
LEMMA ViewerStep ==
  ASSUME TypeOK, viewer_thread
  PROVE  /\ ViewerOK' /\ UNCHANGED <<left, guestVars>>
         /\ run' \in {run, "crashed"}
<1>1. UNCHANGED <<left, guestVars>> /\ run' \in {run, "crashed"}
  BY DEF viewer_thread, isTextMode, LoadHigh, LoadLow, LoadByte, LoadColour,
         SDL_Flip, Viewer
<1> SUFFICES ViewerOK'
  BY <1>1
<1>2. High \in RegBytes /\ Low \in RegBytes
  BY RegisterBytes
<1>3. ViewerOK
  BY DEF TypeOK
<1>4. CASE isTextMode
  BY <1>3, <1>4 DEF isTextMode, ViewerOK, Mode
<1>5. CASE LoadHigh
  BY <1>2, <1>3, <1>5 DEF LoadHigh, ViewerOK
<1>6. CASE LoadLow
  <2>1. start' \in Starts
    BY <1>2, <1>3, <1>6, StartIsWord DEF LoadLow, ViewerOK
  <2>2. cell' \in 0..BytesOf(mode') - 1
    <3>1. cell' = 0
      BY <1>3, <1>6 DEF LoadLow, ViewerOK
    <3> QED BY <3>1, BytesPositive
  <2> QED BY <1>3, <1>6, <2>1, <2>2 DEF LoadLow, ViewerOK, BytesOf
<1>7. CASE LoadByte
  <2>1. ci' \in Bytes
    <3>1. CASE Offset(mode, start, cell) < PlaneSize
      <4>1. cell \in Nat /\ start \in Starts
        BY <1>3, <1>7, BytesPositive DEF LoadByte, ViewerOK
      <4>2. Offset(mode, start, cell) \in 0..PlaneSize - 1
        BY <3>1, <4>1, OffsetOK, Sizes
      <4>3. Plane(mode, cell) \in Planes
        BY <4>1, PlaneOK
      <4>4. \A p \in Planes, a \in 0..PlaneSize - 1 : pVRAM[p][a] \in Bytes
        BY DEF TypeOK, PicturesOK
      <4>5. ci' = pVRAM[Plane(mode, cell)][Offset(mode, start, cell)]
        BY <1>7, <3>1 DEF LoadByte
      <4> QED BY <4>2, <4>3, <4>4, <4>5
    <3>2. CASE ~(Offset(mode, start, cell) < PlaneSize)
      BY <1>7, <3>2 DEF LoadByte
    <3> QED BY <3>1, <3>2
  <2> QED BY <1>3, <1>7, <2>1 DEF LoadByte, ViewerOK, BytesOf
<1>8. CASE LoadColour
  <2>1. /\ cell \in 0..BytesOf(mode) - 1 /\ cell' = cell + 1
        /\ BytesOf(mode') = BytesOf(mode) /\ BytesOf(mode) \in Nat \ {0}
    BY <1>3, <1>8, BytesPositive DEF LoadColour, ViewerOK
  <2>2. viewer' = "byte" => cell' \in 0..BytesOf(mode') - 1
    BY <1>8, <2>1, NextCell DEF LoadColour
  <2>3. Drawn(mode, cell, ci) \in Cells
    BY <1>3, <2>1, DrawnOK DEF TypeOK, ViewerOK
  <2>4. frame' \in Seq(Cells) /\ Len(frame') = cell'
    BY <1>3, <1>8, <2>1, <2>3 DEF LoadColour, ViewerOK
  <2> QED BY <1>3, <1>8, <2>1, <2>2, <2>4 DEF LoadColour, ViewerOK
<1>9. CASE SDL_Flip
  BY <1>3, <1>9 DEF SDL_Flip, ViewerOK
<1> QED BY <1>4, <1>5, <1>6, <1>7, <1>8, <1>9 DEF viewer_thread

LEMMA TypeStep ==
  ASSUME TypeOK, [Next]_vars
  PROVE  TypeOK'
<1>1. CASE GuestNext
  <2>1. RegistersOK' /\ PicturesOK'
    BY <1>1, RegistersStep, PicturesStep DEF GuestNext, TypeOK
  <2>2. UNCHANGED viewerVars /\ left' \in 0..MaxAccesses
        /\ run' \in {"up", "aborted", "crashed", "moved"}
    BY <1>1, GuestStep DEF GuestNext, TypeOK
  <2>3. ViewerOK'
    BY <2>2 DEF viewerVars, ViewerOK, TypeOK, BytesOf
  <2> QED BY <2>1, <2>2, <2>3 DEF TypeOK
<1>2. ASSUME UNCHANGED guestVars PROVE RegistersOK' /\ PicturesOK'
  BY <1>2 DEF guestVars, TypeOK, RegistersOK, PicturesOK
<1>3. CASE viewer_thread
  BY <1>2, <1>3, ViewerStep DEF TypeOK
<1>4. CASE UNCHANGED vars
  <2>1. ViewerOK'
    BY <1>4 DEF vars, viewerVars, TypeOK, ViewerOK, BytesOf
  <2> QED BY <1>2, <1>4, <2>1 DEF vars, TypeOK
<1> QED BY <1>1, <1>3, <1>4 DEF Next

(* Registers, palette, planes and the viewer's variables keep their types  *)
(* for every plane, picture and palette size: no index latched by the      *)
(* guest is outside its controller's registers, no store leaves its array, *)
(* and the frame grows by exactly one byte of picture per pair of loads.   *)
THEOREM TypeCorrect == Spec => []TypeOK
<1> QED BY TypeInit, TypeStep, PTL DEF Spec

-----------------------------------------------------------------------------
(* What the viewer holds, and what was seen since its frame began.         *)

(* A start address with its high byte in H and its low byte in L.          *)
StartOf(s, H, L) == \E h \in H, l \in L : s = Radix * h + l

(* All that the guest's state holds now counts as seen.                    *)
NowSeen ==
  /\ Mode \in seen.mode
  /\ High \in seen.high /\ seen.high \subseteq RegBytes
  /\ Low \in seen.low /\ seen.low \subseteq RegBytes
  /\ \A p \in Planes, a \in 0..PlaneSize - 1 : pVRAM[p][a] \in seen.vram[p][a]
  /\ \A i \in 0..PelSize - 1 : pel[i] \in seen.pel[i]

HeldSeen ==
  /\ viewer # "mode" => mode \in seen.mode
  /\ viewer = "low" => hi \in seen.high
  /\ viewer \in {"byte", "colour", "flip"} =>
       /\ StartOf(start, seen.high, seen.low)
       /\ \A k \in 0..cell - 1 : CellSeen(frame[k + 1], mode, start, k, seen)
  /\ viewer = "colour" /\ Offset(mode, start, cell) < PlaneSize =>
       ci \in seen.vram[Plane(mode, cell)][Offset(mode, start, cell)]

FrameSeen == NowSeen /\ HeldSeen

LEMMA NowFields ==
  /\ Now.mode = {Mode} /\ Now.high = {High} /\ Now.low = {Low}
  /\ \A p \in Planes, a \in 0..PlaneSize - 1 : Now.vram[p][a] = {pVRAM[p][a]}
  /\ \A i \in 0..PelSize - 1 : Now.pel[i] = {pel[i]}
  BY DEF Now

LEMMA NowFieldsNext ==
  /\ Now'.mode = {Mode'} /\ Now'.high = {High'} /\ Now'.low = {Low'}
  /\ \A p \in Planes, a \in 0..PlaneSize - 1 : Now'.vram[p][a] = {pVRAM'[p][a]}
  /\ \A i \in 0..PelSize - 1 : Now'.pel[i] = {pel'[i]}
<1>1. ( /\ Now.mode = {Mode} /\ Now.high = {High} /\ Now.low = {Low}
        /\ \A p \in Planes, a \in 0..PlaneSize - 1 :
             Now.vram[p][a] = {pVRAM[p][a]}
        /\ \A i \in 0..PelSize - 1 : Now.pel[i] = {pel[i]} )'
  BY NowFields, PTL
<1> QED BY <1>1

LEMMA SinceFields ==
  ASSUME NEW old, NEW new
  PROVE  /\ Since(old, new).mode = old.mode \cup new.mode
         /\ Since(old, new).high = old.high \cup new.high
         /\ Since(old, new).low = old.low \cup new.low
         /\ \A p \in Planes, a \in 0..PlaneSize - 1 :
              Since(old, new).vram[p][a] = old.vram[p][a] \cup new.vram[p][a]
         /\ \A i \in 0..PelSize - 1 :
              Since(old, new).pel[i] = old.pel[i] \cup new.pel[i]
  BY DEF Since

(* What was seen stays seen while the frame is drawn.                      *)
LEMMA CellSeenMore ==
  ASSUME NEW d \in Cells, NEW m \in {"text", "graphics"}, NEW s \in Starts,
         NEW k \in Nat, NEW old, NEW new, CellSeen(d, m, s, k, old)
  PROVE  CellSeen(d, m, s, k, Since(old, new))
<1> DEFINE at == Offset(m, s, k)
           cs == Colours(m, k, d.byte)
<1>1. at \in Nat /\ Plane(m, k) \in Planes
  BY OffsetOK, PlaneOK
<1>2. cs \in Seq(0..Radix - 1)
  BY ColoursOK DEF Cells
<1>3. /\ at < PlaneSize => d.byte \in old.vram[Plane(m, k)][at]
      /\ \A i \in DOMAIN cs, j \in 1..Components :
           d.colours[i][j] \in old.pel[PelIndex(cs[i], j)]
  BY DEF CellSeen
<1> HIDE DEF at, cs
<1>4. at < PlaneSize => d.byte \in Since(old, new).vram[Plane(m, k)][at]
  <2> SUFFICES ASSUME at < PlaneSize
               PROVE  d.byte \in Since(old, new).vram[Plane(m, k)][at]
    OBVIOUS
  <2>1. at \in 0..PlaneSize - 1
    BY <1>1, Sizes
  <2> QED BY <1>1, <1>3, <2>1, SinceFields
<1>5. ASSUME NEW i \in DOMAIN cs, NEW j \in 1..Components
      PROVE  d.colours[i][j] \in Since(old, new).pel[PelIndex(cs[i], j)]
  <2>1. cs[i] \in 0..Radix - 1
    <3>1. \A S : \A q \in Seq(S) : \A n \in DOMAIN q : q[n] \in S
      OBVIOUS
    <3> QED BY <1>2, <3>1
  <2> QED BY <1>3, <2>1, PelIndexOK, SinceFields
<1> QED BY <1>4, <1>5 DEF CellSeen, at, cs

LEMMA FrameCell ==
  ASSUME ViewerOK, NEW k \in 0..cell - 1
  PROVE  frame[k + 1] \in Cells /\ k \in Nat
<1>1. cell \in Nat /\ k \in Nat /\ k + 1 \in 1..cell
  <2>1. cell = Len(frame) /\ frame \in Seq(Cells)
    BY DEF ViewerOK
  <2> QED BY <2>1
<1>2. \A S : \A q \in Seq(S) : \A n \in 1..Len(q) : q[n] \in S
  OBVIOUS
<1> QED BY <1>1, <1>2 DEF ViewerOK

LEMMA SeenInit == Init => FrameSeen
<1> SUFFICES ASSUME Init PROVE FrameSeen
  OBVIOUS
<1>1. seen = Now /\ viewer = "mode" /\ High \in RegBytes /\ Low \in RegBytes
  <2>1. High = 0 /\ Low = 0
    <3>1. reg["crtc"] = [r \in 0..24 |-> 0]
      BY LastOK DEF Init
    <3> QED BY <3>1 DEF High, Low
  <2> QED BY <2>1, VgaAssumption DEF Init
<1>2. NowSeen
  BY <1>1, NowFields DEF NowSeen
<1> QED BY <1>1, <1>2 DEF FrameSeen, HeldSeen

LEMMA GuestSeen ==
  ASSUME TypeOK, TypeOK', FrameSeen, GuestNext
  PROVE  FrameSeen'
<1>1. /\ seen' = Since(seen, Now')
      /\ UNCHANGED <<viewer, mode, hi, start, cell, ci, frame>>
  BY GuestStep DEF GuestNext, viewerVars
<1>2. High' \in RegBytes /\ Low' \in RegBytes
  BY RegisterBytesNext
<1>3. /\ seen'.mode = seen.mode \cup {Mode'}
      /\ seen'.high = seen.high \cup {High'}
      /\ seen'.low = seen.low \cup {Low'}
      /\ \A p \in Planes, a \in 0..PlaneSize - 1 :
           seen'.vram[p][a] = seen.vram[p][a] \cup {pVRAM'[p][a]}
      /\ \A i \in 0..PelSize - 1 : seen'.pel[i] = seen.pel[i] \cup {pel'[i]}
  BY <1>1, SinceFields, NowFieldsNext
<1>4. NowSeen'
  BY <1>2, <1>3 DEF FrameSeen, NowSeen
<1>5. HeldSeen'
  <2>1. viewer' # "mode" => mode' \in seen'.mode
    BY <1>1, <1>3 DEF FrameSeen, HeldSeen
  <2>2. viewer' = "low" => hi' \in seen'.high
    BY <1>1, <1>3 DEF FrameSeen, HeldSeen
  <2>3. ASSUME viewer' \in {"byte", "colour", "flip"}
        PROVE  StartOf(start', seen'.high, seen'.low)
    BY <1>1, <1>3, <2>3 DEF FrameSeen, HeldSeen, StartOf
  <2>4. ASSUME viewer' \in {"byte", "colour", "flip"}, NEW k \in 0..cell' - 1
        PROVE  CellSeen(frame'[k + 1], mode', start', k, seen')
    <3>1. CellSeen(frame[k + 1], mode, start, k, seen)
      BY <1>1, <2>4 DEF FrameSeen, HeldSeen
    <3>2. frame[k + 1] \in Cells /\ k \in Nat
      BY <1>1, <2>4, FrameCell DEF TypeOK
    <3>3. mode \in {"text", "graphics"} /\ start \in Starts
      BY DEF TypeOK, ViewerOK
    <3> QED BY <1>1, <3>1, <3>2, <3>3, CellSeenMore
  <2>5. ASSUME viewer' = "colour", Offset(mode', start', cell') < PlaneSize
        PROVE  ci' \in seen'.vram[Plane(mode', cell')]
                                 [Offset(mode', start', cell')]
    <3>1. cell \in Nat /\ start \in Starts
      BY BytesPositive, <1>1, <2>5 DEF TypeOK, ViewerOK
    <3>2. /\ Offset(mode, start, cell) \in 0..PlaneSize - 1
          /\ Plane(mode, cell) \in Planes
      BY <1>1, <2>5, <3>1, OffsetOK, PlaneOK, Sizes
    <3>3. ci \in seen.vram[Plane(mode, cell)][Offset(mode, start, cell)]
      BY <1>1, <2>5 DEF FrameSeen, HeldSeen
    <3>4. ci \in seen'.vram[Plane(mode, cell)][Offset(mode, start, cell)]
      BY <1>3, <3>2, <3>3
    <3> QED BY <1>1, <3>4
  <2> QED BY <2>1, <2>2, <2>3, <2>4, <2>5 DEF HeldSeen
<1> QED BY <1>4, <1>5 DEF FrameSeen

(* The byte the viewer loaded and the colours it finds for it were there.  *)
LEMMA DrawnSeen ==
  ASSUME TypeOK, FrameSeen, viewer = "colour"
  PROVE  CellSeen(Drawn(mode, cell, ci), mode, start, cell, seen)
<1> DEFINE cs == Colours(mode, cell, ci)
           d == Drawn(mode, cell, ci)
<1>1. mode \in {"text", "graphics"} /\ cell \in Nat /\ ci \in Bytes
  BY BytesPositive DEF TypeOK, ViewerOK
<1>2. cs \in Seq(0..Radix - 1)
  BY <1>1, ColoursOK
<1>3. d.byte = ci
  BY DEF Drawn
<1>4. \A i \in DOMAIN cs, j \in 1..Components :
        d.colours[i][j] = pel[PelIndex(cs[i], j)]
  BY DEF Drawn
<1>5. Offset(mode, start, cell) < PlaneSize =>
        d.byte \in seen.vram[Plane(mode, cell)][Offset(mode, start, cell)]
  BY <1>3 DEF FrameSeen, HeldSeen
<1> HIDE DEF cs, d
<1>6. ASSUME NEW i \in DOMAIN cs, NEW j \in 1..Components
      PROVE  d.colours[i][j] \in seen.pel[PelIndex(cs[i], j)]
  <2>1. cs[i] \in 0..Radix - 1
    <3>1. \A S : \A q \in Seq(S) : \A n \in DOMAIN q : q[n] \in S
      OBVIOUS
    <3> QED BY <1>2, <3>1
  <2>2. PelIndex(cs[i], j) \in 0..PelSize - 1
    BY <2>1, PelIndexOK
  <2> QED BY <1>4, <2>2 DEF FrameSeen, NowSeen
<1>7. cs = Colours(mode, cell, d.byte)
  BY <1>3 DEF cs
<1>8. CellSeen(d, mode, start, cell, seen)
  BY <1>5, <1>6, <1>7 DEF CellSeen
<1> QED BY <1>8 DEF d

LEMMA ViewerSeen ==
  ASSUME TypeOK, TypeOK', FrameSeen, viewer_thread
  PROVE  FrameSeen'
<1>1. UNCHANGED guestVars
  BY ViewerStep
<1>2. /\ High' = High /\ Low' = Low /\ Mode' = Mode
      /\ pel' = pel /\ pVRAM' = pVRAM
  BY <1>1 DEF guestVars, High, Low, Mode
<1>3. ASSUME seen' = seen PROVE NowSeen'
  BY <1>2, <1>3 DEF FrameSeen, NowSeen
<1>4. CASE isTextMode
  <2>1. seen' = Now /\ mode' = Mode /\ viewer' = "high"
    BY <1>4 DEF isTextMode
  <2>2. NowSeen'
    BY <1>2, <2>1, NowFields, RegisterBytes DEF NowSeen
  <2>3. HeldSeen'
    BY <2>1, NowFields DEF HeldSeen
  <2> QED BY <2>2, <2>3 DEF FrameSeen
<1>5. CASE LoadHigh
  <2>1. /\ seen' = seen /\ mode' = mode /\ viewer = "high" /\ viewer' = "low"
        /\ hi' = High
    BY <1>5 DEF LoadHigh
  <2>2. HeldSeen'
    BY <2>1 DEF FrameSeen, HeldSeen, NowSeen
  <2> QED BY <1>3, <2>1, <2>2 DEF FrameSeen
<1>6. CASE LoadLow
  <2>1. /\ seen' = seen /\ mode' = mode /\ viewer = "low" /\ viewer' = "byte"
        /\ start' = Radix * hi + Low /\ cell' = cell
    BY <1>6 DEF LoadLow
  <2>2. StartOf(start', seen'.high, seen'.low)
    BY <2>1 DEF FrameSeen, HeldSeen, NowSeen, StartOf
  <2>3. \A k : k \notin 0..cell' - 1
    BY <2>1 DEF TypeOK, ViewerOK
  <2>4. HeldSeen'
    BY <2>1, <2>2, <2>3 DEF FrameSeen, HeldSeen
  <2> QED BY <1>3, <2>1, <2>4 DEF FrameSeen
<1>7. CASE LoadByte
  <2>1. /\ UNCHANGED <<seen, mode, start, cell, frame>>
        /\ viewer = "byte" /\ viewer' = "colour"
    BY <1>7 DEF LoadByte
  <2>2. ASSUME Offset(mode, start, cell) < PlaneSize
        PROVE  ci' \in seen.vram[Plane(mode, cell)][Offset(mode, start, cell)]
    <3>1. cell \in Nat /\ start \in Starts
      BY BytesPositive, <2>1 DEF TypeOK, ViewerOK
    <3>2. /\ Offset(mode, start, cell) \in 0..PlaneSize - 1
          /\ Plane(mode, cell) \in Planes
      BY <2>2, <3>1, OffsetOK, PlaneOK, Sizes
    <3>3. ci' = pVRAM[Plane(mode, cell)][Offset(mode, start, cell)]
      BY <1>7, <2>2 DEF LoadByte
    <3> QED BY <3>2, <3>3 DEF FrameSeen, NowSeen
  <2>3. HeldSeen'
    BY <2>1, <2>2 DEF FrameSeen, HeldSeen
  <2> QED BY <1>3, <2>1, <2>3 DEF FrameSeen
<1>8. CASE LoadColour
  <2>1. /\ UNCHANGED <<seen, mode, start>> /\ viewer = "colour"
        /\ viewer' \in {"byte", "flip"} /\ cell' = cell + 1
        /\ frame' = Append(frame, Drawn(mode, cell, ci))
    BY <1>8 DEF LoadColour
  <2>2. cell \in Nat /\ Len(frame) = cell /\ frame \in Seq(Cells)
    BY <2>1, BytesPositive DEF TypeOK, ViewerOK
  <2>3. ASSUME NEW k \in 0..cell' - 1
        PROVE  CellSeen(frame'[k + 1], mode, start, k, seen)
    <3>1. CASE k = cell
      <4>1. frame'[k + 1] = Drawn(mode, cell, ci)
        BY <2>1, <2>2, <3>1
      <4> QED BY <2>1, <3>1, <4>1, DrawnSeen
    <3>2. CASE k # cell
      <4>1. k \in 0..cell - 1 /\ k + 1 \in 1..Len(frame)
        BY <2>1, <2>2, <2>3, <3>2
      <4>2. frame'[k + 1] = frame[k + 1]
        BY <2>1, <2>2, <4>1
      <4> QED BY <2>1, <4>1, <4>2 DEF FrameSeen, HeldSeen
    <3> QED BY <3>1, <3>2
  <2>4. StartOf(start', seen'.high, seen'.low) /\ mode' \in seen'.mode
    BY <2>1 DEF FrameSeen, HeldSeen
  <2>5. HeldSeen'
    BY <2>1, <2>3, <2>4 DEF HeldSeen
  <2> QED BY <1>3, <2>1, <2>5 DEF FrameSeen
<1>9. CASE SDL_Flip
  <2>1. seen' = seen /\ viewer' = "mode"
    BY <1>9 DEF SDL_Flip
  <2> QED BY <1>3, <2>1 DEF FrameSeen, HeldSeen
<1> QED BY <1>4, <1>5, <1>6, <1>7, <1>8, <1>9 DEF viewer_thread

LEMMA SeenStep ==
  ASSUME TypeOK, TypeOK', FrameSeen, [Next]_vars
  PROVE  FrameSeen'
<1>1. CASE UNCHANGED vars
  <2>1. /\ UNCHANGED <<viewer, mode, hi, start, cell, ci, frame, seen>>
        /\ UNCHANGED <<reg, pel, pVRAM>>
    BY <1>1 DEF vars, guestVars, viewerVars
  <2>2. NowSeen'
    BY <2>1 DEF FrameSeen, NowSeen, Mode, High, Low
  <2>3. HeldSeen'
    BY <2>1 DEF FrameSeen, HeldSeen
  <2> QED BY <2>2, <2>3 DEF FrameSeen
<1> QED BY <1>1, GuestSeen, ViewerSeen DEF Next

LEMMA AlwaysSeen == Spec => [](TypeOK /\ FrameSeen)
<1>1. TypeOK /\ FrameSeen /\ [Next]_vars => TypeOK' /\ FrameSeen'
  BY TypeStep, SeenStep
<1> QED BY TypeInit, SeenInit, <1>1, PTL DEF Spec

(* Every frame the viewer shows is one view: a mode of its time, one start *)
(* address made of bytes of its time, and only bytes and colours that the  *)
(* planes and the palette held since it began, for every size of picture,  *)
(* plane and palette and whatever the guest writes between two loads.      *)
THEOREM FramesAreViews == Spec => []OneViewPerFrame
<1>1. FrameSeen => OneViewPerFrame
  <2> SUFFICES ASSUME FrameSeen, viewer = "flip" PROVE OneViewPerFrame
    BY DEF OneViewPerFrame
  <2>1. /\ mode \in seen.mode
        /\ StartOf(start, seen.high, seen.low)
        /\ \A k \in 0..cell - 1 : CellSeen(frame[k + 1], mode, start, k, seen)
    BY DEF FrameSeen, HeldSeen
  <2>2. PICK h \in seen.high, l \in seen.low : start = Radix * h + l
    BY <2>1 DEF StartOf
  <2>3. \A k \in 0..cell - 1 :
          CellSeen(frame[k + 1], mode, Radix * h + l, k, seen)
    BY <2>1, <2>2
  <2> QED BY <2>1, <2>3 DEF OneViewPerFrame
<1> QED BY <1>1, AlwaysSeen, PTL

(* For every size of plane, picture and register the viewer reads behind a *)
(* plane in text mode only, and only for a start address whose two bytes   *)
(* the guest set since the frame began, or before it and left there.       *)
THEOREM ReadsInPlane == Spec => []DrawsInPlane
<1>1. TypeOK /\ FrameSeen => DrawsInPlane
  <2> SUFFICES ASSUME TypeOK, FrameSeen, viewer = "byte",
                      Offset(mode, start, cell) >= PlaneSize
               PROVE  /\ mode = "text"
                      /\ \E h \in seen.high, l \in seen.low :
                           TextBase + 2 * (Radix * h + l) + TextBytes > PlaneSize
    BY DEF DrawsInPlane
  <2>1. PICK h \in seen.high, l \in seen.low : start = Radix * h + l
    BY DEF FrameSeen, HeldSeen, StartOf
  <2>2. start \in Nat /\ start <= Radix * Radix - 1
    BY Sizes DEF TypeOK, ViewerOK, Starts
  <2>3. cell \in 0..BytesOf(mode) - 1
    BY DEF TypeOK, ViewerOK
  <2>4. /\ {TextBase, TextBytes, GfxBytes, PlaneSize} \subseteq Nat
        /\ GfxBytes + Radix * Radix - 1 <= PlaneSize /\ Radix * Radix \in Nat
    BY VgaAssumption
  <2>5. mode = "text"
    <3> SUFFICES ASSUME mode # "text" PROVE FALSE
      OBVIOUS
    <3>1. cell + start >= PlaneSize /\ cell \in 0..GfxBytes - 1
      BY <2>3, <2>4 DEF Offset, BytesOf
    <3> QED BY <3>1, <2>2, <2>4
  <2>6. TextBase + 2 * start + TextBytes > PlaneSize
    <3>1. TextBase + 2 * start + cell >= PlaneSize /\ cell \in 0..TextBytes - 1
      BY <2>3, <2>4, <2>5 DEF Offset, BytesOf
    <3> QED BY <3>1, <2>2, <2>4
  <2> QED BY <2>1, <2>5, <2>6
<1> QED BY <1>1, AlwaysSeen, PTL

-----------------------------------------------------------------------------
(* A quiet frame.  CellSeen bounds the colours of a cell and leaves open   *)
(* how many there are; Shaped says that a cell has those of its byte and   *)
(* nothing else.                                                           *)
Shaped(d, m, k) ==
  d = [byte |-> d.byte,
       colours |-> [i \in DOMAIN Colours(m, k, d.byte) |->
                      [j \in 1..Components |-> d.colours[i][j]]]]
FrameShaped == \A k \in 0..cell - 1 : Shaped(frame[k + 1], mode, k)

LEMMA DrawnShaped ==
  ASSUME NEW m, NEW k, NEW b
  PROVE  Shaped(Drawn(m, k, b), m, k)
<1> DEFINE cs == Colours(m, k, b)
           d == Drawn(m, k, b)
<1>1. d = [byte |-> b,
           colours |-> [i \in DOMAIN cs |->
                          [j \in 1..Components |-> pel[PelIndex(cs[i], j)]]]]
  BY DEF Drawn
<1> HIDE DEF cs
<1>2. d.byte = b
  BY <1>1
<1>3. d.colours = [i \in DOMAIN cs |->
                     [j \in 1..Components |-> d.colours[i][j]]]
  BY <1>1
<1>4. d = [byte |-> d.byte, colours |-> d.colours]
  BY <1>1
<1>5. cs = Colours(m, k, d.byte)
  BY <1>2 DEF cs
<1> HIDE DEF d
<1>6. Shaped(d, m, k)
  BY <1>3, <1>4, <1>5 DEF Shaped
<1> QED BY <1>6 DEF d

(* The frame grows by a drawn cell at a time, and the mode changes only    *)
(* while it is empty.                                                      *)
LEMMA ShapedStep ==
  ASSUME TypeOK, FrameShaped, [Next]_vars
  PROVE  FrameShaped'
<1>1. CASE UNCHANGED <<mode, cell, frame>>
  BY <1>1 DEF FrameShaped
<1>2. CASE cell' = 0
  <2>1. \A k : k \notin 0..cell' - 1
    BY <1>2
  <2> QED BY <2>1 DEF FrameShaped
<1>3. CASE LoadColour
  <2>1. /\ cell' = cell + 1 /\ mode' = mode /\ viewer = "colour"
        /\ frame' = Append(frame, Drawn(mode, cell, ci))
    BY <1>3 DEF LoadColour
  <2>2. cell \in Nat /\ Len(frame) = cell /\ frame \in Seq(Cells)
    BY <2>1, BytesPositive DEF TypeOK, ViewerOK
  <2> SUFFICES ASSUME NEW k \in 0..cell' - 1
               PROVE  Shaped(frame'[k + 1], mode, k)
    BY <2>1 DEF FrameShaped
  <2>3. CASE k = cell
    <3>1. frame'[k + 1] = Drawn(mode, k, ci)
      BY <2>1, <2>2, <2>3
    <3> QED BY <3>1, DrawnShaped
  <2>4. CASE k # cell
    <3>1. k \in 0..cell - 1 /\ k + 1 \in 1..Len(frame)
      BY <2>1, <2>2, <2>4
    <3>2. frame'[k + 1] = frame[k + 1]
      BY <2>1, <2>2, <3>1
    <3> QED BY <3>1, <3>2 DEF FrameShaped
  <2> QED BY <2>3, <2>4
<1>4. CASE isTextMode
  <2>1. cell' = 0
    BY <1>4 DEF isTextMode, TypeOK, ViewerOK
  <2> QED BY <1>2, <2>1
<1>5. CASE SDL_Flip
  BY <1>2, <1>5 DEF SDL_Flip
<1>6. CASE GuestNext
  BY <1>1, <1>6, GuestStep DEF GuestNext, viewerVars
<1>7. CASE LoadHigh \/ LoadLow \/ LoadByte
  BY <1>1, <1>7 DEF LoadHigh, LoadLow, LoadByte
<1>8. CASE UNCHANGED vars
  BY <1>1, <1>8 DEF vars, viewerVars
<1> QED BY <1>3, <1>4, <1>5, <1>6, <1>7, <1>8 DEF Next, viewer_thread

LEMMA ShapedInit == Init => FrameShaped
  BY DEF Init, FrameShaped

LEMMA AlwaysShaped == Spec => []FrameShaped
<1>1. TypeOK /\ FrameShaped /\ [Next]_vars => FrameShaped'
  BY ShapedStep
<1> QED BY ShapedInit, TypeCorrect, <1>1, PTL DEF Spec

(* A cell of which every part was seen, when what was seen is what is      *)
(* there now, is the cell that would be drawn now.                         *)
LEMMA QuietCell ==
  ASSUME NEW d \in Cells, NEW m \in {"text", "graphics"}, NEW s \in Starts,
         NEW k \in Nat, Offset(m, s, k) < PlaneSize, Shaped(d, m, k),
         CellSeen(d, m, s, k, Now)
  PROVE  d = Drawn(m, k, pVRAM[Plane(m, k)][Offset(m, s, k)])
<1> DEFINE at == Offset(m, s, k)
           cs == Colours(m, k, d.byte)
<1>1. at \in 0..PlaneSize - 1 /\ Plane(m, k) \in Planes
  BY OffsetOK, PlaneOK, Sizes
<1>2. d.byte = pVRAM[Plane(m, k)][at]
  BY <1>1, NowFields DEF CellSeen
<1>3. cs \in Seq(0..Radix - 1)
  BY ColoursOK DEF Cells
<1>4. \A i \in DOMAIN cs, j \in 1..Components :
        d.colours[i][j] \in Now.pel[PelIndex(cs[i], j)]
  BY DEF CellSeen
<1>5. d = [byte |-> d.byte,
           colours |-> [i \in DOMAIN cs |->
                          [j \in 1..Components |-> d.colours[i][j]]]]
  BY DEF Shaped
<1> HIDE DEF at, cs
<1>6. ASSUME NEW i \in DOMAIN cs, NEW j \in 1..Components
      PROVE  d.colours[i][j] = pel[PelIndex(cs[i], j)]
  <2>1. cs[i] \in 0..Radix - 1
    <3>1. \A S : \A q \in Seq(S) : \A n \in DOMAIN q : q[n] \in S
      OBVIOUS
    <3> QED BY <1>3, <3>1
  <2>2. PelIndex(cs[i], j) \in 0..PelSize - 1
    BY <2>1, PelIndexOK
  <2> QED BY <1>4, <2>2, NowFields
<1>7. [i \in DOMAIN cs |-> [j \in 1..Components |-> d.colours[i][j]]]
        = [i \in DOMAIN cs |->
             [j \in 1..Components |-> pel[PelIndex(cs[i], j)]]]
  BY <1>6
<1>8. d = Drawn(m, k, d.byte)
  BY <1>5, <1>7 DEF Drawn, cs
<1> QED BY <1>2, <1>8 DEF at

(* For every size of plane, picture and palette a frame during which the   *)
(* guest changed nothing shows exactly what registers, planes and palette  *)
(* hold: what is left of Settles is that the viewer keeps drawing.         *)
THEOREM QuietFramesExact == Spec => []QuietFrameExact
<1>1. TypeOK /\ FrameSeen /\ FrameShaped => QuietFrameExact
  <2> SUFFICES ASSUME TypeOK, FrameSeen, FrameShaped, viewer = "flip",
                      seen = Now, PictureFits
               PROVE  [mode |-> mode, cells |-> frame] = Picture
    BY DEF QuietFrameExact
  <2>1. /\ mode \in seen.mode /\ StartOf(start, seen.high, seen.low)
        /\ \A k \in 0..cell - 1 : CellSeen(frame[k + 1], mode, start, k, seen)
    BY DEF FrameSeen, HeldSeen
  <2>2. mode = Mode /\ start = Radix * High + Low
    BY <2>1, NowFields DEF StartOf
  <2>3. /\ mode \in {"text", "graphics"} /\ start \in Starts
        /\ cell = BytesOf(mode) /\ Len(frame) = cell /\ frame \in Seq(Cells)
    BY DEF TypeOK, ViewerOK
  <2>4. cell \in Nat
    BY <2>3, BytesPositive
  <2>5. ASSUME NEW k \in 0..cell - 1
        PROVE  frame[k + 1]
                 = Drawn(mode, k, pVRAM[Plane(mode, k)][Offset(mode, start, k)])
    <3>1. frame[k + 1] \in Cells /\ k \in Nat
      BY FrameCell DEF TypeOK
    <3>2. Offset(mode, start, k) < PlaneSize
      <4>1. Offset(mode, start, cell) <= PlaneSize
        BY <2>2, <2>3 DEF PictureFits
      <4>2. start \in Nat /\ TextBase \in Nat /\ PlaneSize \in Nat
        BY <2>3, Sizes DEF Starts
      <4> QED BY <2>4, <3>1, <4>1, <4>2 DEF Offset
    <3>3. CellSeen(frame[k + 1], mode, start, k, Now)
      BY <2>1
    <3>4. Shaped(frame[k + 1], mode, k)
      BY DEF FrameShaped
    <3> QED BY <2>3, <3>1, <3>2, <3>3, <3>4, QuietCell
  <2> DEFINE P(k) == Drawn(mode, k - 1, pVRAM[Plane(mode, k - 1)]
                                             [Offset(mode, start, k - 1)])
  <2>6. ASSUME NEW k \in 1..cell PROVE frame[k] = P(k)
    <3>1. k - 1 \in 0..cell - 1 /\ (k - 1) + 1 = k
      BY <2>4
    <3> QED BY <2>5, <3>1
  <2> HIDE DEF P
  <2>7. frame = [k \in 1..cell |-> P(k)]
    BY <2>3, <2>6
  <2> QED BY <2>2, <2>3, <2>7 DEF Picture, P
<1> QED BY <1>1, AlwaysSeen, AlwaysShaped, PTL
=============================================================================

---------------------------- MODULE FloppyProofs ----------------------------
(***************************************************************************)
(* Proofs about Floppy, for every geometry, image, buffer size and set of  *)
(* driver parameters: the FIFO index stays with the phase, IRQ 6 tells     *)
(* what the driver has to do and no command completes without an edge, and *)
(* READ DATA delivers what was asked for.                                  *)
(***************************************************************************)
EXTENDS Floppy, FiniteSetTheorems, FunctionTheorems, TLAPS

Counters == fifondx \in Nat /\ fifolen \in Nat /\ DOMAIN fifo = 0..8
Histories == irq6 \in BOOLEAN /\ unsensed \in BOOLEAN /\ missed \in BOOLEAN

(* FifoInPhase, which also holds of a process that has stopped.            *)
Phase == /\ "DIO" \in msr => fifondx < fifolen /\ "CB" \notin msr
         /\ "CB" \in msr <=> "DIO" \notin msr /\ fifondx > 0
         /\ fifondx > 0 => fifondx < fifolen

(* A raised line has exactly one owner, who will lower it: SENSE           *)
(* INTERRUPT, which is the only command the driver may then send, or the   *)
(* end of the result phase.                                                *)
LineOwned == /\ LineTellsInterrupt
             /\ "DIO" \in msr => ~unsensed
             /\ "CB" \in msr => ~unsensed

(* The inductive invariant.                                                *)
IInv == Counters /\ Histories /\ Phase /\ LineOwned /\ ~missed

(* The invariant holds after x86_floppy_init.                              *)
LEMMA InitHolds == Init => IInv
<1> SUFFICES ASSUME Init PROVE IInv
  OBVIOUS
<1>1. "DIO" \notin msr /\ "CB" \notin msr
  BY DEF Init
<1>2. fifondx = 0 /\ fifolen = 0 /\ DOMAIN fifo = 0..8
  BY DEF Init
<1>3. irq6 = FALSE /\ unsensed = FALSE /\ missed = FALSE
  BY DEF Init
<1>4. Counters /\ Phase
  BY <1>1, <1>2 DEF Counters, Phase
<1>5. Histories /\ LineOwned /\ ~missed
  BY <1>1, <1>3, Zenon DEF Histories, LineOwned, LineTellsInterrupt
<1> QED
  BY <1>4, <1>5 DEF IInv

(* Executing a command establishes the phase it ends in.  The driver sends *)
(* one only with DIO clear, and none but SENSE INTERRUPT while an          *)
(* interrupt is to be sensed, so the line is low before the others.        *)
LEMMA ExecuteKeeps ==
  ASSUME IInv, NEW f, doExecuteCommand(f), DOMAIN f = 0..8, "DIO" \notin msr,
         f[0] # SENSE_INTERRUPT => ~unsensed
  PROVE  IInv'
<1>0. UNCHANGED fifo \/ DOMAIN fifo' = 0..8
  BY DEF doExecuteCommand, ReadData, ReadDataFails, Recalibrate, SenseInterrupt,
         ReadId, Seek, PositionResult, Results, Empty, fdc
<1> USE DEF IInv, Counters, Histories
<1>1. CASE f[0] = READ_DATA /\ ReadData(f)
  <2>1. ~unsensed
    BY <1>1 DEF READ_DATA, SENSE_INTERRUPT
  <2>2. ~irq6
    BY <2>1 DEF LineOwned, LineTellsInterrupt
  <2>3. /\ msr' = Result /\ fifondx' = 0 /\ fifolen' = 7
        /\ irq6' = TRUE /\ missed' = (missed \/ irq6) /\ unsensed' = unsensed
    BY <1>1 DEF ReadData, PositionResult, Results, Notify
  <2> QED
    BY <1>0, <2>1, <2>2, <2>3 DEF Phase, LineOwned, LineTellsInterrupt, Result
<1>2. CASE f[0] = READ_DATA /\ ReadDataFails(f)
  BY <1>0, <1>2 DEF ReadDataFails, fdc, Phase, LineOwned, LineTellsInterrupt
<1>3. CASE f[0] = RECALIBRATE /\ Recalibrate
  <2>1. "DIO" \notin msr' /\ "CB" \notin msr'
    BY <1>3 DEF Recalibrate
  <2>2. /\ fifondx' = 0 /\ fifolen' = 1 /\ irq6' = TRUE /\ unsensed' = TRUE
        /\ missed' = missed
    BY <1>3 DEF Recalibrate
  <2>3. (Counters /\ Phase)'
    BY <1>0, <2>1, <2>2 DEF Phase
  <2>4. (Histories /\ LineOwned /\ ~missed)'
    BY <2>1, <2>2, Zenon DEF LineOwned, LineTellsInterrupt
  <2> QED
    BY <2>3, <2>4
<1>4. CASE f[0] = SENSE_INTERRUPT /\ SenseInterrupt
  <2>1. /\ msr' = Result /\ fifondx' = 0 /\ fifolen' = 2
        /\ irq6' = FALSE /\ unsensed' = FALSE /\ missed' = missed
    BY <1>4 DEF SenseInterrupt, Results
  <2>2. "CB" \notin msr' /\ "DIO" \in msr' /\ fifolen' # 7
    BY <2>1 DEF Result
  <2>3. (Counters /\ Phase)'
    BY <1>0, <2>1, <2>2 DEF Phase
  <2>4. (Histories /\ LineOwned /\ ~missed)'
    BY <2>1, <2>2, Zenon DEF LineOwned, LineTellsInterrupt
  <2> QED
    BY <2>3, <2>4
<1>5. CASE f[0] = READ_ID /\ ReadId
  <2>1. ~unsensed
    BY <1>5 DEF READ_ID, SENSE_INTERRUPT
  <2>2. ~irq6
    BY <2>1 DEF LineOwned, LineTellsInterrupt
  <2>3. /\ msr' = Result /\ fifondx' = 0 /\ fifolen' = 7
        /\ irq6' = TRUE /\ missed' = (missed \/ irq6) /\ unsensed' = unsensed
    BY <1>5 DEF ReadId, PositionResult, Results, Notify
  <2> QED
    BY <1>0, <2>1, <2>2, <2>3 DEF Phase, LineOwned, LineTellsInterrupt, Result
<1>6. CASE f[0] = SEEK /\ Seek(f)
  <2>1. ~unsensed
    BY <1>6 DEF SEEK, SENSE_INTERRUPT
  <2>2. ~irq6
    BY <2>1 DEF LineOwned, LineTellsInterrupt
  <2>3. /\ msr' = Idle /\ fifondx' = 0 /\ fifolen' = 0
        /\ irq6' = TRUE /\ missed' = (missed \/ irq6) /\ unsensed' = TRUE
    BY <1>6 DEF Seek, Notify
  <2> QED
    BY <1>0, <2>1, <2>2, <2>3 DEF Phase, LineOwned, LineTellsInterrupt, Idle
<1> QED
  BY <1>1, <1>2, <1>3, <1>4, <1>5, <1>6 DEF doExecuteCommand

(* The first byte of a command.                                            *)
LEMMA CommandKeeps ==
  ASSUME IInv, NEW op \in Opcodes, OutCommand(op)
  PROVE  IInv'
<1> DEFINE f == [fifo EXCEPT ![fifondx] = op]
<1>1. /\ "DIO" \notin msr /\ fifondx = 0
      /\ unsensed => op = SENSE_INTERRUPT
      /\ Store(op, Length[op], msr \cup {"CB"})
  BY DEF OutCommand, MayWrite
<1>2. CASE fifondx + 1 >= Length[op] /\ doExecuteCommand(f)
  <2>1. f[0] # SENSE_INTERRUPT => ~unsensed
    <3>1. SUFFICES ASSUME unsensed PROVE f[0] = SENSE_INTERRUPT
      OBVIOUS
    <3>2. op = SENSE_INTERRUPT
      BY <1>1, <3>1
    <3> QED
      BY <1>1, <3>2 DEF IInv, Counters
  <2>2. DOMAIN f = 0..8
    BY DEF IInv, Counters
  <2> QED
    BY <1>1, <1>2, <2>1, <2>2, ExecuteKeeps
<1>3. CASE /\ fifondx + 1 < Length[op]
           /\ fifondx' = fifondx + 1 /\ fifolen' = Length[op]
           /\ msr' = msr \cup {"CB"} /\ fifo' = f
           /\ UNCHANGED <<irq6, unsensed, missed>>
  <2>1. Length[op] \in Nat /\ (op = SENSE_INTERRUPT => Length[op] = 1)
    BY DEF Length, Opcodes, READ_DATA, RECALIBRATE, SENSE_INTERRUPT, READ_ID,
           SEEK
  <2> QED
    BY <1>1, <1>3, <2>1
    DEF IInv, Counters, Histories, Phase, LineOwned, LineTellsInterrupt
<1> QED
  BY <1>1, <1>2, <1>3 DEF Store

(* A later byte of a command: the command is not SENSE INTERRUPT, but what *)
(* matters is that nothing is left to be sensed while CB is set.           *)
LEMMA ParameterKeeps ==
  ASSUME IInv, OutParameter
  PROVE  IInv'
<1>1. "DIO" \notin msr /\ fifondx > 0
  BY DEF OutParameter, MayWrite
<1>2. "CB" \in msr /\ ~unsensed
  BY <1>1 DEF IInv, Phase, LineOwned, LineTellsInterrupt
<1>3. PICK val : Store(val, fifolen, msr)
  BY DEF OutParameter
<1> DEFINE f == [fifo EXCEPT ![fifondx] = val]
<1>4. CASE fifondx + 1 >= fifolen /\ doExecuteCommand(f)
  <2>1. DOMAIN f = 0..8
    BY DEF IInv, Counters
  <2> QED
    BY <1>1, <1>2, <1>4, <2>1, ExecuteKeeps
<1>5. CASE /\ fifondx + 1 < fifolen
           /\ fifondx' = fifondx + 1 /\ fifolen' = fifolen /\ msr' = msr
           /\ fifo' = f
           /\ UNCHANGED <<irq6, unsensed, missed>>
  BY <1>1, <1>2, <1>5
  DEF IInv, Counters, Histories, Phase, LineOwned, LineTellsInterrupt
<1> QED
  BY <1>3, <1>4, <1>5 DEF Store

(* Every step of the controller, its driver and the DMA channel.           *)
LEMMA NextKeeps == IInv /\ [Next]_vars => IInv'
<1> SUFFICES ASSUME IInv, [Next]_vars PROVE IInv'
  OBVIOUS
<1>1. CASE \E op \in Opcodes : OutCommand(op)
  BY <1>1, CommandKeeps
<1>2. CASE UnhandledAccess
  BY <1>2 DEF UnhandledAccess, fdc, IInv, Counters, Histories, Phase,
              LineOwned, LineTellsInterrupt
<1>3. CASE OutParameter
  BY <1>3, ParameterKeeps
<1>4. CASE InFifo
  <2>1. "DIO" \in msr /\ missed' = missed /\ unsensed' = unsensed
    BY <1>4 DEF InFifo, Result
  <2>2. CASE fifondx + 1 >= fifolen
    <3>1. /\ msr' = Idle /\ fifondx' = 0 /\ fifo' = Empty
          /\ irq6' = FALSE /\ fifolen' = fifolen
      BY <1>4, <2>2 DEF InFifo
    <3>2. "CB" \notin msr' /\ "DIO" \notin msr'
      BY <3>1 DEF Idle
    <3>3. (Counters /\ Phase)'
      BY <3>1, <3>2 DEF IInv, Counters, Phase, Empty
    <3>4. (Histories /\ LineOwned /\ ~missed)'
      BY <2>1, <3>1, <3>2, Zenon
      DEF IInv, Histories, LineOwned, LineTellsInterrupt
    <3> QED
      BY <3>3, <3>4 DEF IInv
  <2>3. CASE ~(fifondx + 1 >= fifolen)
    <3>1. fifondx' = fifondx + 1 /\ UNCHANGED <<msr, fifo, irq6, fifolen>>
      BY <1>4, <2>3 DEF InFifo
    <3> QED
      BY <2>1, <2>3, <3>1
      DEF IInv, Counters, Histories, Phase, LineOwned, LineTellsInterrupt
  <2> QED
    BY <2>2, <2>3
<1>5. CASE doReset
  <2>1. "DIO" \notin msr' /\ "CB" \notin msr'
    BY <1>5 DEF doReset
  <2>2. /\ fifondx' = 0 /\ fifolen' = 0 /\ irq6' = TRUE /\ unsensed' = TRUE
        /\ missed' = missed /\ DOMAIN fifo' = 0..8
    BY <1>5 DEF doReset, Empty
  <2>3. (Counters /\ Phase)'
    BY <2>1, <2>2 DEF Counters, Phase
  <2>4. (Histories /\ LineOwned /\ ~missed)'
    BY <2>1, <2>2, Zenon DEF IInv, Histories, LineOwned, LineTellsInterrupt
  <2> QED
    BY <2>3, <2>4 DEF IInv
<1>6. CASE ProgramDma
  BY <1>6 DEF ProgramDma, floppyVars, fdc, IInv, Counters, Histories, Phase,
              LineOwned, LineTellsInterrupt
<1>7. CASE UNCHANGED vars
  BY <1>7 DEF vars, floppyVars, fdc, IInv, Counters, Histories, Phase,
              LineOwned, LineTellsInterrupt
<1> QED
  BY <1>1, <1>2, <1>3, <1>4, <1>5, <1>6, <1>7 DEF Next

(* The FIFO index shared by floppy_inb and floppy_outb is always where the *)
(* phase shown in MSR says.                                                *)
THEOREM FifoStaysInPhase == Spec => []FifoInPhase
<1>1. IInv => FifoInPhase
  BY DEF IInv, Phase, FifoInPhase
<1> QED
  BY <1>1, InitHolds, NextKeeps, PTL DEF Spec

(* No command of floppy.c that ends with irq_set(6,1) finds the line       *)
(* already high.                                                           *)
THEOREM InterruptsHaveEdges == Spec => []NoMissedInterrupt
<1>1. IInv => NoMissedInterrupt
  BY DEF IInv, NoMissedInterrupt
<1> QED
  BY <1>1, InitHolds, NextKeeps, PTL DEF Spec

(* IRQ 6 is high exactly while floppy.c has an interrupt to be sensed or a *)
(* result to be read, resets at any point included.                        *)
THEOREM LineAlwaysTells == Spec => []LineTellsInterrupt
<1>1. IInv => LineTellsInterrupt
  BY DEF IInv, LineOwned
<1> QED
  BY <1>1, InitHolds, NextKeeps, PTL DEF Spec

-----------------------------------------------------------------------------
(* Counting sectors.                                                       *)
Triples(A, B, D) == A \X B \X D

LEMMA TripleProduct ==
  ASSUME NEW A, NEW B, NEW D, IsFiniteSet(A), IsFiniteSet(B), IsFiniteSet(D)
  PROVE  /\ IsFiniteSet(Triples(A, B, D))
         /\ Cardinality(Triples(A, B, D))
              = Cardinality(A) * (Cardinality(B) * Cardinality(D))
<1> DEFINE P == A \X (B \X D)
           T == A \X B \X D
           F == [p \in P |-> <<p[1], p[2][1], p[2][2]>>]
<1>1. /\ IsFiniteSet(P)
      /\ Cardinality(P) = Cardinality(A) * (Cardinality(B) * Cardinality(D))
  <2>1. /\ IsFiniteSet(B \X D)
        /\ Cardinality(B \X D) = Cardinality(B) * Cardinality(D)
    BY FS_Product
  <2> QED BY <2>1, FS_Product
<1>2. F \in [P -> T]
  OBVIOUS
<1>3. \A p, q \in P : F[p] = F[q] => p = q
  OBVIOUS
<1>4. \A t \in T : \E p \in P : F[p] = t
  <2> SUFFICES ASSUME NEW t \in T PROVE \E p \in P : F[p] = t
    OBVIOUS
  <2>1. <<t[1], <<t[2], t[3]>>>> \in P /\ F[<<t[1], <<t[2], t[3]>>>>] = t
    OBVIOUS
  <2> QED BY <2>1
<1> HIDE DEF P, T, F
<1>5. F \in Bijection(P, T)
  BY <1>2, <1>3, <1>4, Fun_IsBij
<1>6. ExistsBijection(P, T)
  BY <1>5 DEF ExistsBijection
<1>7. IsFiniteSet(T) /\ Cardinality(T) = Cardinality(P)
  BY <1>1, <1>6, FS_Bijection
<1> QED BY <1>1, <1>7 DEF T, Triples

LEMMA IntervalSize ==
  ASSUME NEW a \in Int, NEW b \in Int, a <= b + 1
  PROVE  IsFiniteSet(a..b) /\ Cardinality(a..b) = b + 1 - a
<1>1. IsFiniteSet(a..b) /\ Cardinality(a..b) = IF a > b THEN 0 ELSE b - a + 1
  BY FS_Interval
<1>2. (IF a > b THEN 0 ELSE b - a + 1) = b + 1 - a
  OBVIOUS
<1> QED BY <1>1, <1>2

LEMMA DisjointUnion ==
  ASSUME NEW S, NEW T, IsFiniteSet(S), IsFiniteSet(T), S \cap T = {}
  PROVE  /\ IsFiniteSet(S \cup T)
         /\ Cardinality(S \cup T) = Cardinality(S) + Cardinality(T)
<1>1. /\ IsFiniteSet(S \cup T)
      /\ Cardinality(S \cup T)
           = Cardinality(S) + Cardinality(T) - Cardinality(S \cap T)
  BY FS_Union
<1>2. Cardinality(S \cap T) = 0
  BY FS_EmptySet
<1>3. Cardinality(S) \in Nat /\ Cardinality(T) \in Nat
  BY FS_CardinalityType
<1> QED BY <1>1, <1>2, <1>3

(* chs_to_lba gives a sector the number of sectors that come before it,    *)
(* for every geometry.                                                     *)
LEMMA BeforeIsLba ==
  ASSUME NEW c \in Nat, NEW h \in {0, 1}, NEW s \in 1..SectorsPerTrack
  PROVE  Before(c, h, s) = chs_to_lba(c, h, s)
<1> DEFINE N == SectorsPerTrack
           T1 == Triples(0..c - 1, 0..1, 1..N)
           T2 == Triples(c..c, 0..h - 1, 1..N)
           T3 == Triples(c..c, h..h, 1..s - 1)
<1>0. N \in Nat
  BY FloppyAssumption
<1>1. {p \in (0..c) \X {0, 1} \X (1..N) :
         \/ p[1] < c
         \/ p[1] = c /\ p[2] < h
         \/ p[1] = c /\ p[2] = h /\ p[3] < s} = (T1 \cup T2) \cup T3
  BY <1>0 DEF Triples
<1>2. /\ T1 \cap T2 = {} /\ (T1 \cup T2) \cap T3 = {}
  BY <1>0 DEF Triples
<1>3. /\ IsFiniteSet(0..c - 1) /\ Cardinality(0..c - 1) = c
      /\ IsFiniteSet(0..1) /\ Cardinality(0..1) = 2
      /\ IsFiniteSet(0..h - 1) /\ Cardinality(0..h - 1) = h
      /\ IsFiniteSet(1..N) /\ Cardinality(1..N) = N
      /\ IsFiniteSet(1..s - 1) /\ Cardinality(1..s - 1) = s - 1
      /\ IsFiniteSet(c..c) /\ Cardinality(c..c) = 1
      /\ IsFiniteSet(h..h) /\ Cardinality(h..h) = 1
  <2>1. \A n \in Nat : /\ IsFiniteSet(0..n - 1) /\ Cardinality(0..n - 1) = n
                       /\ IsFiniteSet(1..n) /\ Cardinality(1..n) = n
                       /\ IsFiniteSet(n..n) /\ Cardinality(n..n) = 1
    <3> SUFFICES ASSUME NEW n \in Nat
                 PROVE  /\ IsFiniteSet(0..n - 1) /\ Cardinality(0..n - 1) = n
                        /\ IsFiniteSet(1..n) /\ Cardinality(1..n) = n
                        /\ IsFiniteSet(n..n) /\ Cardinality(n..n) = 1
      OBVIOUS
    <3>1. IsFiniteSet(0..n - 1) /\ Cardinality(0..n - 1) = n - 1 + 1 - 0
      BY IntervalSize
    <3>2. IsFiniteSet(1..n) /\ Cardinality(1..n) = n + 1 - 1
      BY IntervalSize
    <3>3. IsFiniteSet(n..n) /\ Cardinality(n..n) = 1
      <4>1. n..n = {n}
        OBVIOUS
      <4> QED BY <4>1, FS_Singleton
    <3> QED BY <3>1, <3>2, <3>3
  <2>2. 0..1 = 0..2 - 1
    OBVIOUS
  <2>3. c \in Nat /\ 2 \in Nat /\ h \in Nat /\ s - 1 \in Nat
    BY <1>0
  <2> QED BY <1>0, <2>1, <2>2, <2>3
<1>4. IsFiniteSet(T1) /\ Cardinality(T1) = c * (2 * N)
  BY <1>3, TripleProduct
<1>5. IsFiniteSet(T2) /\ Cardinality(T2) = 1 * (h * N)
  BY <1>3, TripleProduct
<1>6. IsFiniteSet(T3) /\ Cardinality(T3) = 1 * (1 * (s - 1))
  BY <1>3, TripleProduct
<1> HIDE DEF T1, T2, T3
<1>7. c * (2 * N) \in Int /\ h * N \in Int /\ s - 1 \in Int
  BY <1>0
<1>8. /\ IsFiniteSet(T1 \cup T2)
      /\ Cardinality(T1 \cup T2) = c * (2 * N) + h * N
  <2>1. /\ IsFiniteSet(T1 \cup T2)
        /\ Cardinality(T1 \cup T2) = Cardinality(T1) + Cardinality(T2)
    BY <1>2, <1>4, <1>5, DisjointUnion
  <2> QED BY <2>1, <1>4, <1>5, <1>7
<1>9. Cardinality((T1 \cup T2) \cup T3) = c * (2 * N) + h * N + (s - 1)
  <2>1. Cardinality((T1 \cup T2) \cup T3)
          = Cardinality(T1 \cup T2) + Cardinality(T3)
    BY <1>2, <1>6, <1>8, DisjointUnion
  <2> QED BY <2>1, <1>6, <1>7, <1>8
<1>10. c * (2 * N) + h * N + (s - 1) = N * 2 * c + h * N + s - 1
  BY <1>0
<1> QED BY <1>1, <1>9, <1>10 DEF Before, chs_to_lba

-----------------------------------------------------------------------------
(* The DMA channel, as the driver uses it: it resets the flip-flops of a   *)
(* controller only between pairs of accesses, so the reset that clears too *)
(* few of them (module I8237) does no harm, and the registers hold what    *)
(* the driver sent.                                                        *)
InStep == flipflop = next /\ regs = sent

DmaInv == DmaTypeOK /\ InStep

LEMMA DmaInitOK == DmaInit => DmaInv
<1> SUFFICES ASSUME DmaInit PROVE DmaInv
  OBVIOUS
<1>1. 0 \in DmaBytes /\ 0 \in PageBytes
  BY DmaAssumption
<1> QED BY <1>1 DEF DmaInit, DmaInv, DmaTypeOK, InStep, Flops

LEMMA ToggleOK ==
  ASSUME NEW f \in Flops, NEW c \in 0..1, NEW r \in 0..6
  PROVE  Toggle(f, c, r) \in Flops
<1>1. f[c] \in [0..6 -> 0..1] /\ 1 - f[c][r] \in 0..1
  BY DEF Flops
<1> QED BY <1>1 DEF Flops, Toggle

LEMMA DmaStep ==
  ASSUME DmaInv, ProgramDma
  PROVE  DmaInv'
<1> DEFINE Words == [0..1 -> [0..6 -> [0..1 -> DmaBytes]]]
<1>1. 0 \in 0..1 /\ Registers \subseteq 0..6 /\ 0 \in DmaBytes /\ 1 \in 0..14
  BY DmaAssumption
<1>2. ASSUME NEW r \in Registers, InRegister(0, r) PROVE DmaInv'
  <2>1. Toggle(flipflop, 0, r) \in Flops
    BY <1>1, ToggleOK DEF DmaInv, DmaTypeOK
  <2> QED BY <1>2, <2>1 DEF InRegister, DmaInv, DmaTypeOK, InStep
<1>3. ASSUME NEW r \in Registers, NEW val \in DmaBytes, OutRegister(0, r, val)
      PROVE  DmaInv'
  <2>1. Toggle(flipflop, 0, r) \in Flops
    BY <1>1, ToggleOK DEF DmaInv, DmaTypeOK
  <2>2. flipflop[0][r] \in 0..1
    BY <1>1 DEF DmaInv, DmaTypeOK, Flops
  <2>3. regs' \in Words
    <3>1. /\ regs \in Words /\ r \in 0..6
          /\ regs' = [regs EXCEPT ![0][r][flipflop[0][r]] = val]
      BY <1>1, <1>3 DEF OutRegister, DmaInv, DmaTypeOK
    <3>2. [regs[0][r] EXCEPT ![flipflop[0][r]] = val] \in [0..1 -> DmaBytes]
      BY <1>1, <2>2, <3>1
    <3>3. [regs[0] EXCEPT ![r] = [@ EXCEPT ![flipflop[0][r]] = val]]
            \in [0..6 -> [0..1 -> DmaBytes]]
      BY <1>1, <3>1, <3>2
    <3> QED BY <1>1, <3>1, <3>3
  <2> HIDE DEF Words
  <2>4. sent' = regs' /\ next' = flipflop' /\ flipflop' = Toggle(flipflop, 0, r)
        /\ page' = page
    BY <1>3 DEF OutRegister, DmaInv, InStep
  <2> QED BY <2>1, <2>3, <2>4 DEF DmaInv, DmaTypeOK, InStep, Words
<1>4. ASSUME PairsComplete(0), FlipFlopReset(0) PROVE DmaInv'
  <2>1. \A r \in 0..6 : flipflop[0][r] = 0
    BY <1>4 DEF PairsComplete, DmaInv, InStep
  <2>2. /\ flipflop' = [flipflop EXCEPT ![0] = [r \in 0..6 |-> 0]]
        /\ next' = flipflop'
    <3>1. [r \in 0..6 |-> IF r \in Cleared THEN 0 ELSE flipflop[0][r]]
            = [r \in 0..6 |-> 0]
      BY <2>1
    <3> QED BY <1>4, <3>1 DEF FlipFlopReset, DmaInv, InStep
  <2>3. flipflop' \in Flops
    BY <2>2 DEF DmaInv, DmaTypeOK, Flops
  <2> QED BY <1>4, <2>2, <2>3 DEF FlipFlopReset, DmaInv, DmaTypeOK, InStep
<1>5. ASSUME MasterClear(0) PROVE DmaInv'
  <2>1. regs' \in Words /\ sent' = regs'
    BY <1>1, <1>5 DEF MasterClear, DmaInv, DmaTypeOK, InStep
  <2>2. flipflop' \in Flops /\ next' = flipflop' /\ page' = page
    BY <1>5 DEF MasterClear, DmaInv, DmaTypeOK, InStep, Flops
  <2> QED BY <2>1, <2>2 DEF DmaInv, DmaTypeOK, InStep
<1>6. ASSUME NEW val \in PageBytes, OutPage(1, val) PROVE DmaInv'
  BY <1>1, <1>6 DEF OutPage, DmaInv, DmaTypeOK, InStep
<1> QED BY <1>2, <1>3, <1>4, <1>5, <1>6 DEF ProgramDma

-----------------------------------------------------------------------------
(* The bytes of a command.                                                 *)
FifoOK == /\ msr \subseteq {"RQM", "DIO", "NDMA", "CB"}
          /\ fifo \in [0..8 -> 0..255] /\ fifondx \in 0..9 /\ fifolen \in 0..9
DiskOK == /\ cyl \in 0..255 /\ head \in 0..63
          /\ image \in BOOLEAN
          /\ pDMABuffer \in [Buffer -> {Junk} \cup 0..ImageSectors - 1]
          /\ run \in {"up", "aborted", "crashed"}

(* While a command is under way its first byte is one of the commands, the *)
(* length is that command's, and what has been stored of its parameters is *)
(* what the driver sent.                                                   *)
ParametersSent ==
  "CB" \in msr =>
    /\ fifo[0] \in Opcodes /\ fifolen = Length[fifo[0]]
    /\ \A i \in 1..fifondx - 1 : fifo[i] \in Parameters(fifo[0], i)

FloppyInv == IInv /\ FifoOK /\ DiskOK /\ ParametersSent /\ DmaInv

LEMMA CommandLengths ==
  /\ \A op \in Opcodes : Length[op] \in 1..9
  /\ Length[READ_DATA] = 9 /\ Length[READ_ID] = 2 /\ Length[SEEK] = 3
  /\ Length[SENSE_INTERRUPT] = 1 /\ Length[RECALIBRATE] = 2
  BY DEF Length, Opcodes, READ_DATA, RECALIBRATE, SENSE_INTERRUPT, READ_ID, SEEK

LEMMA OpcodesDiffer ==
  /\ READ_DATA = 6 /\ RECALIBRATE = 7 /\ SENSE_INTERRUPT = 8 /\ READ_ID = 10
  /\ SEEK = 15
  /\ Opcodes = {READ_DATA, RECALIBRATE, SENSE_INTERRUPT, READ_ID, SEEK}
  BY DEF Opcodes, READ_DATA, RECALIBRATE, SENSE_INTERRUPT, READ_ID, SEEK

LEMMA ReadParameters ==
  /\ Parameters(READ_DATA, 2) = Cylinders /\ Parameters(READ_DATA, 3) = {0, 1}
  /\ Parameters(READ_DATA, 4) = Sectors /\ Parameters(READ_DATA, 6) = EndOfTrack
  BY OpcodesDiffer DEF Parameters

LEMMA ParametersAreBytes ==
  ASSUME NEW op, NEW i
  PROVE  Parameters(op, i) \subseteq 0..255
<1>1. /\ Cylinders \subseteq 0..255 /\ EndOfTrack \subseteq 0..255
      /\ Sectors \subseteq 0..255
  BY FloppyAssumption
<1>2. {0, 1} \subseteq 0..255 /\ {0, 4} \subseteq 0..255 /\ {0} \subseteq 0..255
  OBVIOUS
<1>3. Parameters(op, i) \in {Cylinders, EndOfTrack, Sectors, {0, 1}, {0, 4}, {0}}
  BY DEF Parameters
<1> QED BY <1>1, <1>2, <1>3

(* What the bytes of a complete READ DATA are.                             *)
ReadBytes(f) == f[2] \in Cylinders /\ f[3] \in {0, 1} /\ f[4] \in Sectors

LEMMA LbaOK ==
  ASSUME NEW c \in Cylinders, NEW h \in {0, 1}, NEW s \in Sectors
  PROVE  /\ chs_to_lba(c, h, s) \in Nat
         /\ Before(c, h, s) = chs_to_lba(c, h, s)
<1>1. /\ SectorsPerTrack \in Nat /\ c \in Nat /\ s \in 1..SectorsPerTrack
  BY FloppyAssumption
<1>2. SectorsPerTrack * 2 * c \in Nat /\ h * SectorsPerTrack \in Nat
  BY <1>1
<1>3. chs_to_lba(c, h, s) \in Nat
  BY <1>1, <1>2 DEF chs_to_lba
<1> QED BY <1>1, <1>3, BeforeIsLba

(* A read of no more sectors than the buffer has stays inside it, and puts *)
(* into sector k of the buffer what the image has there.                   *)
LEMMA freadIs ==
  ASSUME NEW lba \in Nat, NEW n \in Nat, n <= BufferSectors
  PROVE  fread(lba, n) = [k \in Buffer |-> IF k < n /\ lba + k < ImageSectors
                                          THEN lba + k ELSE pDMABuffer[k]]
<1> DEFINE read == {k \in 0..n - 1 : lba + k < ImageSectors}
<1>1. Buffer \cup read = Buffer
  BY FloppyAssumption DEF Buffer
<1>2. \A k \in Buffer : k \in read <=> k < n /\ lba + k < ImageSectors
  BY FloppyAssumption DEF Buffer
<1> HIDE DEF read
<1>3. fread(lba, n) = [k \in Buffer |-> IF k \in read THEN lba + k
                                       ELSE pDMABuffer[k]]
  BY <1>1, Zenon DEF fread, read
<1> QED BY <1>2, <1>3

LEMMA freadOK ==
  ASSUME DiskOK, NEW lba \in Nat, NEW n \in Nat, n <= BufferSectors
  PROVE  fread(lba, n) \in [Buffer -> {Junk} \cup 0..ImageSectors - 1]
<1> SUFFICES ASSUME NEW k \in Buffer
             PROVE  (IF k < n /\ lba + k < ImageSectors
                     THEN lba + k ELSE pDMABuffer[k])
                      \in {Junk} \cup 0..ImageSectors - 1
  BY freadIs
<1>1. k \in Nat /\ ImageSectors \in Nat
  BY FloppyAssumption DEF Buffer
<1>2. lba + k < ImageSectors => lba + k \in 0..ImageSectors - 1
  BY <1>1
<1>3. pDMABuffer[k] \in {Junk} \cup 0..ImageSectors - 1
  BY DEF DiskOK
<1> QED BY <1>2, <1>3

(* A command that is executed ends with its result phase, with an idle     *)
(* controller, or with the process.                                        *)
LEMMA ExecuteTypes ==
  ASSUME FifoOK, DiskOK, NEW f \in [0..8 -> 0..255], doExecuteCommand(f),
         f[0] = READ_DATA => ReadBytes(f)
  PROVE  FifoOK' /\ DiskOK' /\ (UNCHANGED <<msr, fifo, fifondx, fifolen>>
                                \/ "CB" \notin msr')
<1>1. Empty \in [0..8 -> 0..255]
  BY DEF Empty
<1>2. ASSUME NEW c \in 0..255, NEW h \in 0..63, PositionResult(c, h)
      PROVE  FifoOK' /\ "CB" \notin msr'
  BY <1>1, <1>2 DEF PositionResult, Results, Result, FifoOK
<1>3. CASE f[0] = READ_DATA /\ ReadData(f)
  <2>1. ReadBytes(f) /\ f[2] \in 0..255 /\ f[3] \in 0..63
    BY <1>3 DEF ReadBytes
  <2>2. /\ cyl' = f[2] /\ head' = f[3] /\ UNCHANGED <<image, run>>
        /\ pDMABuffer' = fread(chs_to_lba(f[2], f[3], f[4]), f[6])
        /\ PositionResult(f[2], f[3]) /\ f[6] <= BufferSectors
    BY <1>3, SMT DEF ReadData
  <2>3. chs_to_lba(f[2], f[3], f[4]) \in Nat
    BY <2>1, LbaOK DEF ReadBytes
  <2>4. pDMABuffer' \in [Buffer -> {Junk} \cup 0..ImageSectors - 1]
    <3>1. f[6] \in Nat
      OBVIOUS
    <3> QED BY <2>2, <2>3, <3>1, freadOK
  <2>5. DiskOK'
    BY <2>1, <2>2, <2>4 DEF DiskOK
  <2> QED BY <1>2, <2>1, <2>2, <2>5
<1>4. CASE f[0] = READ_DATA /\ ReadDataFails(f)
  <2>1. UNCHANGED fdc /\ run' \in {"crashed", "aborted"}
    BY <1>4, SMT DEF ReadDataFails
  <2> QED BY <2>1 DEF fdc, FifoOK, DiskOK
<1>5. CASE f[0] = RECALIBRATE /\ Recalibrate
  BY <1>1, <1>5 DEF Recalibrate, FifoOK, DiskOK
<1>6. CASE f[0] = SENSE_INTERRUPT /\ SenseInterrupt
  <2>1. [Empty EXCEPT ![1] = cyl] \in [0..8 -> 0..255]
    BY <1>1 DEF DiskOK
  <2>2. FifoOK' /\ "CB" \notin msr'
    BY <1>6, <2>1 DEF SenseInterrupt, Results, Result, FifoOK
  <2>3. DiskOK'
    BY <1>6 DEF SenseInterrupt, DiskOK
  <2> QED BY <2>2, <2>3
<1>7. CASE f[0] = READ_ID /\ ReadId
  <2>1. /\ PositionResult(cyl, head)
        /\ UNCHANGED <<cyl, head, image, pDMABuffer, run>>
    BY <1>7 DEF ReadId
  <2>2. DiskOK'
    BY <2>1 DEF DiskOK
  <2>3. FifoOK' /\ "CB" \notin msr'
    BY <1>2, <2>1 DEF DiskOK
  <2> QED BY <2>2, <2>3
<1>8. CASE f[0] = SEEK /\ Seek(f)
  <2>1. f[1] \div 4 \in 0..63 /\ f[2] \in 0..255
    <3>1. f[1] \in 0..255 /\ f[2] \in 0..255
      OBVIOUS
    <3> QED BY <3>1
  <2> QED BY <1>1, <1>8, <2>1 DEF Seek, Idle, FifoOK, DiskOK
<1> QED BY <1>3, <1>4, <1>5, <1>6, <1>7, <1>8 DEF doExecuteCommand

LEMMA CommandTypes ==
  ASSUME FloppyInv, NEW op \in Opcodes, OutCommand(op)
  PROVE  FifoOK' /\ DiskOK' /\ ParametersSent'
<1> DEFINE f == [fifo EXCEPT ![fifondx] = op]
<1>1. /\ "DIO" \notin msr /\ fifondx = 0 /\ FifoOK /\ DiskOK
      /\ Store(op, Length[op], msr \cup {"CB"})
  BY DEF OutCommand, MayWrite, FloppyInv
<1>2. f \in [0..8 -> 0..255] /\ f[0] = op
  BY <1>1, OpcodesDiffer DEF FifoOK
<1>3. CASE fifondx + 1 >= Length[op] /\ doExecuteCommand(f)
  <2>1. Length[op] = 1 /\ op # READ_DATA
    BY <1>1, <1>3, CommandLengths
  <2>2. /\ FifoOK' /\ DiskOK'
        /\ UNCHANGED <<msr, fifo, fifondx, fifolen>> \/ "CB" \notin msr'
    BY <1>1, <1>2, <1>3, <2>1, ExecuteTypes
  <2> QED BY <2>2 DEF ParametersSent, FloppyInv
<1>4. CASE /\ fifondx + 1 < Length[op]
           /\ fifo' = f /\ fifondx' = fifondx + 1
           /\ fifolen' = Length[op] /\ msr' = msr \cup {"CB"}
           /\ UNCHANGED <<cyl, head, image, pDMABuffer, run>>
  <2>1. Length[op] \in 1..9 /\ fifondx' = 1
    BY <1>1, <1>4, CommandLengths
  <2>2. FifoOK'
    BY <1>1, <1>2, <1>4, <2>1 DEF FifoOK
  <2>3. DiskOK'
    BY <1>1, <1>4 DEF DiskOK
  <2>4. fifo'[0] = op /\ \A i : i \notin 1..fifondx' - 1
    BY <1>2, <1>4, <2>1
  <2> QED BY <1>4, <2>2, <2>3, <2>4 DEF ParametersSent
<1> QED BY <1>1, <1>3, <1>4 DEF Store

(* Where a parameter byte finds the FIFO.                                  *)
LEMMA InCommand ==
  ASSUME FloppyInv, OutParameter
  PROVE  /\ "CB" \in msr /\ fifo[0] \in Opcodes /\ fifolen = Length[fifo[0]]
         /\ fifolen \in 1..9 /\ fifondx \in 1..8 /\ fifondx < fifolen
         /\ \A i \in 1..fifondx - 1 : fifo[i] \in Parameters(fifo[0], i)
<1>1. "DIO" \notin msr /\ fifondx > 0
  BY DEF OutParameter, MayWrite
<1>2. "CB" \in msr /\ fifondx < fifolen
  BY <1>1 DEF FloppyInv, IInv, Phase
<1>3. /\ fifo[0] \in Opcodes /\ fifolen = Length[fifo[0]]
      /\ \A i \in 1..fifondx - 1 : fifo[i] \in Parameters(fifo[0], i)
  BY <1>2 DEF FloppyInv, ParametersSent
<1>4. fifolen \in 1..9 /\ fifondx \in 0..9
  BY <1>3, CommandLengths DEF FloppyInv, FifoOK
<1> QED BY <1>1, <1>2, <1>3, <1>4

(* When the last parameter of READ DATA arrives, all of them are there.    *)
LEMMA LastParameter ==
  ASSUME FloppyInv, OutParameter, fifondx + 1 >= fifolen, fifo[0] = READ_DATA,
         NEW val
  PROVE  /\ fifondx = 8 /\ ReadBytes([fifo EXCEPT ![fifondx] = val])
         /\ \A i \in 0..7 : [fifo EXCEPT ![fifondx] = val][i] = fifo[i]
<1>1. fifolen = 9 /\ fifondx = 8 /\ DOMAIN fifo = 0..8
  BY InCommand, CommandLengths DEF FloppyInv, FifoOK
<1>2. \A i \in 0..7 : [fifo EXCEPT ![fifondx] = val][i] = fifo[i]
  BY <1>1
<1>3. \A i \in 1..7 : fifo[i] \in Parameters(READ_DATA, i)
  BY <1>1, InCommand
<1>4. fifo[2] \in Cylinders /\ fifo[3] \in {0, 1} /\ fifo[4] \in Sectors
  <2>1. 2 \in 1..7 /\ 3 \in 1..7 /\ 4 \in 1..7
    OBVIOUS
  <2> QED BY <1>3, <2>1, ReadParameters
<1> QED BY <1>1, <1>2, <1>4 DEF ReadBytes

LEMMA ParameterTypes ==
  ASSUME FloppyInv, OutParameter
  PROVE  FifoOK' /\ DiskOK' /\ ParametersSent'
<1>1. FifoOK /\ DiskOK
  BY DEF FloppyInv
<1>2. PICK val \in Parameters(fifo[0], fifondx) : Store(val, fifolen, msr)
  BY DEF OutParameter
<1> DEFINE f == [fifo EXCEPT ![fifondx] = val]
<1>3. f \in [0..8 -> 0..255] /\ f[0] = fifo[0] /\ f[fifondx] = val
  <2>1. val \in 0..255 /\ fifondx \in 1..8
    BY <1>2, ParametersAreBytes, InCommand
  <2> QED BY <1>1, <2>1 DEF FifoOK
<1>4. CASE fifondx + 1 >= fifolen /\ doExecuteCommand(f)
  <2>1. f[0] = READ_DATA => ReadBytes(f)
    BY <1>3, <1>4, LastParameter
  <2>2. /\ FifoOK' /\ DiskOK'
        /\ UNCHANGED <<msr, fifo, fifondx, fifolen>> \/ "CB" \notin msr'
    BY <1>1, <1>3, <1>4, <2>1, ExecuteTypes
  <2> QED BY <2>2 DEF ParametersSent, FloppyInv
<1>5. CASE /\ fifondx + 1 < fifolen
           /\ fifo' = f /\ fifondx' = fifondx + 1
           /\ fifolen' = fifolen /\ msr' = msr
           /\ UNCHANGED <<cyl, head, image, pDMABuffer, run>>
  <2>1. fifondx' \in 0..9 /\ fifondx \in 1..8
    BY <1>5, InCommand
  <2>2. FifoOK'
    BY <1>1, <1>3, <1>5, <2>1 DEF FifoOK
  <2>3. DiskOK'
    BY <1>1, <1>5 DEF DiskOK
  <2>4. ASSUME NEW i \in 1..fifondx' - 1
        PROVE  fifo'[i] \in Parameters(fifo[0], i)
    <3>1. i = fifondx \/ (i # fifondx /\ i \in 1..fifondx - 1 /\ i \in 0..8)
      BY <1>5, <2>1, <2>4
    <3>2. CASE i = fifondx
      BY <1>2, <1>3, <1>5, <3>2
    <3>3. CASE i # fifondx /\ i \in 1..fifondx - 1 /\ i \in 0..8
      <4>1. fifo'[i] = fifo[i]
        BY <1>1, <1>5, <3>3 DEF FifoOK
      <4> QED BY <3>3, <4>1, InCommand
    <3> QED BY <3>1, <3>2, <3>3
  <2>5. fifo'[0] = fifo[0]
    BY <1>3, <1>5
  <2> QED BY <1>5, <2>2, <2>3, <2>4, <2>5, InCommand DEF ParametersSent
<1> QED BY <1>2, <1>4, <1>5 DEF Store

LEMMA FloppyInitOK == Init => FloppyInv
<1> SUFFICES ASSUME Init PROVE FloppyInv
  OBVIOUS
<1>1. IInv /\ DmaInv
  BY InitHolds, DmaInitOK DEF Init
<1>2. FifoOK /\ ParametersSent
  BY DEF Init, FifoOK, ParametersSent
<1>3. DiskOK
  BY DEF Init, DiskOK
<1> QED BY <1>1, <1>2, <1>3 DEF FloppyInv

LEMMA FloppyStep ==
  ASSUME FloppyInv, [Next]_vars
  PROVE  FloppyInv'
<1>1. IInv'
  BY NextKeeps DEF FloppyInv
<1>2. ASSUME UNCHANGED dmaVars PROVE DmaInv'
  BY <1>2 DEF dmaVars, FloppyInv, DmaInv, DmaTypeOK, InStep
<1>3. ASSUME UNCHANGED <<msr, fifo, fifondx, fifolen>>
      PROVE  FifoOK' /\ ParametersSent'
  BY <1>3 DEF FloppyInv, FifoOK, ParametersSent
<1>4. ASSUME UNCHANGED <<cyl, head, image, pDMABuffer>>,
             run' \in {run, "aborted"}
      PROVE  DiskOK'
  BY <1>4 DEF FloppyInv, DiskOK
<1>5. CASE \E op \in Opcodes : OutCommand(op)
  <2>1. UNCHANGED dmaVars
    BY <1>5 DEF OutCommand
  <2> QED BY <1>1, <1>2, <1>5, <2>1, CommandTypes DEF FloppyInv
<1>6. CASE UnhandledAccess
  BY <1>1, <1>2, <1>3, <1>4, <1>6 DEF UnhandledAccess, fdc, FloppyInv
<1>7. CASE OutParameter
  <2>1. UNCHANGED dmaVars
    BY <1>7 DEF OutParameter
  <2> QED BY <1>1, <1>2, <1>7, <2>1, ParameterTypes DEF FloppyInv
<1>8. CASE InFifo
  <2>1. UNCHANGED dmaVars /\ DiskOK'
    BY <1>4, <1>8 DEF InFifo
  <2>2. FifoOK' /\ ParametersSent'
    <3>1. CASE fifondx + 1 >= fifolen
      <4>1. msr' = Idle /\ fifondx' = 0 /\ fifo' = Empty /\ fifolen' = fifolen
        BY <1>8, <3>1 DEF InFifo
      <4> QED BY <4>1 DEF Idle, Empty, FloppyInv, FifoOK, ParametersSent
    <3>2. CASE ~(fifondx + 1 >= fifolen)
      <4>1. /\ fifondx' = fifondx + 1 /\ UNCHANGED <<msr, fifo, fifolen>>
            /\ "DIO" \in msr
        BY <1>8, <3>2 DEF InFifo, Result
      <4>2. "CB" \notin msr
        BY <4>1 DEF FloppyInv, IInv, Phase
      <4> QED BY <3>2, <4>1, <4>2 DEF FloppyInv, FifoOK, ParametersSent
    <3> QED BY <3>1, <3>2
  <2> QED BY <1>1, <1>2, <2>1, <2>2 DEF FloppyInv
<1>9. CASE doReset
  <2>1. UNCHANGED dmaVars /\ DiskOK'
    BY <1>4, <1>9 DEF doReset
  <2>2. FifoOK' /\ ParametersSent'
    BY <1>9 DEF doReset, Empty, FifoOK, ParametersSent
  <2> QED BY <1>1, <1>2, <2>1, <2>2 DEF FloppyInv
<1>10. CASE ProgramDma
  <2>1. DmaInv'
    BY <1>10, DmaStep DEF FloppyInv
  <2> QED BY <1>1, <1>3, <1>4, <1>10, <2>1
          DEF ProgramDma, floppyVars, fdc, FloppyInv
<1>11. CASE UNCHANGED vars
  BY <1>1, <1>2, <1>3, <1>4, <1>11 DEF vars, floppyVars, fdc, FloppyInv
<1> QED BY <1>5, <1>6, <1>7, <1>8, <1>9, <1>10, <1>11 DEF Next

LEMMA AlwaysFloppyInv == Spec => []FloppyInv
<1> QED BY FloppyInitOK, FloppyStep, PTL DEF Spec

(* The controller's variables and the DMA registers keep their types for   *)
(* every geometry and every driver within the protocol of MSR: the FIFO    *)
(* index never leaves the FIFO, and every entry of the DMA buffer is a     *)
(* sector of the image or what malloc found.                               *)
THEOREM TypeCorrect == Spec => []TypeOK
<1>1. FloppyInv => TypeOK
  BY DEF FloppyInv, IInv, Histories, FifoOK, DiskOK, DmaInv, TypeOK
<1> QED BY <1>1, AlwaysFloppyInv, PTL

(* A driver that resets the flip-flops of i8237-dma.c between pairs only   *)
(* never meets the reset that clears too few of them: after any number of  *)
(* accesses, resets and transfers the flip-flops stand where it believes,  *)
(* and the registers hold, high byte for high byte, what it sent.          *)
THEOREM ChannelInStep == Spec => [](FlipFlopsInStep /\ regs = sent)
<1>1. FloppyInv => FlipFlopsInStep /\ regs = sent
  BY DEF FloppyInv, DmaInv, InStep, FlipFlopsInStep
<1> QED BY <1>1, AlwaysFloppyInv, PTL

(* The seven bytes of a result follow nine of a command only when READ     *)
(* DATA succeeds, on its last parameter, with the DMA channel ready.       *)
LEMMA OnlyReadData ==
  ASSUME FloppyInv, [Next]_vars, fifolen = 9, fifolen' = 7
  PROVE  /\ OutParameter /\ DmaReady /\ fifo[0] = READ_DATA
         /\ fifondx + 1 >= fifolen
         /\ \E val : ReadData([fifo EXCEPT ![fifondx] = val])
<1>1. ~(\E op \in Opcodes : OutCommand(op))
  <2> SUFFICES ASSUME NEW op \in Opcodes, OutCommand(op) PROVE FALSE
    OBVIOUS
  <2> DEFINE f == [fifo EXCEPT ![fifondx] = op]
  <2>1. fifondx = 0 /\ Store(op, Length[op], msr \cup {"CB"}) /\ f[0] = op
    BY DEF OutCommand, FloppyInv, FifoOK
  <2>2. Length[op] # 7
    BY CommandLengths, OpcodesDiffer
  <2>3. fifondx + 1 >= Length[op] /\ doExecuteCommand(f)
    BY <2>1, <2>2 DEF Store
  <2>4. op = SENSE_INTERRUPT
    BY <2>1, <2>3, CommandLengths, OpcodesDiffer
  <2>5. SenseInterrupt
    BY <2>1, <2>3, <2>4, OpcodesDiffer DEF doExecuteCommand
  <2> QED BY <2>5 DEF SenseInterrupt, Results
<1>2. OutParameter
  BY <1>1 DEF Next, UnhandledAccess, InFifo, doReset, ProgramDma, vars,
              floppyVars, fdc
<1>3. fifo[0] = READ_DATA
  BY <1>2, InCommand, CommandLengths, OpcodesDiffer
<1>4. PICK val \in Parameters(fifo[0], fifondx) : Store(val, fifolen, msr)
  BY <1>2 DEF OutParameter
<1> DEFINE f == [fifo EXCEPT ![fifondx] = val]
<1>5. fifondx + 1 >= fifolen /\ doExecuteCommand(f)
  BY <1>4 DEF Store
<1>6. fifondx = 8 /\ f[0] = READ_DATA
  <2>1. 0 \in 0..7
    OBVIOUS
  <2> QED BY <1>2, <1>3, <1>5, <2>1, LastParameter
<1>7. ReadData(f) \/ ReadDataFails(f)
  BY <1>5, <1>6, OpcodesDiffer DEF doExecuteCommand
<1>8. ~ReadDataFails(f)
  BY SMT DEF ReadDataFails, fdc
<1>9. DmaReady
  BY <1>2, <1>3, <1>6 DEF OutParameter
<1> QED BY <1>2, <1>3, <1>5, <1>7, <1>8, <1>9

LEMMA DmaWords ==
  ASSUME DmaTypeOK
  PROVE  TransferBytes(regs) \in Nat
<1>1. 0 \in 0..1 /\ 1 \in 0..1 /\ 5 \in 0..6 /\ DmaBytes \subseteq Nat
  BY DmaAssumption
<1>2. regs[0][5][1] \in Nat /\ regs[0][5][0] \in Nat
  <2>1. regs[0][5] \in [0..1 -> DmaBytes]
    BY <1>1 DEF DmaTypeOK
  <2> QED BY <1>1, <2>1
<1> QED BY <1>2 DEF TransferBytes, Word

LEMMA LastSector ==
  ASSUME NEW eot \in 0..255, NEW s \in 0..255, s >= 1, NEW b \in Nat,
         NEW k \in Nat, 512 * k < b, b <= 512 * (eot - s + 1)
  PROVE  k < eot
  BY SMT

(* A READ DATA that completes delivers the bytes that were asked for.      *)
LEMMA DeliversStep ==
  ASSUME FloppyInv, [Next]_vars, fifolen = 9, fifolen' = 7
  PROVE  Delivered(fifo[2], fifo[3], fifo[4], copied')
<1>1. /\ OutParameter /\ DmaReady /\ fifo[0] = READ_DATA
      /\ fifondx + 1 >= fifolen
  BY OnlyReadData
<1>2. PICK val : ReadData([fifo EXCEPT ![fifondx] = val])
  BY OnlyReadData
<1> DEFINE f == [fifo EXCEPT ![fifondx] = val]
           lba == chs_to_lba(fifo[2], fifo[3], fifo[4])
           bytes == TransferBytes(regs)
<1>3. ReadBytes(f) /\ \A i \in 0..7 : f[i] = fifo[i]
  BY <1>1, LastParameter
<1>4. f[2] = fifo[2] /\ f[3] = fifo[3] /\ f[4] = fifo[4] /\ f[6] = fifo[6]
  <2>1. 2 \in 0..7 /\ 3 \in 0..7 /\ 4 \in 0..7 /\ 6 \in 0..7
    OBVIOUS
  <2> QED BY <1>3, <2>1
<1>5. /\ pDMABuffer' = fread(lba, fifo[6])
      /\ copied' = [at |-> Destination(regs), bytes |-> bytes,
                    data |-> pDMABuffer']
      /\ fifo[6] <= BufferSectors
  BY <1>2, <1>4, SMT DEF ReadData, dma_transfer_from_device
<1>6. /\ fifo[2] \in Cylinders /\ fifo[3] \in {0, 1} /\ fifo[4] \in Sectors
      /\ fifo[6] \in 0..255 /\ fifo[4] \in 0..255 /\ fifo[4] >= 1
  <2>1. fifo[6] \in 0..255 /\ fifo[4] \in 0..255
    BY DEF FloppyInv, FifoOK
  <2>2. fifo[2] \in Cylinders /\ fifo[3] \in {0, 1} /\ fifo[4] \in Sectors
    BY <1>3, <1>4 DEF ReadBytes
  <2> QED BY <2>1, <2>2, FloppyAssumption
<1>7. lba \in Nat /\ Before(fifo[2], fifo[3], fifo[4]) = lba
  BY <1>6, LbaOK
<1>8. regs = sent /\ bytes \in Nat
  BY DmaWords DEF FloppyInv, DmaInv, InStep
<1>9. bytes <= 512 * (fifo[6] - fifo[4] + 1)
  BY <1>1, <1>8 DEF DmaReady
<1> HIDE DEF f, lba, bytes
<1>10. ASSUME NEW k \in Buffer, 512 * k < bytes, lba + k < ImageSectors
       PROVE  copied'.data[k] = lba + k
  <2>1. k \in Nat
    BY FloppyAssumption, <1>10 DEF Buffer
  <2>2. k < fifo[6]
    <3>1. fifo[6] \in 0..255 /\ fifo[4] \in 0..255 /\ fifo[4] >= 1
      BY <1>6, Zenon
    <3>2. bytes \in Nat /\ 512 * k < bytes
      BY <1>8, <1>10, Zenon
    <3> QED BY <1>9, <2>1, <3>1, <3>2, LastSector, Zenon
  <2>3. fifo[6] \in Nat
    BY <1>6
  <2>4. pDMABuffer'[k] = lba + k
    BY <1>5, <1>7, <1>10, <2>2, <2>3, freadIs
  <2> QED BY <1>5, <2>4
<1>11. copied'.at = Destination(sent) /\ copied'.bytes = TransferBytes(sent)
       /\ copied'.bytes = bytes
  BY <1>5, <1>8 DEF bytes
<1> QED BY <1>7, <1>10, <1>11 DEF Delivered

(* READ DATA delivers, for every geometry, image length, buffer size and   *)
(* driver parameters: the sectors the driver named, as far as the image    *)
(* has them, at the address and for the length it sent through the         *)
(* flip-flops, and chs_to_lba numbers them by their position in the image. *)
THEOREM ReadsDeliver == Spec => ReadDelivers
<1>1. FloppyInv /\ [Next]_vars =>
        [fifolen = 9 /\ fifolen' = 7
           => Delivered(fifo[2], fifo[3], fifo[4], copied')]_vars
  BY DeliversStep
<1> QED BY <1>1, AlwaysFloppyInv, PTL DEF Spec, ReadDelivers
=============================================================================

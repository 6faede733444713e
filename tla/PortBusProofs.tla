--------------------------- MODULE PortBusProofs ---------------------------
(* Registration order decides who serves a port, for every table.          *)
EXTENDS PortBus, TLAPS

(* claimed is the slot of the first match, or 0 when nothing matches.      *)
ClaimIsFirst ==
  \A p \in Ports :
    /\ claimed[p] # 0 => First(claimed[p], p)
    /\ claimed[p] = 0 => \A i \in 1..Len(iohandler) : ~Matches(i, p)

IInv == TypeOK /\ ClaimIsFirst

(* There is at most one first match.                                       *)
LEMMA FirstUnique ==
  ASSUME TypeOK, NEW p, NEW i, NEW j, First(i, p), First(j, p)
  PROVE  i = j
<1>1. i \in 1..Len(iohandler) /\ j \in 1..Len(iohandler)
  BY DEF First, Matches
<1>2. Len(iohandler) \in Nat
  BY DEF TypeOK
<1>3. ~(i < j) /\ ~(j < i)
  BY <1>1, <1>2 DEF First
<1> QED
  BY <1>1, <1>2, <1>3

LEMMA ClaimImpliesLookup == IInv => FirstClaimWins
<1> SUFFICES ASSUME IInv, NEW p \in Ports
             PROVE  lookup_handler(p) = claimed[p]
  BY DEF FirstClaimWins
<1>1. CASE claimed[p] = 0
  <2>1. ~\E i \in 1..Len(iohandler) : First(i, p)
    BY <1>1 DEF IInv, ClaimIsFirst, First
  <2> QED
    BY <1>1, <2>1 DEF lookup_handler
<1>2. CASE claimed[p] # 0
  <2>1. First(claimed[p], p) /\ claimed[p] \in 1..Len(iohandler)
    BY <1>2 DEF IInv, ClaimIsFirst, First, Matches
  <2>2. \A i \in 1..Len(iohandler) : First(i, p) => i = claimed[p]
    BY <2>1, FirstUnique DEF IInv
  <2> QED
    BY <2>1, <2>2 DEF lookup_handler
<1> QED
  BY <1>1, <1>2

LEMMA InitInv == Init => IInv
<1> SUFFICES ASSUME Init PROVE IInv
  OBVIOUS
<1>1. Len(iohandler) = 0 /\ iohandler \in Seq(Handlers)
  BY DEF Init
<1>2. TypeOK
  BY <1>1, MaxAssumption DEF Init, TypeOK, NoAccess, Results
<1>3. ClaimIsFirst
  <2>1. \A p \in Ports : claimed[p] = 0
    BY DEF Init
  <2>2. \A i \in 1..Len(iohandler) : FALSE
    BY <1>1
  <2> QED
    BY <2>1, <2>2 DEF ClaimIsFirst
<1> QED
  BY <1>2, <1>3 DEF IInv

LEMMA RegisterInv ==
  ASSUME IInv, NEW h \in Handlers, io_register_handler(h)
  PROVE  IInv'
<1>a. PICK n \in Nat : n = Len(iohandler)
  BY DEF IInv, TypeOK
<1>0. /\ n \in Nat /\ iohandler \in Seq(Handlers) /\ n < MaxHandlers
      /\ n = Len(iohandler)
  BY <1>a DEF IInv, TypeOK
<1>1. CASE n < MaxHandlers - 1
  <2>1. iohandler' = Append(iohandler, h)
    BY <1>0, <1>1, MaxAssumption DEF io_register_handler
  <2>2. /\ claimed' = [p \in Ports |-> IF claimed[p] = 0 /\ p \in h.ports
                                       THEN n + 1 ELSE claimed[p]]
        /\ UNCHANGED <<run, last>>
    BY <1>0, <1>1, MaxAssumption DEF io_register_handler
  <2>3. /\ iohandler' \in Seq(Handlers) /\ Len(iohandler') = n + 1
        /\ \A i \in 1..n : iohandler'[i] = iohandler[i]
        /\ iohandler'[n + 1] = h
    BY <1>0, <2>1
  <2>4. TypeOK'
    BY <1>0, <1>1, <2>2, <2>3, MaxAssumption DEF IInv, TypeOK
  <2>5. \A p \in Ports : \A i \in 1..n : Matches(i, p)' <=> Matches(i, p)
    BY <1>0, <2>3 DEF Matches
  <2>6. \A p \in Ports : Matches(n + 1, p)' <=> p \in h.ports
    BY <1>0, <2>3 DEF Matches
  <2>7. ASSUME NEW p \in Ports, NEW c, c = claimed'[p]
        PROVE  /\ c # 0 => First(c, p)'
               /\ c = 0 => \A i \in 1..n + 1 : ~Matches(i, p)'
    <3>1. claimed[p] \in 0..n
      BY <1>0 DEF IInv, TypeOK
    <3>2. CASE claimed[p] # 0
      <4>1. c = claimed[p] /\ First(c, p) /\ c \in 1..n
        BY <2>2, <2>7, <3>1, <3>2 DEF IInv, ClaimIsFirst
      <4>2. First(c, p)'
        BY <1>0, <2>5, <4>1 DEF First
      <4> QED
        BY <3>2, <4>1, <4>2
    <3>3. CASE claimed[p] = 0 /\ p \in h.ports
      <4>1. \A i \in 1..n : ~Matches(i, p)'
        BY <1>0, <2>5, <3>3 DEF IInv, ClaimIsFirst
      <4>2. c = n + 1 /\ Matches(n + 1, p)'
        BY <2>2, <2>6, <2>7, <3>3
      <4>3. First(c, p)'
        BY <1>0, <4>1, <4>2 DEF First
      <4> QED
        BY <1>0, <4>2, <4>3
    <3>4. CASE claimed[p] = 0 /\ p \notin h.ports
      <4>1. c = 0
        BY <2>2, <2>7, <3>4
      <4>2. \A i \in 1..n : ~Matches(i, p)'
        BY <1>0, <2>5, <3>4 DEF IInv, ClaimIsFirst
      <4>3. ~Matches(n + 1, p)'
        BY <2>6, <3>4
      <4> QED
        BY <1>0, <4>1, <4>2, <4>3
    <3> QED
      BY <3>2, <3>3, <3>4
  <2>8. ClaimIsFirst'
    BY <2>3, <2>7 DEF ClaimIsFirst
  <2> QED
    BY <2>4, <2>8 DEF IInv
<1>2. CASE n >= MaxHandlers - 1
  <2>1. UNCHANGED <<iohandler, claimed, run, last>>
    BY <1>0, <1>2, MaxAssumption DEF io_register_handler
  <2> QED
    BY <2>1 DEF IInv, TypeOK, ClaimIsFirst, First, Matches
<1> QED
  BY <1>0, <1>1, <1>2, MaxAssumption

LEMMA RemapInv ==
  ASSUME IInv, NEW h \in Handlers, NEW i \in 1..Len(iohandler),
         io_remap_handler(i, h)
  PROVE  IInv'
<1>1. /\ iohandler \in Seq(Handlers) /\ h.ports = iohandler[i].ports
      /\ iohandler' = [iohandler EXCEPT ![i] = h] /\ UNCHANGED <<claimed, run, last>>
  BY DEF IInv, TypeOK, io_remap_handler
<1>2. iohandler' \in Seq(Handlers) /\ Len(iohandler') = Len(iohandler)
  BY <1>1
<1>3. \A j, p : Matches(j, p)' <=> Matches(j, p)
  BY <1>1, <1>2 DEF Matches
<1>4. TypeOK'
  BY <1>1, <1>2 DEF IInv, TypeOK
<1>5. \A j, p : First(j, p)' <=> First(j, p)
  BY <1>3 DEF First
<1>6. ClaimIsFirst'
  BY <1>1, <1>2, <1>3, <1>5 DEF IInv, ClaimIsFirst
<1> QED
  BY <1>4, <1>6 DEF IInv

(* What an access leaves in last, with a slot of the table.                *)
LEMMA AccessType ==
  ASSUME TypeOK, NEW p \in Ports, NEW op \in Ops
  PROVE  /\ lookup_handler(p) \in 0..Len(iohandler)
         /\ Dispatch(lookup_handler(p), op) \in Results
<1>1. Len(iohandler) \in Nat
  BY DEF TypeOK
<1>2. CASE \E i \in 1..Len(iohandler) : First(i, p)
  <2>1. lookup_handler(p) \in 1..Len(iohandler)
    BY <1>2 DEF lookup_handler
  <2> QED BY <1>1, <2>1 DEF Dispatch, Unhandled, Results
<1>3. CASE ~\E i \in 1..Len(iohandler) : First(i, p)
  <2>1. lookup_handler(p) = 0
    BY <1>3 DEF lookup_handler
  <2> QED BY <1>1, <2>1 DEF Dispatch, Unhandled, Results
<1> QED BY <1>2, <1>3

LEMMA AccessInv ==
  ASSUME IInv, NEW p \in Ports, NEW op \in Ops, Access(p, op)
  PROVE  IInv'
<1>1. UNCHANGED <<iohandler, claimed>> /\ run' \in {"up", "aborted", "crashed"}
  BY DEF Access, Dispatch, Unhandled
<1>2. last' \in [port : Ports \cup {0}, op : Ops \cup {"none"},
                slot : 0..Len(iohandler), result : Results]
  BY AccessType DEF Access, IInv
<1> QED
  BY <1>1, <1>2 DEF IInv, TypeOK, ClaimIsFirst, First, Matches

LEMMA NextInv == IInv /\ [Next]_vars => IInv'
<1> SUFFICES ASSUME IInv, [Next]_vars PROVE IInv'
  OBVIOUS
<1>1. CASE UNCHANGED vars
  BY <1>1 DEF vars, IInv, TypeOK, ClaimIsFirst, First, Matches
<1> QED
  BY <1>1, RegisterInv, RemapInv, AccessInv DEF Next

(* A port is served for ever by the slot that claimed it first, for every  *)
(* set of handlers, every table size and every order of registration.      *)
THEOREM FirstClaimAlwaysWins == Spec => []FirstClaimWins
  BY InitInv, NextInv, ClaimImpliesLookup, PTL DEF Spec

(* io_register_handler never fills the last slot of the table, and what    *)
(* was claimed is a slot in use, for every table size.                     *)
THEOREM TypeCorrect == Spec => []TypeOK
<1>1. IInv => TypeOK
  BY DEF IInv
<1> QED BY <1>1, InitInv, NextInv, PTL DEF Spec
=============================================================================

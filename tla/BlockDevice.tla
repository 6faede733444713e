---------------------------- MODULE BlockDevice ----------------------------
(***************************************************************************)
(* What the programmed-I/O disk promises its driver.  A transfer is begun  *)
(* with its address and length fixed, moves one word at a time, and a      *)
(* write reaches the disk in one piece when its last word arrives.  A      *)
(* later command or a reset cancels a transfer without a trace.            *)
(***************************************************************************)
EXTENDS Integers

CONSTANTS Words,       \* the values of a 16-bit word
          SectorWords, \* words per sector (256 in the code)
          DiskWords,   \* words of the backing file that are modelled
          MaxSectors,  \* sectors of the longest transfer
          Identity,    \* the block IDENTIFY DEVICE returns
          FileFaults   \* the backing file may fail or stop half-way

VARIABLES disk, xfer

Idle == [op |-> "none"]
Sizes == {n * SectorWords : n \in 1..MaxSectors}

(* How many of size words a call on the backing file moves.                *)
Moved(size) == IF FileFaults THEN 0..size ELSE {size}

(* What a read of size words from word address at finds when the file      *)
(* delivers k of them: past the end, and past k, the buffer is zero.       *)
Contents(d, at, size, k) ==
  [i \in 0..size - 1 |-> IF i < k /\ at + i \in DOMAIN d THEN d[at + i] ELSE 0]

(* The disk after k words of data have been written at word address at.    *)
Updated(d, at, data, k) ==
  [a \in DOMAIN d |-> IF a - at \in 0..k - 1 THEN data[a - at] ELSE d[a]]

Init == disk \in [0..DiskWords - 1 -> Words] /\ xfer = Idle

(* Address DiskWords stands for every address past the modelled words.     *)
Read == \E at \in 0..DiskWords, size \in Sizes : \E k \in Moved(size) :
          /\ xfer' = [op |-> "in", pos |-> 0, size |-> size,
                      data |-> Contents(disk, at, size, k)]
          /\ UNCHANGED disk

Identify == /\ xfer' = [op |-> "in", pos |-> 0, size |-> SectorWords,
                        data |-> Identity]
            /\ UNCHANGED disk

Write == \E at \in 0..DiskWords, size \in Sizes :
           /\ xfer' = [op |-> "out", pos |-> 0, size |-> size, at |-> at,
                       data |-> [i \in 0..-1 |-> 0]]
           /\ UNCHANGED disk

Take == /\ xfer.op = "in"
        /\ xfer' = IF xfer.pos + 1 < xfer.size
                   THEN [xfer EXCEPT !.pos = @ + 1]
                   ELSE Idle
        /\ UNCHANGED disk

(* The words received so far, and w after them.                            *)
Received(w) == [i \in 0..xfer.pos |-> IF i = xfer.pos THEN w ELSE xfer.data[i]]

Put(w) ==
  /\ xfer.op = "out"
  /\ \/ /\ xfer.pos + 1 < xfer.size
        /\ xfer' = [xfer EXCEPT !.pos = @ + 1, !.data = Received(w)]
        /\ UNCHANGED disk
     \/ /\ xfer.pos + 1 = xfer.size
        /\ xfer' = Idle
        /\ \E k \in Moved(xfer.size) :
             disk' = Updated(disk, xfer.at, Received(w), k)

Cancel == xfer' = Idle /\ UNCHANGED disk

Next == \/ Read \/ Identify \/ Write \/ Take \/ Cancel
        \/ \E w \in Words : Put(w)

Spec == Init /\ [][Next]_<<disk, xfer>>
=============================================================================

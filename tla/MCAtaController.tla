-------------------------- MODULE MCAtaController --------------------------
(* The controller with two-word sectors and a file of two of them.         *)
EXTENDS AtaController
MCIdentity == [i \in 0..SectorWords - 1 |-> IF i = 0 THEN 1 ELSE 0]
=============================================================================

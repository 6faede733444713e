------------------------------ MODULE MCI8237 ------------------------------
(* The DMA controllers on their own.                                       *)
EXTENDS I8237
=============================================================================

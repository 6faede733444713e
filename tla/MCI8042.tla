------------------------------ MODULE MCI8042 ------------------------------
(* The keyboard controller with a handful of commands and scan codes.      *)
EXTENDS I8042
=============================================================================

----------------------------- MODULE MCFloppy ------------------------------
(* The floppy controller and the channel it uses.                          *)
EXTENDS Floppy
=============================================================================

------------------------------- MODULE MCVga -------------------------------
(* Two planes of six bytes, pictures of two bytes.                         *)
EXTENDS Vga

MCContents == [p \in 0..NumPlanes - 1 |-> [a \in 0..PlaneSize - 1 |-> a % 2]]
MCIndices == [seq |-> {0, 2}, gcont |-> {6, 9}, crtc |-> {12, 13, 25},
              attr |-> {0, 16}]
=============================================================================

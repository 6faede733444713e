----------------------------- MODULE MCPortBus -----------------------------
(* Four overlapping handlers and a table with room for three.              *)
EXTENDS PortBus
MCHandlers == {[ports |-> {1, 2}, ops |-> {"inb", "outb"}],
               [ports |-> {2, 3}, ops |-> Ops],
               [ports |-> {1, 2}, ops |-> Ops],
               [ports |-> {3}, ops |-> {"inw", "outw"}]}
=============================================================================

---------------------------- MODULE MCPcPortMap ----------------------------
(* The ports below 0x520, where every device but PCI lives, and PCI's.     *)
EXTENDS PcPortMap
MCPorts == 0..\h51F \cup \hCF0..\hCFF
=============================================================================

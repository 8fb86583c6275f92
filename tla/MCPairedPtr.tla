---------------------------- MODULE MCPairedPtr ----------------------------
(* Five addresses: two pairs and one free address to move into. *)
EXTENDS PairedPtr
=============================================================================

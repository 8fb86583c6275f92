------------------------------ MODULE MCSignal ------------------------------
(* Two threads and up to three slots, of two priorities. *)
EXTENDS Signal
=============================================================================

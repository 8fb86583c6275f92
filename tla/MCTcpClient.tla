----------------------------- MODULE MCTcpClient -----------------------------
(* Two workers, so that a read and a write may fail at the same time, and   *)
(* two connections, so that the second meets the remains of the first.      *)
EXTENDS TcpClient
=============================================================================

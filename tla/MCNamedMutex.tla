----------------------------- MODULE MCNamedMutex -----------------------------
(* Two processes that race to create the name, the first with two threads,  *)
(* so that a wait meets a holder in the same and in the other process.      *)
EXTENDS NamedMutex

CONSTANTS o1, o2, t1, t2, t3

MCHome == [t \in Threads |-> IF t \in {t1, t2} THEN o1 ELSE o2]
=============================================================================

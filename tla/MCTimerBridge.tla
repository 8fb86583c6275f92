---------------------------- MODULE MCTimerBridge ----------------------------
(* The timer's thread and a pump: two threads to meet between the unlocked  *)
(* look at the queue and the lock, and two starts, so that the second meets *)
(* the thread of the first.                                                 *)
EXTENDS TimerBridge
=============================================================================

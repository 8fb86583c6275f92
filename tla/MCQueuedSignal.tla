--------------------------- MODULE MCQueuedSignal ---------------------------
(* Two signals that share the queue, two threads that emit and destroy, and *)
(* emissions enough for the queue to empty and fill again.                  *)
EXTENDS QueuedSignal
=============================================================================

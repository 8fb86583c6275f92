------------------------- MODULE MCThrottledSignal -------------------------
(* Two emitting threads and four emissions: enough for a dispatcher to end, *)
(* to be succeeded by another, and to be caught ending.                     *)
EXTENDS ThrottledSignal
=============================================================================

------------------------------ MODULE TaskPool ------------------------------
(***************************************************************************)
(* What a pool of worker threads promises about the tasks it accepts,      *)
(* numbered in the order in which it accepts them: they are started in     *)
(* that order, each at most once; each that was started ends; and a pool   *)
(* that does not drop tasks has started all of them when it is gone.       *)
(***************************************************************************)
EXTENDS Naturals

VARIABLES accepted,   \* how many tasks were accepted
          running,    \* those that were started and have not ended
          finished,   \* those that have ended
          drops,      \* a pool that drops the tasks it has not started
          gone        \* the pool does not exist any more

vars == <<accepted, running, finished, drops, gone>>

Init == /\ accepted = 0 /\ running = {} /\ finished = {}
        /\ drops \in BOOLEAN /\ gone = FALSE

Accept == /\ ~gone
          /\ accepted' = accepted + 1
          /\ UNCHANGED <<running, finished, drops, gone>>

(* The tasks before the one that starts were started before. *)
Start == \E k \in 1..accepted :
           /\ ~gone /\ running \cup finished = 1..(k - 1)
           /\ running' = running \cup {k}
           /\ UNCHANGED <<accepted, finished, drops, gone>>

Finish == \E k \in running :
            /\ running' = running \ {k}
            /\ finished' = finished \cup {k}
            /\ UNCHANGED <<accepted, drops, gone>>

Vanish == /\ ~gone /\ running = {}
          /\ drops \/ finished = 1..accepted
          /\ gone' = TRUE
          /\ UNCHANGED <<accepted, running, finished, drops>>

Next == Accept \/ Start \/ Finish \/ Vanish

Spec == Init /\ [][Next]_vars
=============================================================================

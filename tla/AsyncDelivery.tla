---------------------------- MODULE AsyncDelivery ----------------------------
(***************************************************************************)
(* What a signal that delivers from a thread of its own promises: the      *)
(* slots get what was emitted, each emission at most once and in the order *)
(* in which the emissions of that signal were made, at some later time.    *)
(* The emissions of a signal are numbered from 1.                          *)
(***************************************************************************)
EXTENDS Naturals, Sequences

CONSTANT Signals

VARIABLES sent,   \* how many emissions each signal has accepted
          got     \* the numbers its slots were called with, in order

Init == /\ sent = [s \in Signals |-> 0]
        /\ got = [s \in Signals |-> <<>>]

Emit(s) == /\ sent' = [sent EXCEPT ![s] = @ + 1]
           /\ UNCHANGED got

Deliver(s) == /\ Len(got[s]) < sent[s]
              /\ got' = [got EXCEPT ![s] = Append(@, Len(@) + 1)]
              /\ UNCHANGED sent

Next == \E s \in Signals : Emit(s) \/ Deliver(s)

Spec == Init /\ [][Next]_<<sent, got>>
=============================================================================

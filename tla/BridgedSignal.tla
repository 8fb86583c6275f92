---------------------------- MODULE BridgedSignal ----------------------------
(***************************************************************************)
(* bridged_signal_base of signal_slot.hpp.  emit() queues its arguments    *)
(* and asks the emit functor whether somebody else will take care of them; *)
(* when there is none, or it declines, the emitting thread invokes the     *)
(* next emission of the queue itself, which may be another thread's.       *)
(* invoke_next(), invoke_all(), invoke_last_and_clear() and clear_queue()  *)
(* all look at the queue before they lock it, look again, and call the     *)
(* slots with the lock held.                                               *)
(***************************************************************************)
EXTENDS Naturals, Sequences, FiniteSets, SequencesExt

CONSTANTS Threads,   \* those that emit and those that pump the queue
          None,
          MaxEmits   \* bound: emissions

VARIABLES queue,      \* _signal_queue, of numbers of emissions
          queueLock,  \* the owner of _queue_lock
          bridged,    \* _bridge_enabled
          enabled,    \* _enabled of the signal
          functor,    \* whether _emit_functor is set
          at,         \* where each thread stands
          doing,      \* and which of the functions it is in
          item        \* the position in the queue invoke_all() has got to

(* The emissions so far, those whose slots have all been called, in order,  *)
(* those that were cleared or met a disabled signal, and whether a slot has *)
(* ever thrown.                                                             *)
VARIABLES sent, got, dropped, threw

bridgeVars ==
  <<queue, queueLock, bridged, enabled, functor, at, doing, item, sent, got, dropped, threw>>

Operations == {"next", "all", "last", "clear"}

Init ==
  /\ queue = <<>> /\ queueLock = None
  /\ bridged = TRUE /\ enabled = TRUE /\ functor \in BOOLEAN
  /\ at = [t \in Threads |-> "idle"] /\ doing = [t \in Threads |-> "next"]
  /\ item = 1
  /\ sent = 0 /\ got = <<>> /\ dropped = {} /\ threw = FALSE

(* The bound counts the emissions that wait for the lock.                   *)
MayEmit == sent + Cardinality({t \in Threads : at[t] = "push"}) < MaxEmits

Goto(t, place) == at' = [at EXCEPT ![t] = place]
-----------------------------------------------------------------------------
(* base_class::emit(): the slots are called, unless the signal has been     *)
(* disabled since the emission was queued.                                  *)
Deliver(n) == IF enabled THEN got' = Append(got, n) /\ UNCHANGED dropped
                         ELSE dropped' = dropped \cup {n} /\ UNCHANGED got

(* emit() up to the lock.                                                   *)
Emit(t) ==
  /\ at[t] = "idle" /\ enabled /\ bridged /\ MayEmit
  /\ Goto(t, "push")
  /\ UNCHANGED <<queue, queueLock, bridged, enabled, functor, doing, item,
                 sent, got, dropped, threw>>

(* emit_sync(), and emit() when bridging is disabled: the slots are called  *)
(* at once, before what is still queued.                                    *)
EmitDirectly(t) ==
  /\ at[t] = "idle" /\ enabled /\ MayEmit
  /\ sent' = sent + 1 /\ got' = Append(got, sent + 1)
  /\ UNCHANGED <<queue, queueLock, bridged, enabled, functor, at, doing, item,
                 dropped, threw>>

Push(t) ==
  /\ at[t] = "push" /\ queueLock = None
  /\ sent' = sent + 1 /\ queue' = Append(queue, sent + 1)
  /\ Goto(t, "functor")
  /\ UNCHANGED <<queueLock, bridged, enabled, functor, doing, item, got, dropped, threw>>

AskFunctorBug(t) ==   \* a functor that declines is taken for one that accepts
  /\ at[t] = "functor"
  /\ Goto(t, "idle")
  /\ UNCHANGED <<queue, queueLock, bridged, enabled, functor, doing, item, sent,
                 got, dropped, threw>>

(* if (!_emit_functor || !_emit_functor(this)) invoke_next();               *)
AskFunctor(t) ==
  /\ at[t] = "functor"
  /\ \/ functor /\ Goto(t, "idle") /\ UNCHANGED doing
     \/ Goto(t, "test") /\ doing' = [doing EXCEPT ![t] = "next"]
  /\ UNCHANGED <<queue, queueLock, bridged, enabled, functor, item, sent, got,
                 dropped, threw>>
-----------------------------------------------------------------------------
Invoke(t, op) ==
  /\ at[t] = "idle"
  /\ Goto(t, "test") /\ doing' = [doing EXCEPT ![t] = op]
  /\ UNCHANGED <<queue, queueLock, bridged, enabled, functor, item, sent, got,
                 dropped, threw>>

(* if (std::empty(_signal_queue)) return; without the lock.                 *)
Test(t) ==
  /\ at[t] = "test"
  /\ Goto(t, IF queue = <<>> THEN "idle" ELSE "lock")
  /\ UNCHANGED <<queue, queueLock, bridged, enabled, functor, doing, item, sent,
                 got, dropped, threw>>

Lock(t) ==
  /\ at[t] = "lock" /\ queueLock = None
  /\ \/ /\ queue = <<>>                              \* looked at again
        /\ Goto(t, "idle")
        /\ UNCHANGED <<queue, queueLock, item, dropped>>
     \/ /\ queue # <<>> /\ doing[t] = "clear"        \* clear_queue()
        /\ queue' = <<>> /\ dropped' = dropped \cup ToSet(queue)
        /\ Goto(t, "idle")
        /\ UNCHANGED <<queueLock, item>>
     \/ /\ queue # <<>> /\ doing[t] # "clear"
        /\ queueLock' = t /\ item' = 1
        /\ Goto(t, "call")
        /\ UNCHANGED <<queue, dropped>>
  /\ UNCHANGED <<bridged, enabled, functor, doing, sent, got, threw>>

(* base_class::emit() for the first, for each or for the last.              *)
Call(t) ==
  /\ at[t] = "call"
  /\ \/ doing[t] = "next" /\ Deliver(Head(queue)) /\ Goto(t, "done") /\ UNCHANGED item
     \/ doing[t] = "last" /\ Deliver(Last(queue)) /\ Goto(t, "done") /\ UNCHANGED item
     \/ /\ doing[t] = "all" /\ Deliver(queue[item]) /\ item' = item + 1
        /\ Goto(t, IF item = Len(queue) THEN "done" ELSE "call")
  /\ UNCHANGED <<queue, queueLock, bridged, enabled, functor, doing, sent, threw>>

(* pop_front() or clear(), and the end of the scope of the lock.            *)
Finish(t) ==
  /\ at[t] = "done"
  /\ \/ /\ doing[t] = "next" /\ queue' = Tail(queue)
        /\ UNCHANGED dropped
     \/ /\ doing[t] = "all" /\ queue' = <<>>
        /\ UNCHANGED dropped
     \/ /\ doing[t] = "last" /\ queue' = <<>>
        /\ dropped' = dropped \cup ToSet(Front(queue))
  /\ queueLock' = None
  /\ Goto(t, "idle")
  /\ UNCHANGED <<bridged, enabled, functor, doing, item, sent, got, threw>>

(* A slot throws: the lock is given back and nothing leaves the queue, so   *)
(* that the emission, and with invoke_all() those before it, come again.    *)
(* Bound: one exception, since a slot that always throws is never done with. *)
SlotThrows(t) ==
  /\ at[t] = "call" /\ enabled /\ ~threw
  /\ threw' = TRUE
  /\ queueLock' = None
  /\ Goto(t, "idle")
  /\ UNCHANGED <<queue, bridged, enabled, functor, doing, item, sent, got, dropped>>

(* set_bridge_enabled() and set_enabled(), atomics both.                    *)
SetBridgeEnabled(b) ==
  /\ bridged # b /\ bridged' = b
  /\ UNCHANGED <<queue, queueLock, enabled, functor, at, doing, item, sent, got,
                 dropped, threw>>

SetEnabled(b) ==
  /\ enabled # b /\ enabled' = b
  /\ UNCHANGED <<queue, queueLock, bridged, functor, at, doing, item, sent, got,
                 dropped, threw>>
-----------------------------------------------------------------------------
Continue(t) == AskFunctor(t) \/ Push(t) \/ Test(t) \/ Lock(t) \/ Call(t) \/ Finish(t)

Step(t) == \/ Emit(t) \/ EmitDirectly(t) \/ Push(t) \/ AskFunctor(t)
           \/ Test(t) \/ Lock(t) \/ Call(t) \/ Finish(t) \/ SlotThrows(t)
           \/ \E op \in Operations : Invoke(t, op)

Next == \/ \E t \in Threads : Step(t)
        \/ \E b \in BOOLEAN : SetBridgeEnabled(b) \/ SetEnabled(b)

Spec == Init /\ [][Next]_bridgeVars

FairSpec == Spec /\ \A t \in Threads : WF_bridgeVars(Continue(t))
-----------------------------------------------------------------------------
Inside == {"call", "done"}

TypeOK ==
  /\ queue \in Seq(1..MaxEmits) /\ queueLock \in Threads \cup {None}
  /\ bridged \in BOOLEAN /\ enabled \in BOOLEAN /\ functor \in BOOLEAN
  /\ at \in [Threads -> {"idle", "push", "functor", "test", "lock"} \cup Inside]
  /\ doing \in [Threads -> Operations]
  /\ item \in 1..(MaxEmits + 1)
  /\ sent \in 0..MaxEmits /\ got \in Seq(1..MaxEmits)
  /\ dropped \subseteq 1..MaxEmits /\ threw \in BOOLEAN

(* The queue does not change under the thread that is calling slots for it: *)
(* the front that is popped is the emission that was delivered.             *)
LockProtectsQueue ==
  \A t \in Threads : at[t] \in Inside <=> queueLock = t

(* Every emission is waiting, delivered, or dropped on purpose: none gets   *)
(* lost between the looks at the queue.                                     *)
Accounted == 1..sent = ToSet(queue) \cup ToSet(got) \cup dropped

(* And none is delivered twice, unless a slot has thrown.                   *)
DeliveredOnce == ~threw => IsInjective(got)

(* Nobody emits in vain: without a functor each emission sees to it that    *)
(* one leaves the queue, so when all threads have returned it is empty.     *)
NothingLeftBehind ==
  (~functor /\ ~threw /\ \A t \in Threads : at[t] = "idle") => queue = <<>>

BridgeKeepsPromise ==
  LockProtectsQueue /\ Accounted /\ DeliveredOnce /\ NothingLeftBehind
=============================================================================

--------------------------- MODULE ThrottledSignal ---------------------------
(***************************************************************************)
(* throttled_signal_base of signal_slot.hpp.  emit() only queues its       *)
(* arguments; a dispatcher thread, started by the emission that finds none *)
(* running, takes one item at a time, calls the slots under _emit_lock and *)
(* sleeps before the next.  It ends when the queue is empty, and announces *)
(* that in the atomic _thread_running, which it writes without the lock.   *)
(*                                                                         *)
(* The call of the slots (base_class::emit) is module Signal; here it is   *)
(* the delivery of the number of the emission.                             *)
(***************************************************************************)
EXTENDS Naturals, Sequences

CONSTANTS Emitters,    \* the threads that emit
          None,
          MaxEmits     \* bound: emissions

ASSUME ThrottledAssumption ==
    /\ MaxEmits \in Nat
    /\ {None, "dispatcher", "destructor"} \cap Emitters = {}
    /\ None \notin {"dispatcher", "destructor"}

VARIABLES queue,         \* _signal_queue
          emitLock,      \* the owner of _emit_lock
          running,       \* _thread_running
          dispatchAll,   \* _dispatch_all_on_destroy
          pc,            \* each emitter: idle, or joining under _emit_lock
          disp,          \* where the thread of _dispatcher_thread stands
          stop,          \* the stop token of that thread
          life           \* the destructor

(* The emissions accepted and delivered so far. *)
VARIABLES sent, got

vars == <<queue, emitLock, running, dispatchAll, pc, disp, stop, life, sent, got>>

Init == /\ queue = <<>> /\ emitLock = None
        /\ running = FALSE /\ dispatchAll = TRUE
        /\ pc = [e \in Emitters |-> "idle"]
        /\ disp = "none" /\ stop = FALSE
        /\ life = "alive"
        /\ sent = 0 /\ got = <<>>

-----------------------------------------------------------------------------
PushedFrontBug == <<sent + 1>> \o queue

PushedLateBug == Append(queue, sent)   \* what the emission before had pushed

(* _signal_queue.push_back(...) *)
Pushed == Append(queue, sent + 1)

(* emit(): when the flag says that a thread runs, there is nothing more to  *)
(* do than to queue; else the finished thread is joined, and a new one is   *)
(* started, with the lock held all the time.                                *)
Emit(e) ==
    /\ life = "alive" /\ pc[e] = "idle" /\ emitLock = None
    /\ sent < MaxEmits
    /\ queue' = Pushed
    /\ sent' = sent + 1
    /\ running' = TRUE
    /\ IF running THEN UNCHANGED <<emitLock, pc>>
                  ELSE emitLock' = e /\ pc' = [pc EXCEPT ![e] = "join"]
    /\ UNCHANGED <<dispatchAll, disp, stop, life, got>>

Started(e) ==
    /\ pc[e] = "join" /\ disp \in {"none", "done"}
    /\ disp' = "check" /\ stop' = FALSE
    /\ pc' = [pc EXCEPT ![e] = "idle"]
    /\ emitLock' = None
    /\ UNCHANGED <<queue, running, dispatchAll, life, sent, got>>

SetDispatchAll(b) ==
    /\ life = "alive" /\ dispatchAll # b
    /\ dispatchAll' = b
    /\ UNCHANGED <<queue, emitLock, running, pc, disp, stop, life, sent, got>>
-----------------------------------------------------------------------------
(* queue_dispatcher(): the condition of the loop, ...                       *)
LoopTest ==
    /\ disp = "check"
    /\ disp' = IF stop THEN "exit" ELSE "lock"
    /\ UNCHANGED <<queue, emitLock, running, dispatchAll, pc, stop, life, sent, got>>

(* ... the lock and the first break, or the call of the slots, ...          *)
Nothing == stop \/ queue = <<>>

Take ==
    /\ disp = "lock" /\ emitLock = None
    /\ IF Nothing
       THEN disp' = "exit" /\ UNCHANGED <<emitLock, got>>
       ELSE /\ disp' = "call" /\ emitLock' = "dispatcher"
            /\ got' = Append(got, Head(queue))
    /\ UNCHANGED <<queue, running, dispatchAll, pc, stop, life, sent>>

(* ... the second break, or the sleep, ...                                  *)
Pop ==
    /\ disp = "call"
    /\ queue' = Tail(queue)
    /\ emitLock' = None
    /\ disp' = IF Tail(queue) = <<>> THEN "exit" ELSE "sleep"
    /\ UNCHANGED <<running, dispatchAll, pc, stop, life, sent, got>>

Wake ==
    /\ disp = "sleep"
    /\ disp' = "check"
    /\ UNCHANGED <<queue, emitLock, running, dispatchAll, pc, stop, life, sent, got>>

AnnounceBug ==     \* announced with every item, as if it were the last
    /\ disp \in {"sleep", "exit"}
    /\ running' = FALSE
    /\ disp' = IF disp = "exit" THEN "returning" ELSE "sleep"
    /\ UNCHANGED <<queue, emitLock, dispatchAll, pc, stop, life, sent, got>>

(* ... and, the lock released, the announcement that the thread is over.    *)
Announce ==
    /\ disp = "exit"
    /\ running' = FALSE
    /\ disp' = "returning"
    /\ UNCHANGED <<queue, emitLock, dispatchAll, pc, stop, life, sent, got>>

Return ==
    /\ disp = "returning"
    /\ disp' = "done"
    /\ UNCHANGED <<queue, emitLock, running, dispatchAll, pc, stop, life, sent, got>>
-----------------------------------------------------------------------------
DestroyBug ==      \* nothing is drained when a dispatcher seems to run
    /\ life = "alive" /\ \A e \in Emitters : pc[e] = "idle"
    /\ IF dispatchAll /\ ~running
       THEN emitLock = None /\ emitLock' = "destructor" /\ life' = "drain"
       ELSE life' = "stop" /\ UNCHANGED emitLock
    /\ UNCHANGED <<queue, running, dispatchAll, pc, disp, stop, sent, got>>

(* The destructor; nobody may emit any more.  What is left in the queue is  *)
(* delivered by the destroying thread when _dispatch_all_on_destroy is set. *)
Destroy ==
    /\ life = "alive" /\ \A e \in Emitters : pc[e] = "idle"
    /\ IF dispatchAll
       THEN emitLock = None /\ emitLock' = "destructor" /\ life' = "drain"
       ELSE life' = "stop" /\ UNCHANGED emitLock
    /\ UNCHANGED <<queue, running, dispatchAll, pc, disp, stop, sent, got>>

Drain ==
    /\ life = "drain" /\ queue # <<>>
    /\ got' = Append(got, Head(queue))
    /\ queue' = Tail(queue)
    /\ UNCHANGED <<emitLock, running, dispatchAll, pc, disp, stop, life, sent>>

Drained ==
    /\ life = "drain" /\ queue = <<>>
    /\ emitLock' = None /\ life' = "stop"
    /\ UNCHANGED <<queue, running, dispatchAll, pc, disp, stop, sent, got>>

(* ~jthread of _dispatcher_thread *)
RequestStop ==
    /\ life = "stop"
    /\ stop' = TRUE /\ life' = "join"
    /\ UNCHANGED <<queue, emitLock, running, dispatchAll, pc, disp, sent, got>>

Destroyed ==
    /\ life = "join" /\ disp \in {"none", "done"}
    /\ life' = "dead"
    /\ UNCHANGED <<queue, emitLock, running, dispatchAll, pc, disp, stop, sent, got>>
-----------------------------------------------------------------------------
Dispatcher == LoopTest \/ Take \/ Pop \/ Wake \/ Announce \/ Return
Destructor == Drain \/ Drained \/ RequestStop \/ Destroyed

Next == \/ \E e \in Emitters : Emit(e) \/ Started(e)
        \/ \E b \in BOOLEAN : SetDispatchAll(b)
        \/ LoopTest \/ Take \/ Pop \/ Wake \/ Announce \/ Return
        \/ Destroy \/ Drain \/ Drained \/ RequestStop \/ Destroyed

Spec == Init /\ [][Next]_vars

(* The dispatcher, an emission that has begun and the destructor keep       *)
(* running, and the slots return; nobody is obliged to emit or to destroy.  *)
FairSpec == /\ Spec
            /\ WF_vars(Dispatcher) /\ WF_vars(Destructor)
            /\ \A e \in Emitters : WF_vars(Started(e))
-----------------------------------------------------------------------------
Working == {"check", "lock", "call", "sleep"}

TypeOK ==
    /\ queue \in Seq(1..MaxEmits)
    /\ emitLock \in Emitters \cup {None, "dispatcher", "destructor"}
    /\ running \in BOOLEAN /\ dispatchAll \in BOOLEAN /\ stop \in BOOLEAN
    /\ pc \in [Emitters -> {"idle", "join"}]
    /\ disp \in Working \cup {"none", "exit", "returning", "done"}
    /\ life \in {"alive", "drain", "stop", "join", "dead"}
    /\ sent \in 0..MaxEmits /\ got \in Seq(1..MaxEmits)

(* Every emission is delivered at most once and in order, be it by the      *)
(* dispatchers that succeed each other or by the destructor.                *)
Delivery == INSTANCE AsyncDelivery
              WITH Signals <- {"this"},
                   sent <- [s \in {"this"} |-> sent],
                   got <- [s \in {"this"} |-> got]

DeliversInOrder == Delivery!Spec

(* _emit_lock is owned by who is inside the section it guards.              *)
LockOwner ==
    /\ \A e \in Emitters : pc[e] = "join" <=> emitLock = e
    /\ disp = "call" <=> emitLock = "dispatcher"
    /\ life = "drain" <=> emitLock = "destructor"

(* The flag never lies in the direction that would make an emission wait,   *)
(* with the lock held, for a thread that needs the lock to end.             *)
JoinsFinishedThread ==
    \A e \in Emitters : pc[e] = "join" => disp \in {"none", "returning", "done"}

(* Nor in the direction that would keep emissions from ever starting one:   *)
(* while the flag is set there is a thread, or somebody about to start it.  *)
FlagHasDispatcher ==
    running => \/ disp \in Working \cup {"exit"}
               \/ \E e \in Emitters : pc[e] = "join"

(* With _dispatch_all_on_destroy, destruction loses nothing.                *)
DestroyDeliversAll == life = "dead" /\ dispatchAll => Len(got) = sent

(* Every call returns: joining the thread before, in an emission, never     *)
(* takes forever, nor does the destructor, which waits for the last one.    *)
CallsReturn == /\ \A e \in Emitters : pc[e] = "join" ~> pc[e] = "idle"
               /\ life # "alive" ~> life = "dead"

(* What was emitted is delivered, unless the signal is destroyed first.     *)
EverythingDelivered ==
    \A n \in 1..MaxEmits : sent >= n ~> Len(got) >= n \/ life # "alive"
=============================================================================

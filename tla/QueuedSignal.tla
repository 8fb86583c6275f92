---------------------------- MODULE QueuedSignal ----------------------------
(***************************************************************************)
(* queued_signal_base of signal_slot.hpp.  All signals of one scope share  *)
(* one queue of (signal, arguments), one lock and one dispatcher thread:   *)
(* these are static members.  A signal is destroyed while others emit, and *)
(* the queue holds plain pointers: a destructor delivers what is queued    *)
(* for it and takes it out of the queue.                                   *)
(*                                                                         *)
(* The call of the slots (base_class::emit) is module Signal; here it is   *)
(* the delivery of the number of the emission.  The end of the program,    *)
(* when the static thread is stopped, is left out.                         *)
(***************************************************************************)
EXTENDS Naturals, Sequences

CONSTANTS Threads,    \* the threads that emit and destroy
          Signals,    \* the signals of the scope
          None,
          MaxEmits    \* bound: emissions of each signal

ASSUME QueuedAssumption ==
    /\ MaxEmits \in Nat
    /\ {None, "dispatcher"} \cap Threads = {} /\ None # "dispatcher"
    /\ None \notin Signals

VARIABLES queue,         \* _signal_queue, of [sig, n]
          emitLock,      \* the owner of _emit_lock
          destructLock,  \* the owner of _destruct_lock
          running,       \* _thread_running
          dispatchAll,   \* _dispatch_all_on_destroy, static too
          pc,            \* where each thread stands
          this,          \* the signal on which it is inside a function
          disp,          \* where the thread of _dispatcher_thread stands
          alive          \* the signals not destroyed yet

(* What was emitted and delivered, and the signals that were destroyed      *)
(* while dispatchAll was off.                                               *)
VARIABLES sent, got, abandoned

vars == <<queue, emitLock, destructLock, running, dispatchAll, pc, this, disp,
          alive, sent, got, abandoned>>

Init == /\ queue = <<>> /\ emitLock = None /\ destructLock = None
        /\ running = FALSE /\ dispatchAll = TRUE
        /\ pc = [t \in Threads |-> "idle"]
        /\ this = [t \in Threads |-> None]
        /\ disp = "none"
        /\ alive = Signals
        /\ sent = [s \in Signals |-> 0] /\ got = [s \in Signals |-> <<>>]
        /\ abandoned = {}

Entry(s, k) == [sig |-> s, n |-> k]

(* Where the queue holds something for s. *)
Own(s) == {i \in DOMAIN queue : queue[i].sig = s}

Without(i) == [j \in 1..(Len(queue) - 1) |-> queue[IF j < i THEN j ELSE j + 1]]

(* A thread enters a member function of s: nobody has begun to destroy s.   *)
Enter(t, s) ==
    /\ pc[t] = "idle" /\ s \in alive
    /\ \A u \in Threads : this[u] # s

Leave(t) == /\ pc' = [pc EXCEPT ![t] = "idle"]
            /\ this' = [this EXCEPT ![t] = None]
-----------------------------------------------------------------------------
PushedFrontBug(s) == <<Entry(s, sent[s] + 1)>> \o queue

PushedLateBug(s) == Append(queue, Entry(s, sent[s]))

(* _signal_queue.push_back(...) *)
Pushed(s) == Append(queue, Entry(s, sent[s] + 1))

(* emit(), as in ThrottledSignal. *)
Emit(t, s) ==
    /\ Enter(t, s) /\ emitLock = None
    /\ sent[s] < MaxEmits
    /\ queue' = Pushed(s)
    /\ sent' = [sent EXCEPT ![s] = @ + 1]
    /\ running' = TRUE
    /\ IF running
       THEN UNCHANGED <<emitLock, pc, this>>
       ELSE /\ emitLock' = t
            /\ pc' = [pc EXCEPT ![t] = "join"]
            /\ this' = [this EXCEPT ![t] = s]
    /\ UNCHANGED <<destructLock, dispatchAll, disp, alive, got, abandoned>>

Started(t) ==
    /\ pc[t] = "join" /\ disp \in {"none", "done"}
    /\ disp' = "lock"
    /\ emitLock' = None
    /\ Leave(t)
    /\ UNCHANGED <<queue, destructLock, running, dispatchAll, alive, sent, got,
                   abandoned>>

SetDispatchAll(b) ==
    /\ alive # {} /\ dispatchAll # b
    /\ dispatchAll' = b
    /\ UNCHANGED <<queue, emitLock, destructLock, running, pc, this, disp, alive,
                   sent, got, abandoned>>
-----------------------------------------------------------------------------
(* queue_dispatcher(): the lock, the first break or the call.  A call on a  *)
(* signal that is no more is undefined: it is taken to reach no slot, or to *)
(* end the program there.                                                   *)
Take ==
    /\ disp = "lock" /\ emitLock = None
    /\ IF queue = <<>>
       THEN disp' = "exit" /\ UNCHANGED <<emitLock, got>>
       ELSE /\ emitLock' = "dispatcher"
            /\ IF Head(queue).sig \in alive
               THEN /\ disp' = "call"
                    /\ got' = [got EXCEPT ![Head(queue).sig] = Append(@, Head(queue).n)]
               ELSE disp' \in {"call", "crashed"} /\ UNCHANGED got
    /\ UNCHANGED <<queue, destructLock, running, dispatchAll, pc, this, alive,
                   sent, abandoned>>

(* The second break, with the flag cleared, or the delay and the next turn. *)
Pop ==
    /\ disp = "call"
    /\ queue' = Tail(queue)
    /\ emitLock' = None
    /\ IF queue' = <<>> THEN running' = FALSE /\ disp' = "exit"
                        ELSE disp' = "lock" /\ UNCHANGED running
    /\ UNCHANGED <<destructLock, dispatchAll, pc, this, alive, sent, got, abandoned>>

(* Past the loop the flag is cleared, again after the second break, without *)
(* the lock.                                                                *)
Announce ==
    /\ disp = "exit"
    /\ running' = FALSE
    /\ disp' = "returning"
    /\ UNCHANGED <<queue, emitLock, destructLock, dispatchAll, pc, this, alive,
                   sent, got, abandoned>>

Return ==
    /\ disp = "returning"
    /\ disp' = "done"
    /\ UNCHANGED <<queue, emitLock, destructLock, running, dispatchAll, pc, this,
                   alive, sent, got, abandoned>>
-----------------------------------------------------------------------------
(* The destructor: _destruct_lock, and _emit_lock next if the queue is to   *)
(* be looked at.                                                            *)
Destroy(t, s) ==
    /\ Enter(t, s) /\ destructLock = None
    /\ IF dispatchAll
       THEN /\ destructLock' = t
            /\ pc' = [pc EXCEPT ![t] = "destroy"]
            /\ this' = [this EXCEPT ![t] = s]
            /\ UNCHANGED <<alive, abandoned>>
       ELSE /\ alive' = alive \ {s}
            /\ abandoned' = abandoned \cup {s}
            /\ UNCHANGED <<destructLock, pc, this>>
    /\ UNCHANGED <<queue, emitLock, running, dispatchAll, disp, sent, got>>

DestroyLock(t) ==
    /\ pc[t] = "destroy" /\ emitLock = None
    /\ emitLock' = t
    /\ pc' = [pc EXCEPT ![t] = "drain"]
    /\ UNCHANGED <<queue, destructLock, running, dispatchAll, this, disp, alive,
                   sent, got, abandoned>>

(* The predicate of remove_if, for the next entry of this. *)
Drain(t) ==
    /\ pc[t] = "drain"
    /\ \E i \in Own(this[t]) :
         /\ \A j \in Own(this[t]) : i <= j
         /\ got' = [got EXCEPT ![this[t]] = Append(@, queue[i].n)]
         /\ queue' = Without(i)
    /\ UNCHANGED <<emitLock, destructLock, running, dispatchAll, pc, this, disp,
                   alive, sent, abandoned>>

DestroyedBug(t) ==    \* nothing is erased once the dispatcher is at work
    /\ pc[t] = "drain" /\ (Own(this[t]) = {} \/ disp = "lock")
    /\ alive' = alive \ {this[t]}
    /\ emitLock' = None /\ destructLock' = None
    /\ Leave(t)
    /\ UNCHANGED <<queue, running, dispatchAll, disp, sent, got, abandoned>>

Destroyed(t) ==
    /\ pc[t] = "drain" /\ Own(this[t]) = {}
    /\ alive' = alive \ {this[t]}
    /\ emitLock' = None /\ destructLock' = None
    /\ Leave(t)
    /\ UNCHANGED <<queue, running, dispatchAll, disp, sent, got, abandoned>>
-----------------------------------------------------------------------------
Dispatcher == Take \/ Pop \/ Announce \/ Return

Inside(t) == Started(t) \/ DestroyLock(t) \/ Drain(t) \/ Destroyed(t)

Next == \/ \E b \in BOOLEAN : SetDispatchAll(b)
        \/ Take \/ Pop \/ Announce \/ Return
        \/ \E t \in Threads :
             \/ Started(t) \/ DestroyLock(t) \/ Drain(t) \/ Destroyed(t)
             \/ \E s \in Signals : Emit(t, s) \/ Destroy(t, s)

Spec == Init /\ [][Next]_vars

(* The dispatcher and the threads inside a function keep running, and the   *)
(* slots return; nobody is obliged to emit or to destroy.                   *)
FairSpec == Spec /\ WF_vars(Dispatcher) /\ \A t \in Threads : WF_vars(Inside(t))
-----------------------------------------------------------------------------
Working == {"lock", "call"}

TypeOK ==
    /\ queue \in Seq([sig : Signals, n : 1..MaxEmits])
    /\ emitLock \in Threads \cup {None, "dispatcher"}
    /\ destructLock \in Threads \cup {None}
    /\ running \in BOOLEAN /\ dispatchAll \in BOOLEAN
    /\ pc \in [Threads -> {"idle", "join", "destroy", "drain"}]
    /\ this \in [Threads -> Signals \cup {None}]
    /\ disp \in Working \cup {"none", "exit", "returning", "done", "crashed"}
    /\ alive \subseteq Signals /\ abandoned \subseteq Signals
    /\ sent \in [Signals -> 0..MaxEmits] /\ got \in [Signals -> Seq(1..MaxEmits)]

(* Each emission of a signal is delivered at most once, in the order of the *)
(* emissions of that signal, by the dispatchers or by the destructor.       *)
Delivery == INSTANCE AsyncDelivery

DeliversInOrder == Delivery!Spec

(* The locks are owned by who is inside the sections they guard: a queue    *)
(* that is walked by a destructor is never touched by anybody else.         *)
LockOwner ==
    /\ \A t \in Threads : /\ pc[t] \in {"join", "drain"} <=> emitLock = t
                          /\ pc[t] \in {"destroy", "drain"} <=> destructLock = t
    /\ disp \in {"call", "crashed"} <=> emitLock = "dispatcher"

(* The pointers in the queue point at signals that still exist, those apart *)
(* that were destroyed with dispatching switched off: neither the           *)
(* dispatcher nor another destructor calls a signal that is gone.           *)
NoDanglingSignal == \A i \in DOMAIN queue : queue[i].sig \in alive \cup abandoned

(* A signal that was to dispatch on destruction has lost nothing, even when *)
(* the dispatcher was busy with its emissions.                              *)
DestroyDeliversAll ==
    \A s \in Signals \ (alive \cup abandoned) : Len(got[s]) = sent[s]

(* An emission returns: the thread it joins under _emit_lock is ending.     *)
EveryEmitReturns == \A t \in Threads : pc[t] = "join" ~> pc[t] = "idle"
=============================================================================

------------------------------- MODULE Signal -------------------------------
(***************************************************************************)
(* signal, slot and connection of signal_slot.hpp: any number of threads   *)
(* emit, connect to, clear and enable one signal, and the slots it calls   *)
(* do the same from inside the emission.                                   *)
(*                                                                         *)
(* A slot is identified with the number of the connect() call that made    *)
(* it, and so is the connection object that call returned: link[s] and     *)
(* conn[s] say whether the end of the pair in the slot, and the one in the *)
(* connection, hold a pointer (module PairedPtr is the pair itself).       *)
(*                                                                         *)
(* _connect_lock is only ever held for the length of one action, so it is  *)
(* not a variable; _emit_lock is held across the calls to the slots.       *)
(***************************************************************************)
EXTENDS Integers, FiniteSets, SequencesExt

CONSTANTS Threads,
          Priorities,     \* the priorities connect() is called with
          None,           \* no thread, or no connection
          MaxConnects,    \* bound: calls of connect
          MaxEmits,       \* bound: calls of emit
          MaxSettings,    \* bound: calls that enable, disable or re-prioritise
          Synchronised    \* TRUE when the application calls disconnect,
                          \* set_enabled and set_connection_priority of a
                          \* connection only while no other thread is using
                          \* the signal: these take no lock in the code

ASSUME SignalAssumption == /\ Priorities \subseteq Int
                           /\ MaxConnects \in Nat
                           /\ MaxEmits \in Nat /\ MaxSettings \in Nat
                           /\ None \notin Threads /\ None \notin Int
                           /\ Synchronised \in BOOLEAN

Slots == 1..MaxConnects

VARIABLES
    enabled,    \* signal::_enabled
    pending,    \* _pending_connections: its order is lost when it is merged
    slots,      \* _slots, in the order of its iterators
    emitLock,   \* the thread that owns _emit_lock
    link, conn, \* the two ends of each pair
    active,     \* slot_base::_enabled
    prio,       \* slot::_priority
    created,    \* the number of slots connect() has made so far
    pc,         \* where each thread stands in emit()
    cursor,     \* the iterator of erase_if, valid under _emit_lock
    closing,    \* the connection a thread is in the middle of disconnecting
    stale       \* that thread's pointer to the slot points to a freed slot

(* What the run so far has done, read by the properties only (and by the    *)
(* bounds).                                                                 *)
VARIABLES
    called,     \* the slots the current emission has called, in order
    fresh,      \* the slots connected since it began
    steady,     \* the slots that were there when it began, and that nobody
                \* has disconnected or disabled since
    gone,       \* the connections whose disconnect() has returned
    resorted,   \* somebody changed the priority of a slot of _slots
    emits, settings

code == <<enabled, pending, slots, emitLock, link, conn, active, prio,
          created, pc, cursor, closing, stale>>
vars == <<code, called, fresh, steady, gone, resorted, emits, settings>>

Init == /\ enabled = TRUE
        /\ pending = {} /\ slots = <<>>
        /\ emitLock = None
        /\ link = [s \in Slots |-> FALSE] /\ conn = [s \in Slots |-> FALSE]
        /\ active = [s \in Slots |-> TRUE]
        /\ prio = [s \in Slots |-> 0]
        /\ created = 0
        /\ pc = [t \in Threads |-> "idle"] /\ cursor = 1
        /\ closing = [t \in Threads |-> None]
        /\ stale = [t \in Threads |-> FALSE]
        /\ called = <<>> /\ fresh = {} /\ steady = {} /\ gone = {}
        /\ resorted = FALSE /\ emits = 0 /\ settings = 0
-----------------------------------------------------------------------------
(* A thread can call the signal when it is outside of it or inside a slot.  *)
Free(t) == pc[t] \in {"idle", "slot"} /\ closing[t] = None

(* The application's own synchronisation of the calls that take no lock.    *)
Quiet(t) == Synchronised => \A u \in Threads \ {t} : closing[u] = None
Alone(t) == Quiet(t) /\ (Synchronised => emitLock \in {t, None})

(* Those that hold a pointer to a slot of S hold a stale one from now on:   *)
(* the slot was moved to another address, or destroyed.                     *)
Relocated(S) == [t \in Threads |-> stale[t] \/ closing[t] \in S]

(* The slots of S are destroyed, and ~paired_ptr tells their connections.   *)
Without(p, S) == [s \in Slots |-> p[s] /\ s \notin S]

Ordered(q) == \A i, j \in 1..Len(q) : i < j => prio[q[i]] <= prio[q[j]]

MergesBug ==      \* new slots go last, whatever their priority
    {q \in [1..(Len(slots) + Cardinality(pending)) -> ToSet(slots) \cup pending] :
        /\ ToSet(q) = ToSet(slots) \cup pending
        /\ \A k \in DOMAIN slots : q[k] = slots[k]}

(* The multiset once the pending slots are in it: the slots it had keep     *)
(* their relative order; where slots of equal priority go depends on the    *)
(* insertion hint; once a key was modified in place, everything does.       *)
Merges ==
    {q \in [1..(Len(slots) + Cardinality(pending)) -> ToSet(slots) \cup pending] :
        /\ IsInjective(q) /\ ToSet(q) = ToSet(slots) \cup pending
        /\ \A i, j \in DOMAIN q :
             \A k, l \in DOMAIN slots :
               q[i] = slots[k] /\ q[j] = slots[l] /\ k < l => i < j
        /\ Ordered(slots) => Ordered(q)}

-----------------------------------------------------------------------------
(* emit(), up to the lock: a disabled signal returns at once. *)
Emit(t) ==
    /\ pc[t] = "idle" /\ closing[t] = None
    /\ enabled /\ emits < MaxEmits
    /\ pc' = [pc EXCEPT ![t] = "wait"]
    /\ emits' = emits + 1
    /\ UNCHANGED <<enabled, pending, slots, emitLock, link, conn, active, prio,
                   created, cursor, closing, stale, called, fresh, steady,
                   gone, resorted, settings>>

(* The signal was disabled while emit() waited for the lock. *)
EmitDisabled(t) ==
    /\ pc[t] = "wait" /\ emitLock = None /\ ~enabled
    /\ pc' = [pc EXCEPT ![t] = "idle"]
    /\ UNCHANGED <<enabled, pending, slots, emitLock, link, conn, active, prio,
                   created, cursor, closing, stale, called, fresh, steady,
                   gone, resorted, emits, settings>>

(* The pending slots are moved into the container and the iteration begins. *)
EmitBegin(t) ==
    /\ pc[t] = "wait" /\ emitLock = None /\ enabled /\ Quiet(t)
    /\ emitLock' = t
    /\ pc' = [pc EXCEPT ![t] = "scan"]
    /\ slots' \in Merges
    /\ pending' = {}
    /\ stale' = Relocated(pending)
    /\ cursor' = 1
    /\ called' = <<>> /\ fresh' = {}
    /\ steady' = {s \in ToSet(slots') : link[s] /\ active[s]}
    /\ UNCHANGED <<enabled, link, conn, active, prio, created, closing, gone,
                   resorted, emits, settings>>

SkipNextBug ==      \* the iterator is advanced past the next slot too
    slots' = RemoveAt(slots, cursor) /\ cursor' = cursor + 1

(* erase(iterator) *)
EraseAtCursor == slots' = RemoveAt(slots, cursor) /\ UNCHANGED cursor

(* ++iterator *)
Advance == cursor' = cursor + 1 /\ UNCHANGED slots

PastEndBug(t) ==   \* the end is tested after the iterator is dereferenced
    /\ pc[t] = "scan" /\ cursor <= Len(slots) + 1
    /\ pc' = [pc EXCEPT ![t] = "checked"]
    /\ UNCHANGED <<enabled, pending, slots, emitLock, link, conn, active, prio,
                   created, cursor, closing, stale, called, fresh, steady, gone,
                   resorted, emits, settings>>

CheckBug(t) ==   \* the slot is not looked at again before it is called
    /\ pc[t] = "scan" /\ cursor <= Len(slots)
    /\ pc' = [pc EXCEPT ![t] = "checked"]
    /\ UNCHANGED <<enabled, pending, slots, emitLock, link, conn, active, prio,
                   created, cursor, closing, stale, called, fresh, steady, gone,
                   resorted, emits, settings>>

(* The predicate of erase_if, before the slot is called ... *)
Check(t) ==
    /\ pc[t] = "scan" /\ cursor <= Len(slots)
    /\ IF link[slots[cursor]]
       THEN pc' = [pc EXCEPT ![t] = "checked"] /\ UNCHANGED <<slots, cursor, stale>>
       ELSE EraseAtCursor /\ stale' = Relocated({slots[cursor]}) /\ UNCHANGED pc
    /\ UNCHANGED <<enabled, pending, emitLock, link, conn, active, prio, created,
                   closing, called, fresh, steady, gone, resorted, emits, settings>>

(* ... the call ... *)
Invoke(t) ==
    /\ pc[t] = "checked" /\ active[slots[cursor]]
    /\ pc' = [pc EXCEPT ![t] = "slot"]
    /\ called' = Append(called, slots[cursor])
    /\ UNCHANGED <<enabled, pending, slots, emitLock, link, conn, active, prio,
                   created, cursor, closing, stale, fresh, steady, gone,
                   resorted, emits, settings>>

(* ... and after it, or when the slot is disabled.  *)
Settle(t) ==
    /\ \/ pc[t] = "checked" /\ ~active[slots[cursor]]
       \/ pc[t] = "slot" /\ closing[t] = None
    /\ pc' = [pc EXCEPT ![t] = "scan"]
    /\ IF link[slots[cursor]]
       THEN Advance /\ UNCHANGED stale
       ELSE EraseAtCursor /\ stale' = Relocated({slots[cursor]})
    /\ UNCHANGED <<enabled, pending, emitLock, link, conn, active, prio, created,
                   closing, called, fresh, steady, gone, resorted, emits, settings>>

(* The locals of emit() are gone; so is what was noted about the emission.  *)
Leave(t) == /\ pc' = [pc EXCEPT ![t] = "idle"]
            /\ cursor' = 1
            /\ called' = <<>> /\ fresh' = {} /\ steady' = {}

SlotThrowsBug(t) ==   \* a lock released by hand, after the loop
    /\ pc[t] = "slot" /\ closing[t] = None
    /\ Leave(t)
    /\ UNCHANGED <<enabled, pending, slots, emitLock, link, conn, active, prio,
                   created, closing, stale, gone, resorted, emits, settings>>

(* A slot throws: the scoped locks unwind, the rest is not called. *)
SlotThrows(t) ==
    /\ pc[t] = "slot" /\ closing[t] = None
    /\ Leave(t)
    /\ emitLock' = None
    /\ UNCHANGED <<enabled, pending, slots, link, conn, active, prio, created,
                   closing, stale, gone, resorted, emits, settings>>

EmitEnd(t) ==
    /\ pc[t] = "scan" /\ cursor > Len(slots)
    /\ Leave(t)
    /\ emitLock' = None
    /\ UNCHANGED <<enabled, pending, slots, link, conn, active, prio, created,
                   closing, stale, gone, resorted, emits, settings>>
-----------------------------------------------------------------------------
(* connect(): disconnected slots are swept out of the vector, whose growth  *)
(* moves all its slots or none.  The new one is linked to its connection.   *)
Connect(t, p) ==
    /\ Free(t) /\ created < MaxConnects /\ Quiet(t)
    /\ created' = created + 1
    /\ pending' = {s \in pending : link[s]} \cup {created'}
    /\ \E moved \in {{s \in pending : ~link[s]}, pending} : stale' = Relocated(moved)
    /\ link' = [link EXCEPT ![created'] = TRUE]
    /\ conn' = [conn EXCEPT ![created'] = TRUE]
    /\ prio' = [prio EXCEPT ![created'] = p]
    /\ fresh' = IF emitLock = None THEN fresh ELSE fresh \cup {created'}
    /\ UNCHANGED <<enabled, slots, emitLock, active, pc, cursor, closing,
                   called, steady, gone, resorted, emits, settings>>

(* connection::disconnect(), or its destructor, reads the pointer ... *)
DisconnectLoad(t, s) ==
    /\ Free(t) /\ s \in (1..created) \ gone /\ Alone(t)
    /\ \A u \in Threads : closing[u] # s
    /\ conn[s]
    /\ closing' = [closing EXCEPT ![t] = s]
    /\ UNCHANGED <<enabled, pending, slots, emitLock, link, conn, active, prio,
                   created, pc, cursor, stale, called, fresh, steady, gone, resorted,
                   emits, settings>>

DisconnectStoreBug(t) ==   \* only its own end
    /\ closing[t] # None
    /\ LET s == closing[t]
       IN  /\ conn' = [conn EXCEPT ![s] = FALSE]
           /\ gone' = gone \cup {s}
           /\ steady' = steady \ {s}
    /\ closing' = [closing EXCEPT ![t] = None]
    /\ UNCHANGED <<enabled, pending, slots, emitLock, link, active, prio, created,
                   pc, cursor, stale, called, fresh, resorted, emits, settings>>

(* ... and stores null at both ends; through a stale pointer, the slot's    *)
(* end is not the one that is written.                                      *)
DisconnectStore(t) ==
    /\ closing[t] # None
    /\ LET s == closing[t]
       IN  /\ link' = [link EXCEPT ![s] = stale[t] /\ link[s]]
           /\ conn' = [conn EXCEPT ![s] = FALSE]
           /\ gone' = gone \cup {s}
           /\ steady' = steady \ {s}
    /\ closing' = [closing EXCEPT ![t] = None]
    /\ stale' = [stale EXCEPT ![t] = FALSE]
    /\ UNCHANGED <<enabled, pending, slots, emitLock, active, prio, created, pc,
                   cursor, called, fresh, resorted, emits, settings>>

(* connection::set_enabled(): it reaches a slot of _slots only, a pending   *)
(* one is left as it is.                                                    *)
EnableSlot(t, s, b) ==
    /\ Free(t) /\ s \in (1..created) \ gone /\ Alone(t)
    /\ conn[s] /\ s \in ToSet(slots) /\ active[s] # b
    /\ settings < MaxSettings
    /\ active' = [active EXCEPT ![s] = b]
    /\ steady' = steady \ {s}
    /\ settings' = settings + 1
    /\ UNCHANGED <<enabled, pending, slots, emitLock, link, conn, prio, created,
                   pc, cursor, closing, stale, called, fresh, gone, resorted, emits>>

(* connection::set_connection_priority(): find_slot looks in both           *)
(* containers; the key is changed where the slot is.                        *)
SetPriority(t, s, p) ==
    /\ Free(t) /\ s \in (1..created) \ gone /\ Alone(t)
    /\ conn[s] /\ s \in pending \cup ToSet(slots) /\ prio[s] # p
    /\ settings < MaxSettings
    /\ prio' = [prio EXCEPT ![s] = p]
    /\ resorted' = (resorted \/ s \in ToSet(slots))
    /\ settings' = settings + 1
    /\ UNCHANGED <<enabled, pending, slots, emitLock, link, conn, active, created,
                   pc, cursor, closing, stale, called, fresh, steady, gone, emits>>

(* signal::set_enabled() *)
SetEnabled(t, b) ==
    /\ Free(t) /\ enabled # b
    /\ settings < MaxSettings
    /\ enabled' = b
    /\ settings' = settings + 1
    /\ UNCHANGED <<pending, slots, emitLock, link, conn, active, prio, created, pc,
                   cursor, closing, stale, called, fresh, steady, gone, resorted, emits>>

(* clear(): both locks, hence never during an emission. *)
Clear(t) ==
    /\ pc[t] = "idle" /\ closing[t] = None /\ emitLock = None /\ Quiet(t)
    /\ pending \cup ToSet(slots) # {}
    /\ LET dead == pending \cup ToSet(slots)
       IN  /\ link' = Without(link, dead)
           /\ conn' = Without(conn, {s \in dead : link[s]})
           /\ stale' = Relocated(dead)
    /\ pending' = {} /\ slots' = <<>>
    /\ UNCHANGED <<enabled, emitLock, active, prio, created, pc, cursor, closing,
                   called, fresh, steady, gone, resorted, emits, settings>>
-----------------------------------------------------------------------------
Next == \E t \in Threads :
          \/ Emit(t) \/ EmitDisabled(t) \/ EmitBegin(t) \/ Check(t) \/ Invoke(t)
          \/ Settle(t) \/ SlotThrows(t) \/ EmitEnd(t)
          \/ DisconnectStore(t) \/ Clear(t)
          \/ \E b \in BOOLEAN : SetEnabled(t, b)
          \/ \E p \in Priorities : Connect(t, p)
          \/ \E s \in Slots :
               \/ DisconnectLoad(t, s)
               \/ \E b \in BOOLEAN : EnableSlot(t, s, b)
               \/ \E p \in Priorities : SetPriority(t, s, p)

Spec == Init /\ [][Next]_vars

(* A thread inside emit() or disconnect() keeps running, and the functions  *)
(* connected to the signal return.                                          *)
Progress(t) == \/ EmitDisabled(t) \/ EmitBegin(t) \/ Check(t) \/ Invoke(t)
               \/ Settle(t) \/ EmitEnd(t) \/ DisconnectStore(t)

FairSpec == Spec /\ \A t \in Threads : WF_vars(Progress(t))
-----------------------------------------------------------------------------
Emitting == {"scan", "checked", "slot"}

(* The type of every variable; the cursor is a valid iterator whenever a    *)
(* slot is about to be looked at through it.                                *)
TypeOK ==
    /\ enabled \in BOOLEAN /\ resorted \in BOOLEAN
    /\ pending \subseteq Slots /\ slots \in Seq(Slots)
    /\ emitLock \in Threads \cup {None}
    /\ link \in [Slots -> BOOLEAN] /\ conn \in [Slots -> BOOLEAN]
    /\ active \in [Slots -> BOOLEAN] /\ prio \in [Slots -> Int]
    /\ created \in 0..MaxConnects /\ fresh \subseteq Slots
    /\ steady \subseteq Slots /\ gone \subseteq Slots
    /\ called \in Seq(Slots)
    /\ pc \in [Threads -> {"idle", "wait"} \cup Emitting]
    /\ closing \in [Threads -> Slots \cup {None}]
    /\ stale \in [Threads -> BOOLEAN]
    /\ cursor \in Nat \ {0}
    /\ \A t \in Threads : pc[t] \in {"checked", "slot"} => cursor <= Len(slots)
    /\ emits \in 0..MaxEmits /\ settings \in 0..MaxSettings

(* One emission at a time: _emit_lock is owned by exactly the thread that   *)
(* iterates over the slots, and is released however the emission ends, by   *)
(* an exception of a slot too.                                              *)
EmissionOwnsLock ==
    \A t \in Threads : emitLock = t <=> pc[t] \in Emitting

(* A slot is in one place: what connect() made is pending or installed, at  *)
(* one position, or has been destroyed.                                     *)
OnePlace ==
    /\ \A i, j \in 1..Len(slots) : slots[i] = slots[j] => i = j
    /\ pending \cap ToSet(slots) = {}

(* A connection knows whether it has a slot: the two ends of the pair agree *)
(* and a linked slot is in one of the two containers, whatever moves,       *)
(* erasures and clears have happened to it.                                 *)
PairsAgree ==
    \A s \in Slots : /\ conn[s] <=> link[s]
                     /\ link[s] => s \in pending \cup ToSet(slots)

(* Once disconnect() has returned, the slot is not called any more, though  *)
(* it is still in the container when the iteration gets to it.              *)
NoCallAfterDisconnect ==
    \A t \in Threads :
      pc[t] = "checked" /\ active[slots[cursor]] => slots[cursor] \notin gone

(* An emission calls a slot at most once, also when slots before it are     *)
(* erased while the iteration runs.                                         *)
CalledOnce == IsInjective(called)

(* What a slot connects, or another thread, is not called by the emission   *)
(* that is under way.                                                       *)
NoLateSubscriber == ToSet(called) \cap fresh = {}

(* An emission that comes to its end has called every slot that was there   *)
(* from its beginning, and that nobody disconnected or disabled: the        *)
(* erasure of one slot never makes the iteration miss another.              *)
NobodyMissed ==
    \A t \in Threads :
      pc[t] = "scan" /\ cursor > Len(slots) => steady \subseteq ToSet(called)

(* What an emission owes to the slots, in one: each slot that was there and *)
(* stayed is called, none twice, none that came later.                      *)
EmissionExact == CalledOnce /\ NoLateSubscriber /\ NobodyMissed

(* "Slots are invoked in order of their priority" (emit), as long as no     *)
(* priority was changed after its slot was installed.                       *)
PriorityOrder ==
    ~resorted => \A i, j \in 1..Len(called) : i < j => prio[called[i]] <= prio[called[j]]

(* The same for every priority the application has set: when an emission   *)
(* begins, the slots it is going to call are in the order of the priorities *)
(* they have at that moment.                                                *)
AlwaysPriorityOrder ==
    \A t \in Threads :
      pc[t] = "scan" /\ cursor = 1 /\ called = <<>> => Ordered(slots)

(* Every emission comes to an end: no order of emissions, connections,      *)
(* disconnections and clears leaves a thread waiting for the lock.          *)
EveryEmitReturns == \A t \in Threads : pc[t] = "wait" ~> pc[t] = "idle"
=============================================================================

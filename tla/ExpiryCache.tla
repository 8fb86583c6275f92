---------------------------- MODULE ExpiryCache ----------------------------
(***************************************************************************)
(* expiry_cache.hpp: a map whose entries expire, each a time after it was  *)
(* stored or last used, and are announced through signal_data_expired as   *)
(* they leave.  They leave when somebody trips over them, when vacuum() or *)
(* the thread of start_auto_vacuum() collects them, when they are replaced *)
(* or cleared.                                                             *)
(*                                                                         *)
(* Every operation holds _mutex from beginning to end, so each is one step *)
(* here; the exception is stop_auto_vacuum(), which waits inside.  Values  *)
(* are numbered in the order in which they are put.                        *)
(***************************************************************************)
EXTENDS Integers, FiniteSets

CONSTANTS Users, Keys, None,
          Durations,    \* what callers pass for a duration, in clock units
          MaxTime,      \* bound: the clock
          MaxPuts       \* bound: calls of put()

Destructor == "destructor"

ASSUME CacheAssumption ==
    /\ IsFiniteSet(Keys)
    /\ Durations \subseteq Int
    /\ MaxTime \in Nat /\ MaxPuts \in Nat
    /\ Destructor \notin Users /\ None \notin Users \cup {Destructor}

VARIABLES data,        \* _data: what is stored under a key
          mutex,       \* the owner of _mutex across steps
          expiry,      \* _expiry_duration_ms
          prolongs,    \* _access_prolongs
          auto,        \* _auto_vacuum
          cancel,      \* _cancel_auto_vacuum
          vacuumer,    \* where _auto_vacuum_thread stands
          pc,          \* who waits for that thread to end
          life,        \* the destructor
          now

(* How many values were put, and how often each was announced. *)
VARIABLES puts, announced

settings == <<expiry, prolongs>>
thread == <<auto, cancel, vacuumer, pc>>
history == <<puts, announced>>
vars == <<data, mutex, settings, thread, life, now, history>>

Values == 1..MaxPuts

Init == /\ data = <<>> /\ mutex = None
        /\ expiry \in Durations /\ prolongs = FALSE
        /\ auto = FALSE /\ cancel = FALSE /\ vacuumer = "none"
        /\ pc = [t \in Users \cup {Destructor} |-> "idle"]
        /\ life = "alive" /\ now = 0
        /\ puts = 0 /\ announced = [v \in Values |-> 0]

Tick == /\ now < MaxTime
        /\ now' = now + 1
        /\ UNCHANGED <<data, mutex, settings, thread, life, history>>

(* A user is inside the cache, and has its mutex. *)
Use(u) == life = "alive" /\ pc[u] = "idle" /\ mutex = None
-----------------------------------------------------------------------------
Stored == DOMAIN data

Expired(k) == now - data[k].since > data[k].lasts

Removed(K) == [k \in Stored \ K |-> data[k]]

(* signal_data_expired.emit() for the values under the keys K. *)
Announced(K) == [v \in Values |->
                   announced[v] + Cardinality({k \in K \cap Stored : data[k].value = v})]

Erase(K) == data' = Removed(K) /\ announced' = Announced(K)

PutBug(u, k, d) ==    \* what is replaced is not announced
    /\ Use(u) /\ puts < MaxPuts
    /\ puts' = puts + 1
    /\ LET entry == [since |-> now, lasts |-> IF d = 0 THEN expiry ELSE d,
                     value |-> puts + 1]
       IN  data' = [j \in Stored \cup {k} |-> IF j = k THEN entry ELSE data[j]]
    /\ UNCHANGED <<mutex, settings, thread, life, now, announced>>

(* put(): what was there is announced and replaced; no duration means the   *)
(* default one.                                                             *)
Put(u, k, d) ==
    /\ Use(u) /\ puts < MaxPuts
    /\ puts' = puts + 1
    /\ announced' = Announced({k})
    /\ LET entry == [since |-> now, lasts |-> IF d = 0 THEN expiry ELSE d,
                     value |-> puts + 1]
       IN  data' = [j \in Stored \cup {k} |-> IF j = k THEN entry ELSE data[j]]
    /\ UNCHANGED <<mutex, settings, thread, life, now>>

TouchedBug(k) == data' = [data EXCEPT ![k].since = now + data[k].lasts]

(* touch(), and get() of an entry that it returns. *)
Touched(k) == data' = [data EXCEPT ![k].since = now]

Touch(u, k, force) ==
    /\ Use(u) /\ k \in Stored /\ (prolongs \/ force)
    /\ Touched(k)
    /\ UNCHANGED <<mutex, settings, thread, life, now, history>>

(* get(): while a thread vacuums, what has expired is still returned. *)
Get(u, k) ==
    /\ Use(u) /\ k \in Stored
    /\ CASE ~auto /\ Expired(k) -> Erase({k})
         [] prolongs /\ (auto \/ ~Expired(k)) -> Touched(k) /\ UNCHANGED announced
         [] OTHER -> UNCHANGED <<data, announced>>
    /\ UNCHANGED <<mutex, settings, thread, life, now, puts>>

SetExpiry(u, k, d) ==
    /\ Use(u) /\ k \in Stored
    /\ data' = [data EXCEPT ![k].lasts = d]
    /\ UNCHANGED <<mutex, settings, thread, life, now, history>>

SetDefaultExpiry(d) ==
    /\ life = "alive"
    /\ expiry' = d
    /\ UNCHANGED <<data, mutex, prolongs, thread, life, now, history>>

SetAccessProlongs(b) ==
    /\ life = "alive"
    /\ prolongs' = b
    /\ UNCHANGED <<data, mutex, expiry, thread, life, now, history>>

CollectedBug == {k \in Stored : now - data[k].since >= data[k].lasts}

(* What _vacuum() collects. *)
Collected == {k \in Stored : Expired(k)}

Vacuum(u) ==
    /\ Use(u)
    /\ Erase(Collected)
    /\ UNCHANGED <<mutex, settings, thread, life, now, puts>>

(* clear(): the expired entries are announced first, then all others. *)
Clear(u) ==
    /\ Use(u)
    /\ Erase(Stored)
    /\ UNCHANGED <<mutex, settings, thread, life, now, puts>>
-----------------------------------------------------------------------------
(* start_auto_vacuum(), and stop_auto_vacuum(), which joins the thread with *)
(* the mutex in its hands.                                                  *)
StartAutoVacuum(u) ==
    /\ Use(u) /\ ~auto
    /\ auto' = TRUE
    /\ vacuumer' = "test"
    /\ UNCHANGED <<data, mutex, settings, cancel, pc, life, now, history>>

StopAutoVacuum(t) ==
    /\ mutex = None /\ auto /\ pc[t] = "idle"
    /\ life = IF t = Destructor THEN "stop" ELSE "alive"
    /\ mutex' = t
    /\ cancel' = TRUE
    /\ pc' = [pc EXCEPT ![t] = "join"]
    /\ UNCHANGED <<data, settings, auto, vacuumer, life, now, history>>

AutoVacuumStoppedBug(t) ==    \* _cancel_auto_vacuum is left as it is
    /\ pc[t] = "join" /\ vacuumer = "ended"
    /\ vacuumer' = "none"
    /\ auto' = FALSE
    /\ mutex' = None
    /\ pc' = [pc EXCEPT ![t] = "idle"]
    /\ UNCHANGED <<data, settings, cancel, life, now, history>>

AutoVacuumStopped(t) ==
    /\ pc[t] = "join" /\ vacuumer = "ended"
    /\ vacuumer' = "none"
    /\ auto' = FALSE /\ cancel' = FALSE
    /\ mutex' = None
    /\ pc' = [pc EXCEPT ![t] = "idle"]
    /\ UNCHANGED <<data, settings, life, now, history>>
-----------------------------------------------------------------------------
(* _auto_vacuum_procedure(): whether the idle period is over since the last *)
(* time is left open.                                                       *)
VacuumerAt(here, there) ==
    /\ vacuumer = here
    /\ vacuumer' = there
    /\ UNCHANGED <<data, mutex, settings, auto, cancel, pc, life, now, history>>

VacuumerDue == ~cancel /\ VacuumerAt("test", "vacuum")

VacuumerTest == VacuumerAt("test", IF cancel THEN "ended" ELSE "retest")

VacuumerVacuum ==
    /\ vacuumer = "vacuum" /\ mutex = None
    /\ vacuumer' = "retest"
    /\ Erase(Collected)
    /\ UNCHANGED <<mutex, settings, auto, cancel, pc, life, now, puts>>

VacuumerRetestBug == VacuumerAt("retest", "ended")

VacuumerRetest == VacuumerAt("retest", IF cancel THEN "ended" ELSE "sleep")

VacuumerWake == VacuumerAt("sleep", "test")
-----------------------------------------------------------------------------
(* The destructor: stop_auto_vacuum() and clear(). *)
Destroy ==
    /\ life = "alive" /\ \A t \in Users : pc[t] = "idle"
    /\ life' = "stop"
    /\ UNCHANGED <<data, mutex, settings, thread, now, history>>

Destroyed ==
    /\ life = "stop" /\ ~auto /\ mutex = None
    /\ Erase(Stored)
    /\ life' = "dead"
    /\ UNCHANGED <<mutex, settings, thread, now, puts>>
-----------------------------------------------------------------------------
UserStep(u) ==
    \/ Vacuum(u) \/ Clear(u) \/ StartAutoVacuum(u)
    \/ \E k \in Keys : \/ Get(u, k)
                       \/ \E force \in BOOLEAN : Touch(u, k, force)
                       \/ \E d \in Durations : Put(u, k, d) \/ SetExpiry(u, k, d)

Vacuumer == \/ VacuumerDue \/ VacuumerTest \/ VacuumerVacuum
            \/ VacuumerRetest \/ VacuumerWake

Next == \/ Tick
        \/ \E u \in Users : UserStep(u)
        \/ \E t \in Users \cup {Destructor} : StopAutoVacuum(t) \/ AutoVacuumStopped(t)
        \/ \E d \in Durations : SetDefaultExpiry(d)
        \/ \E b \in BOOLEAN : SetAccessProlongs(b)
        \/ Vacuumer
        \/ Destroy \/ Destroyed

Spec == Init /\ [][Next]_vars

(* The thread runs whenever it can, and time passes, so that the idle       *)
(* period is over again and again; a stop, once begun, and the destructor   *)
(* go on.  Nobody has to use, stop or destroy the cache.                    *)
FairSpec ==
    /\ Spec
    /\ WF_vars(Vacuumer) /\ SF_vars(VacuumerDue)
    /\ \A t \in Users \cup {Destructor} : WF_vars(AutoVacuumStopped(t))
    /\ WF_vars(StopAutoVacuum(Destructor)) /\ WF_vars(Destroyed)
-----------------------------------------------------------------------------
TypeOK ==
    /\ Stored \subseteq Keys
    /\ \A k \in Stored : data[k] \in [since : 0..now, lasts : Int, value : 1..puts]
    /\ mutex \in Users \cup {Destructor, None}
    /\ expiry \in Int /\ prolongs \in BOOLEAN
    /\ auto \in BOOLEAN /\ cancel \in BOOLEAN
    /\ vacuumer \in {"none", "test", "vacuum", "retest", "sleep", "ended"}
    /\ pc \in [Users \cup {Destructor} -> {"idle", "join"}]
    /\ life \in {"alive", "stop", "dead"}
    /\ now \in 0..MaxTime /\ puts \in 0..MaxPuts
    /\ announced \in [Values -> Nat]

(* A value that was put is in the cache or was announced, and not both or   *)
(* twice: a listener that frees what it is told of frees each value once,   *)
(* and the last ones when the cache is destroyed.                           *)
Keeping(v) == {k \in Stored : data[k].value = v}

AnnouncedOnce ==
    /\ \A v \in 1..puts : announced[v] + Cardinality(Keeping(v)) = 1
    /\ life = "dead" => Stored = {}

(* The flag tells whether there is a thread: one is never started over      *)
(* another that was not joined, nor with the cancellation of the one before *)
(* still set.                                                               *)
FlagMeansThread ==
    /\ auto <=> vacuumer # "none"
    /\ cancel <=> mutex # None
    /\ \A t \in Users \cup {Destructor} : pc[t] = "join" <=> mutex = t

(* An entry stays for as long as it lasts, counted from when it was stored  *)
(* or used, unless it is replaced or cleared.                               *)
NeverEarly ==
    [][ \A k \in Stored : k \notin DOMAIN data' =>
          \/ now - data[k].since > data[k].lasts
          \/ Destroyed \/ \E u \in Users : Clear(u) ]_vars

(* With the thread at work, what has expired does not stay.                 *)
Overdue(k) == k \in Stored /\ Expired(k)

AutoVacuumCollects ==
    \A k \in Keys : auto /\ Overdue(k) ~> ~Overdue(k) \/ cancel \/ life # "alive"

(* The destructor returns. *)
DestructionEnds == life # "alive" ~> life = "dead"
=============================================================================

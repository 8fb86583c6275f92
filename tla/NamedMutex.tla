------------------------------ MODULE NamedMutex ------------------------------
(***************************************************************************)
(* global_named_mutex on Unix: objects of several processes that share one *)
(* segment of memory by its name, and the threads that lock through them.  *)
(* The segment holds a byte that says it is usable, a mutex over a count   *)
(* of its users, and a semaphore of at most one token, which is a count, a *)
(* condition and a mutex of its own.  The segment is never removed, so it  *)
(* outlives its users, and a process may die anywhere, also with one of    *)
(* the two mutexes in its hands: neither is robust.                        *)
(***************************************************************************)
EXTENDS Integers, FiniteSets

CONSTANTS Objects,     \* the global_named_mutex objects, one process each
          Threads,     \* the threads that use them
          Home,        \* the object a thread uses
          None,        \* nobody
          MaxCalls,    \* bound: calls of lock() and of create() on an object in use
          MaxCrashes,  \* bound: processes that die
          Reopen,      \* the name may be created again when nobody uses it
          Renew        \* create() may be called on an object its caller has locked

ASSUME ObjectsAssumption == IsFiniteSet(Objects)
ASSUME HomeAssumption == Home \in [Threads -> Objects]
ASSUME NoneAssumption == None \notin Objects \cup Threads
ASSUME BoundsAssumption == MaxCalls \in Nat /\ MaxCrashes \in Nat
ASSUME UsesAssumption == Reopen \in BOOLEAN /\ Renew \in BOOLEAN

VARIABLES exists,  \* the segment exists
          byte,    \* its first byte
          shm,     \* who holds its mutex
          ref,     \* the users it counts
          sem,     \* the tokens of its semaphore; below zero: the counter has wrapped
          inner,   \* the thread that holds the mutex of the semaphore
          life,    \* what an object is doing with the segment
          seen,    \* the count an object has read and not yet written back
          first,   \* the object that made the segment
          owner,   \* _owner_id
          depth,   \* _count
          pc,      \* where a thread stands in lock() or unlock()
          mode,    \* how long it is ready to wait
          left,    \* the calls of lock() and create() that are still made
          dead     \* the objects whose process has died

segment == <<exists, byte, shm, ref>>
semaphore == <<sem, inner>>
object == <<life, seen, first>>
locals == <<owner, depth>>
calls == <<pc, mode, left>>
vars == <<segment, semaphore, object, locals, calls, dead>>

Modes == {"forever", "timed", "try"}
Users(o) == {t \in Threads : Home[t] = o}
Alive(t) == Home[t] \notin dead

(* Nobody is inside the object.                                             *)
Quiet(o) == \A t \in Users(o) : pc[t] = "idle"

(* _critical_section is free: unlock() keeps it while it gives the token.   *)
Unheld(o) == \A t \in Users(o) : pc[t] \notin {"posting", "giving"}

Goto(t, place) == pc' = [pc EXCEPT ![t] = place]

Init ==
  /\ exists = FALSE /\ byte = FALSE /\ shm = None /\ ref = 0
  /\ sem = 0 /\ inner = None
  /\ life = [o \in Objects |-> "new"] /\ seen = [o \in Objects |-> 0] /\ first = None
  /\ owner = [o \in Objects |-> None] /\ depth = [o \in Objects |-> 0]
  /\ pc = [t \in Threads |-> "idle"] /\ mode = [t \in Threads |-> "forever"]
  /\ left = MaxCalls
  /\ dead = {}
-----------------------------------------------------------------------------
(* create(): shm_open() with O_EXCL makes the segment for one object, and   *)
(* the others find it there.                                                *)
Open(o) ==
  /\ life[o] = "new" /\ o \notin dead
  /\ exists' = TRUE
  /\ life' = [life EXCEPT ![o] = IF exists THEN "found" ELSE "made"]
  /\ first' = IF exists THEN first ELSE o
  /\ UNCHANGED <<byte, shm, ref, semaphore, seen, locals, calls, dead>>

(* The maker initialises the mutex, takes it, and lets the others see the   *)
(* segment.                                                                 *)
Publish(o) ==
  /\ life[o] = "made" /\ o \notin dead
  /\ shm' = o /\ byte' = TRUE /\ ref' = 1
  /\ life' = [life EXCEPT ![o] = "blank"]
  /\ UNCHANGED <<exists, semaphore, seen, first, locals, calls, dead>>

(* Another object spins on the byte, waits for the mutex and reads the      *)
(* count; with none, the memory of the semaphore is cleared.                *)
Enter(o) ==
  /\ life[o] = "found" /\ o \notin dead
  /\ byte /\ shm = None
  /\ shm' = o /\ seen' = [seen EXCEPT ![o] = ref]
  /\ IF ref = 0 THEN sem' = 0 /\ inner' = None ELSE UNCHANGED semaphore
  /\ life' = [life EXCEPT ![o] = "counting"]
  /\ UNCHANGED <<exists, byte, ref, first, locals, calls, dead>>

CountInBug(o) ==   \* every object sets the semaphore up
  /\ life[o] = "counting" /\ o \notin dead
  /\ ref' = seen[o] + 1 /\ shm' = None
  /\ life' = [life EXCEPT ![o] = "blank"]
  /\ UNCHANGED <<exists, byte, semaphore, seen, first, locals, calls, dead>>

(* It writes the count and unlocks; the first user goes on to set the       *)
(* semaphore up, without the mutex.                                         *)
CountIn(o) ==
  /\ life[o] = "counting" /\ o \notin dead
  /\ ref' = seen[o] + 1 /\ shm' = None
  /\ life' = [life EXCEPT ![o] = IF seen[o] > 0 THEN "open" ELSE "blank"]
  /\ UNCHANGED <<exists, byte, semaphore, seen, first, locals, calls, dead>>

(* init_unix_semaphore() with one token.  Threads that sleep on the         *)
(* condition when it is initialised again may or may not be reached         *)
(* afterwards.                                                              *)
Initialise ==
  /\ sem' = 1 /\ inner' = None
  /\ \E lost \in SUBSET {t \in Threads : pc[t] = "asleep"} :
       pc' = [t \in Threads |-> IF t \in lost THEN "lost" ELSE pc[t]]

(* unix_named_mem_ready() unlocks the mutex, whoever has it.                *)
Ready == shm' = None

(* The end of create() for the first user. *)
SetUp(o) ==
  /\ life[o] = "blank" /\ o \notin dead
  /\ Initialise /\ Ready
  /\ life' = [life EXCEPT ![o] = "open"]
  /\ UNCHANGED <<exists, byte, ref, seen, first, locals, mode, left, dead>>

(* create() on an object in use.  One that its caller has locked is unmapped*)
(* first, with the token; one that nobody has locked is left mapped.  That  *)
(* no other thread is inside the object is a rule for its users, which      *)
(* create() does not check: it would change or unmap the semaphore under    *)
(* them.                                                                    *)
CreateAgain(t) ==
  LET o == Home[t] IN
  /\ life[o] = "open" /\ Alive(t) /\ Quiet(o) /\ left > 0
  /\ owner[o] = None \/ (Renew /\ owner[o] = t)
  /\ left' = left - 1
  /\ life' = [life EXCEPT ![o] = IF owner[o] = t THEN "renewing" ELSE "new"]
  /\ owner' = [owner EXCEPT ![o] = None] /\ depth' = [depth EXCEPT ![o] = 0]
  /\ UNCHANGED <<segment, semaphore, seen, first, pc, mode, dead>>
-----------------------------------------------------------------------------
(* lock(): the owner locks again; anyone else goes to the semaphore.        *)
Lock(t) ==
  LET o == Home[t] IN
  /\ life[o] = "open" /\ Alive(t) /\ pc[t] = "idle" /\ Unheld(o) /\ left > 0
  /\ left' = left - 1
  /\ IF owner[o] = t
     THEN /\ depth' = [depth EXCEPT ![o] = @ + 1]
          /\ UNCHANGED <<pc, mode>>
     ELSE /\ \E m \in Modes : mode' = [mode EXCEPT ![t] = m]
          /\ Goto(t, "waiting")
          /\ UNCHANGED depth
  /\ UNCHANGED <<segment, semaphore, object, owner, dead>>

(* The mutex of the semaphore is taken: at the beginning of a wait, by      *)
(* pthread_cond_wait() on its way back, in time or late, and to give the    *)
(* token.                                                                   *)
Acquire(t) ==
  /\ Alive(t) /\ inner = None /\ inner' = t
  /\ \/ pc[t] \in {"waiting", "woken"} /\ Goto(t, "inside")
     \/ pc[t] = "late" /\ Goto(t, "leaving")
     \/ pc[t] = "posting" /\ Goto(t, "giving")
  /\ UNCHANGED <<segment, sem, object, locals, mode, left, dead>>

(* A try gives up when just this mutex is taken.                            *)
TryFails(t) ==
  /\ Alive(t) /\ pc[t] = "waiting" /\ mode[t] = "try" /\ inner # None
  /\ Goto(t, "idle") /\ mode' = [mode EXCEPT ![t] = "forever"]
  /\ UNCHANGED <<segment, semaphore, object, locals, left, dead>>

(* wait_for_unix_semaphore() with its mutex: there is a token, or a try is  *)
(* over, or the thread goes to sleep on the condition, which unlocks.       *)
Look(t) ==
  /\ Alive(t) /\ pc[t] = "inside"
  /\ \/ sem # 0 /\ Goto(t, "taking") /\ UNCHANGED inner
     \/ sem = 0 /\ mode[t] = "try" /\ Goto(t, "leaving") /\ UNCHANGED inner
     \/ sem = 0 /\ mode[t] # "try" /\ Goto(t, "asleep") /\ inner' = None
  /\ UNCHANGED <<segment, sem, object, locals, mode, left, dead>>

(* The token is taken and the mutex unlocked.  A death between the two is   *)
(* one before them: the token and the mutex are gone for good either way.   *)
Take(t) ==
  /\ Alive(t) /\ pc[t] = "taking"
  /\ sem' = sem - 1 /\ inner' = None /\ Goto(t, "got")
  /\ UNCHANGED <<segment, object, locals, mode, left, dead>>

(* The time of a timed wait is over.                                        *)
Timeout(t) ==
  /\ Alive(t) /\ pc[t] = "asleep" /\ mode[t] = "timed"
  /\ Goto(t, "late")
  /\ UNCHANGED <<segment, semaphore, object, locals, mode, left, dead>>

(* lock() returns false.                                                    *)
Leave(t) ==
  /\ Alive(t) /\ pc[t] = "leaving"
  /\ inner' = None /\ Goto(t, "idle") /\ mode' = [mode EXCEPT ![t] = "forever"]
  /\ UNCHANGED <<segment, sem, object, locals, left, dead>>

(* The end of lock(): the object learns its owner.                          *)
Own(t) ==
  /\ Alive(t) /\ pc[t] = "got" /\ Unheld(Home[t])
  /\ Goto(t, "idle") /\ mode' = [mode EXCEPT ![t] = "forever"]
  /\ owner' = [owner EXCEPT ![Home[t]] = t] /\ depth' = [depth EXCEPT ![Home[t]] = 1]
  /\ UNCHANGED <<segment, semaphore, object, left, dead>>
-----------------------------------------------------------------------------
UnlockBug(t, all) ==   \* "all" sets the count to zero before it is decreased
  LET o == Home[t]
      rest == IF all THEN 0 - 1 ELSE depth[o] - 1 IN
  /\ life[o] = "open" /\ Alive(t) /\ pc[t] = "idle" /\ Unheld(o) /\ owner[o] = t
  /\ depth' = [depth EXCEPT ![o] = rest]
  /\ IF rest = 0
     THEN owner' = [owner EXCEPT ![o] = None] /\ Goto(t, "posting")
     ELSE UNCHANGED <<owner, pc>>
  /\ UNCHANGED <<segment, semaphore, object, mode, left, dead>>

(* unlock(), which does nothing for a thread that is not the owner.  The    *)
(* last one gives the token with _critical_section locked.                  *)
Unlock(t, all) ==
  LET o == Home[t]
      rest == IF all THEN 0 ELSE depth[o] - 1 IN
  /\ life[o] = "open" /\ Alive(t) /\ pc[t] = "idle" /\ Unheld(o) /\ owner[o] = t
  /\ depth' = [depth EXCEPT ![o] = rest]
  /\ IF rest = 0
     THEN owner' = [owner EXCEPT ![o] = None] /\ Goto(t, "posting")
     ELSE UNCHANGED <<owner, pc>>
  /\ UNCHANGED <<segment, semaphore, object, mode, left, dead>>

ReleaseBug(t) ==   \* nobody is signalled
  /\ Alive(t) /\ pc[t] = "giving"
  /\ sem' = 1 /\ inner' = None /\ Goto(t, "idle")
  /\ UNCHANGED <<segment, object, locals, mode, left, dead>>

(* release_unix_semaphore() with its mutex: a token, of one at most, and a  *)
(* signal to one thread of those that sleep, of any process, living or dead.*)
(* A counter that has wrapped comes back to zero, or is above the maximum.  *)
Release(t) ==
  /\ Alive(t) /\ pc[t] = "giving"
  /\ sem' = (IF sem = -1 THEN 0 ELSE 1) /\ inner' = None
  /\ LET asleep == {u \in Threads : pc[u] = "asleep"} IN
     IF asleep = {} THEN Goto(t, "idle")
     ELSE \E u \in asleep : pc' = [pc EXCEPT ![t] = "idle", ![u] = "woken"]
  /\ UNCHANGED <<segment, object, locals, mode, left, dead>>
-----------------------------------------------------------------------------
(* The destructor: unlock(true), then unmap_unix_named_mem().  Its thread   *)
(* is the only one that still uses the object; unless names are reopened,   *)
(* the object that made the segment goes last.                              *)
Destroy(t) ==
  LET o == Home[t] IN
  /\ life[o] = "open" /\ Alive(t) /\ Quiet(o) /\ owner[o] \in {None, t}
  /\ Reopen \/ first # o \/ \A p \in Objects \ {o} : p \in dead \/ life[p] = "gone"
  /\ life' = [life EXCEPT ![o] = "closing"]
  /\ owner' = [owner EXCEPT ![o] = None] /\ depth' = [depth EXCEPT ![o] = 0]
  /\ IF owner[o] = t THEN Goto(t, "posting") ELSE UNCHANGED pc
  /\ UNCHANGED <<segment, semaphore, seen, first, mode, left, dead>>

StartUnmap(o) ==
  /\ life[o] \in {"closing", "renewing"} /\ o \notin dead /\ Quiet(o) /\ shm = None
  /\ shm' = o /\ seen' = [seen EXCEPT ![o] = ref]
  /\ life' = [life EXCEPT ![o] = IF @ = "closing" THEN "leaving" ELSE "dropping"]
  /\ UNCHANGED <<exists, byte, ref, semaphore, first, locals, calls, dead>>

CountOut(o) ==
  /\ life[o] \in {"leaving", "dropping"} /\ o \notin dead
  /\ ref' = (IF seen[o] > 0 THEN seen[o] - 1 ELSE 0) /\ shm' = None
  /\ life' = [life EXCEPT ![o] = IF @ = "leaving" THEN "gone" ELSE "new"]
  /\ UNCHANGED <<exists, byte, semaphore, seen, first, locals, calls, dead>>

(* A process dies; what it shares stays as it is.                           *)
Crash(o) ==
  /\ o \notin dead /\ Cardinality(dead) < MaxCrashes
  /\ dead' = dead \cup {o}
  /\ UNCHANGED <<segment, semaphore, object, locals, calls>>

ObjectStep(o) ==
  Open(o) \/ Publish(o) \/ Enter(o) \/ CountIn(o) \/ SetUp(o) \/ StartUnmap(o) \/ CountOut(o)

(* What a thread that is inside lock() or unlock() does next.               *)
Proceed(t) ==
  Acquire(t) \/ TryFails(t) \/ Look(t) \/ Take(t) \/ Leave(t) \/ Own(t) \/ Release(t)

ThreadStep(t) == Proceed(t) \/ Timeout(t)

Next ==
  \/ \E o \in Objects : ObjectStep(o) \/ Crash(o)
  \/ \E t \in Threads : ThreadStep(t) \/ Lock(t) \/ CreateAgain(t) \/ Destroy(t)
  \/ \E t \in Threads, all \in BOOLEAN : Unlock(t, all)

Spec == Init /\ [][Next]_vars

(* create() and lock() are run to their end, and what is locked is unlocked *)
(* some time by a process that lives.                                       *)
Fairness ==
  /\ \A o \in Objects : WF_vars(Publish(o) \/ Enter(o) \/ CountIn(o) \/ SetUp(o)
                                 \/ StartUnmap(o) \/ CountOut(o))
  /\ \A t \in Threads : WF_vars(Proceed(t)) /\ WF_vars(\E all \in BOOLEAN : Unlock(t, all))

FairSpec == Spec /\ Fairness
-----------------------------------------------------------------------------
Lives == {"new", "made", "found", "counting", "blank", "open", "renewing", "dropping",
          "closing", "leaving", "gone"}

Places == {"idle", "waiting", "woken", "late", "inside", "taking", "leaving", "asleep", "lost",
           "got", "posting", "giving"}

TypeOK ==
  /\ exists \in BOOLEAN /\ byte \in BOOLEAN /\ shm \in Objects \cup {None}
  /\ ref \in Nat /\ sem \in Int /\ inner \in Threads \cup {None}
  /\ life \in [Objects -> Lives] /\ seen \in [Objects -> Nat] /\ first \in Objects \cup {None}
  /\ owner \in [Objects -> Threads \cup {None}]
  /\ depth \in [Objects -> Nat]
  /\ pc \in [Threads -> Places]
  /\ mode \in [Threads -> Modes] /\ left \in Nat
  /\ dead \subseteq Objects

(* A thread has the lock from the token it takes to the token it gives.     *)
Holds(t) == pc[t] \in {"got", "posting", "giving"} \/ owner[Home[t]] = t

(* Of all threads of all processes one at most has the mutex, also while    *)
(* its name is being created by several of them and when some have died:    *)
(* nobody can take a token that somebody has.                               *)
OneHolder ==
  /\ \A t, u \in Threads : Holds(t) /\ Holds(u) => t = u
  /\ \A t \in Threads : Holds(t) => sem = 0

(* A death that leaves the others something to wait for: of the maker       *)
(* before the semaphore is there, of whoever is at the count of users, of   *)
(* the holder, of a thread that has the mutex of the semaphore, and of one  *)
(* that sleeps on the condition or has been woken, which takes a signal     *)
(* from the others.                                                         *)
Fatal ==
  \E o \in dead :
    \/ life[o] \in {"made", "blank", "counting", "leaving", "dropping"}
    \/ \E t \in Users(o) : Holds(t) \/ inner = t \/ pc[t] \in {"asleep", "woken"}

(* Unless such a death happens, every lock() and unlock() returns and every *)
(* create() is run to its end, whatever the other processes do and wherever *)
(* they die.                                                                *)
CallsReturn ==
  <>Fatal \/ /\ \A t \in Threads : [](Alive(t) /\ pc[t] # "idle"
                                        => <>(pc[t] = "idle" \/ ~Alive(t)))
             /\ \A o \in Objects : [](life[o] = "found" => <>(life[o] = "open" \/ o \in dead))
=============================================================================

--------------------------- MODULE NamedMutexProofs ---------------------------
(***************************************************************************)
(* For any number of processes, threads and deaths: at most one thread has *)
(* the named mutex, and nobody waits for a step that nobody can take, as   *)
(* long as nobody is at the count of users while the semaphore is set up.  *)
(*                                                                         *)
(* The count of users is what decides whether the semaphore is set up, so  *)
(* the invariants say that it never falls to zero while anybody is there:  *)
(* its mutex protects it, and it is at least the number of those that have *)
(* counted themselves in, the dead among them.                             *)
(***************************************************************************)
EXTENDS NamedMutex, TLAPS, FiniteSetTheorems

(* What the making of the segment means for everybody.                      *)
Making ==
  /\ first = None <=> ~exists
  /\ exists \/ (~byte /\ \A o \in Objects : life[o] = "new")
  /\ byte \/ (sem = 0 /\ \A o \in Objects : life[o] \in {"new", "found", "made"})
  /\ \A o \in Objects : life[o] = "made" => ~byte /\ o = first
  /\ exists /\ ~byte => life[first] = "made"

(* Only what is open is locked, and by a thread that uses it; the thread    *)
(* that destroys an object may still give its token, and who is inside a    *)
(* call is not the owner.                                                   *)
LockedIsOpen ==
  /\ \A t \in Threads : pc[t] # "idle" =>
       /\ \/ life[Home[t]] = "open"
          \/ life[Home[t]] = "closing" /\ pc[t] \in {"posting", "giving"}
       /\ owner[Home[t]] # t
  /\ \A o \in Objects : owner[o] # None =>
       life[o] = "open" /\ Home[owner[o]] = o /\ depth[o] > 0

Base == TypeOK /\ LockedIsOpen /\ Making
-----------------------------------------------------------------------------
(* The steps of a thread inside lock() and unlock().                        *)
CallStep(t) == ThreadStep(t) \/ Lock(t) \/ \E all \in BOOLEAN : Unlock(t, all)

LEMMA CallsLeaveTheRest ==
  ASSUME NEW t \in Threads, CallStep(t)
  PROVE  UNCHANGED <<exists, byte, shm, ref, life, seen, first, dead>>
  <1> USE DEF segment, object
  <1>1. CASE ThreadStep(t)
    BY <1>1 DEF ThreadStep, Proceed, Acquire, TryFails, Look, Take, Leave, Own, Release, Timeout
  <1>2. CASE Lock(t)
    BY <1>2 DEF Lock
  <1>3. CASE \E all \in BOOLEAN : Unlock(t, all)
    BY <1>3 DEF Unlock
  <1> QED BY <1>1, <1>2, <1>3 DEF CallStep

LEMMA TypeNext == Base /\ [Next]_vars => TypeOK'
  <1> SUFFICES ASSUME Base, [Next]_vars PROVE TypeOK'
    OBVIOUS
  <1> USE HomeAssumption, NoneAssumption DEF Base, TypeOK, Lives, Modes,
          segment, semaphore, object, locals, calls, Places
  <1>1. ASSUME NEW o \in Objects, Open(o) PROVE TypeOK'
    <2>1. life' \in [Objects -> Lives]
      BY <1>1 DEF Open
    <2>2. first' \in Objects \cup {None} /\ exists' = TRUE
      BY <1>1 DEF Open
    <2> QED BY <1>1, <2>1, <2>2 DEF Open
  <1>2. ASSUME NEW o \in Objects, Publish(o) PROVE TypeOK'
    BY <1>2 DEF Publish
  <1>3. ASSUME NEW o \in Objects, Enter(o) \/ StartUnmap(o) PROVE TypeOK'
    BY <1>3 DEF Enter, StartUnmap
  <1>4. ASSUME NEW o \in Objects, CountIn(o) PROVE TypeOK'
    BY <1>4 DEF CountIn
  <1>5. ASSUME NEW o \in Objects, SetUp(o) PROVE TypeOK'
    BY <1>5 DEF SetUp, Initialise, Ready
  <1>6. ASSUME NEW o \in Objects, CountOut(o) PROVE TypeOK'
    <2>1. seen[o] \in Nat
      OBVIOUS
    <2> QED BY <1>6, <2>1 DEF CountOut
  <1>7. ASSUME NEW o \in Objects, Crash(o) PROVE TypeOK'
    BY <1>7 DEF Crash
  <1>8. ASSUME NEW t \in Threads, ThreadStep(t) PROVE TypeOK'
    <2>1. ASSUME Acquire(t) \/ TryFails(t) PROVE TypeOK'
      BY <2>1 DEF Acquire, TryFails, Goto
    <2>2. ASSUME Look(t) PROVE TypeOK'
      BY <2>2 DEF Look, Goto
    <2>3. ASSUME Take(t) \/ Leave(t) \/ Own(t) \/ Timeout(t) PROVE TypeOK'
      BY <2>3 DEF Take, Leave, Own, Timeout, Goto
    <2>4. ASSUME Release(t) PROVE TypeOK'
      BY <2>4 DEF Release, Goto
    <2> QED BY <1>8, <2>1, <2>2, <2>3, <2>4 DEF ThreadStep, Proceed
  <1>9. ASSUME NEW t \in Threads, Lock(t) PROVE TypeOK'
    BY <1>9 DEF Lock, Goto
  <1>10. ASSUME NEW t \in Threads, CreateAgain(t) PROVE TypeOK'
    BY <1>10 DEF CreateAgain
  <1>11. ASSUME NEW t \in Threads, Destroy(t) PROVE TypeOK'
    BY <1>11 DEF Destroy, Goto
  <1>12. ASSUME NEW t \in Threads, NEW all \in BOOLEAN, Unlock(t, all) PROVE TypeOK'
    <2>1. depth[Home[t]] \in Nat /\ depth[Home[t]] > 0
      BY <1>12 DEF Unlock, LockedIsOpen
    <2>2. depth' \in [Objects -> Nat]
      BY <1>12, <2>1 DEF Unlock
    <2> QED BY <1>12, <2>2 DEF Unlock, Goto
  <1>13. CASE UNCHANGED vars
    BY <1>13 DEF vars
  <1> QED BY <1>1, <1>2, <1>3, <1>4, <1>5, <1>6, <1>7, <1>8, <1>9, <1>10, <1>11, <1>12,
             <1>13 DEF Next, ObjectStep, CallStep

LEMMA LockedIsOpenNext == Base /\ [Next]_vars => LockedIsOpen'
  <1> SUFFICES ASSUME Base, [Next]_vars PROVE LockedIsOpen'
    OBVIOUS
  <1> USE HomeAssumption, NoneAssumption DEF Base, TypeOK, LockedIsOpen,
          segment, semaphore, object, locals, calls
  <1>1. ASSUME NEW o \in Objects, Open(o) \/ Publish(o) \/ Enter(o) PROVE LockedIsOpen'
    BY <1>1 DEF Open, Publish, Enter
  <1>2. ASSUME NEW o \in Objects, StartUnmap(o) PROVE LockedIsOpen'
    BY <1>2 DEF StartUnmap, Quiet, Users
  <1>3. ASSUME NEW o \in Objects, CountIn(o) PROVE LockedIsOpen'
    BY <1>3 DEF CountIn
  <1>4. ASSUME NEW o \in Objects, SetUp(o) PROVE LockedIsOpen'
    <2>1. \A t \in Threads : pc'[t] # pc[t] => pc[t] = "asleep"
      BY <1>4 DEF SetUp, Initialise
    <2>2. /\ life' = [life EXCEPT ![o] = "open"] /\ life[o] = "blank"
          /\ UNCHANGED <<owner, depth>>
      BY <1>4 DEF SetUp
    <2>3. \A t \in Threads : pc'[t] \in {"posting", "giving"} => pc[t] = pc'[t]
      BY <1>4 DEF SetUp, Initialise
    <2> QED BY <2>1, <2>2, <2>3
  <1>5. ASSUME NEW o \in Objects, CountOut(o) \/ Crash(o) PROVE LockedIsOpen'
    BY <1>5 DEF CountOut, Crash
  <1>6. ASSUME NEW t \in Threads, ThreadStep(t) PROVE LockedIsOpen'
    <2>1. ASSUME Acquire(t) \/ TryFails(t) PROVE LockedIsOpen'
      BY <2>1 DEF Acquire, TryFails, Goto
    <2>2. ASSUME Look(t) PROVE LockedIsOpen'
      BY <2>2 DEF Look, Goto
    <2>3. ASSUME Take(t) \/ Leave(t) \/ Timeout(t) PROVE LockedIsOpen'
      BY <2>3 DEF Take, Leave, Timeout, Goto
    <2>4. ASSUME Own(t) PROVE LockedIsOpen'
      BY <2>4 DEF Own, Goto
    <2>5. ASSUME Release(t) PROVE LockedIsOpen'
      BY <2>5 DEF Release, Goto
    <2> QED BY <1>6, <2>1, <2>2, <2>3, <2>4, <2>5 DEF ThreadStep, Proceed
  <1>8. ASSUME NEW t \in Threads, Lock(t) PROVE LockedIsOpen'
    <2>1. CASE owner[Home[t]] = t
      BY <1>8, <2>1 DEF Lock
    <2>2. CASE owner[Home[t]] # t
      BY <1>8, <2>2 DEF Lock, Goto
    <2> QED BY <2>1, <2>2
  <1>9. ASSUME NEW t \in Threads, CreateAgain(t) PROVE LockedIsOpen'
    <2>1. /\ Home[t] \in Objects /\ owner' = [owner EXCEPT ![Home[t]] = None]
          /\ depth' = [depth EXCEPT ![Home[t]] = 0] /\ pc' = pc
          /\ life' \in [Objects -> Lives]
          /\ \A p \in Objects : p # Home[t] => life'[p] = life[p]
          /\ \A u \in Threads : Home[u] = Home[t] => pc[u] = "idle"
      BY <1>9 DEF CreateAgain, Quiet, Users, Lives
    <2> QED BY <2>1
  <1>10. ASSUME NEW t \in Threads, Destroy(t) PROVE LockedIsOpen'
    <2>1. \A u \in Threads : pc'[u] = pc[u] \/ (u = t /\ pc'[u] = "posting")
      BY <1>10 DEF Destroy, Goto
    <2>2. Home[t] \in Objects /\ owner' = [owner EXCEPT ![Home[t]] = None]
          /\ depth' = [depth EXCEPT ![Home[t]] = 0]
          /\ life' = [life EXCEPT ![Home[t]] = "closing"]
          /\ \A u \in Threads : Home[u] = Home[t] => pc[u] = "idle"
      BY <1>10 DEF Destroy, Quiet, Users
    <2> QED BY <2>1, <2>2
  <1>11. ASSUME NEW t \in Threads, NEW all \in BOOLEAN, Unlock(t, all) PROVE LockedIsOpen'
    <2>2. /\ Home[t] \in Objects /\ life' = life /\ life[Home[t]] = "open"
          /\ depth[Home[t]] \in Nat /\ depth[Home[t]] > 0
      BY <1>11 DEF Unlock
    <2>3. PICK rest \in Nat :
            /\ depth' = [depth EXCEPT ![Home[t]] = rest]
            /\ \/ /\ rest = 0 /\ owner' = [owner EXCEPT ![Home[t]] = None]
                  /\ pc' = [pc EXCEPT ![t] = "posting"]
               \/ rest > 0 /\ owner' = owner /\ pc' = pc
      <3>1. CASE all
        BY <1>11, <2>2, <3>1 DEF Unlock, Goto
      <3>2. CASE ~all
        <4>1. depth[Home[t]] - 1 \in Nat
          BY <2>2
        <4>2. /\ depth' = [depth EXCEPT ![Home[t]] = depth[Home[t]] - 1]
              /\ depth[Home[t]] - 1 = 0 => /\ owner' = [owner EXCEPT ![Home[t]] = None]
                                           /\ pc' = [pc EXCEPT ![t] = "posting"]
              /\ depth[Home[t]] - 1 # 0 => owner' = owner /\ pc' = pc
          BY <1>11, <3>2 DEF Unlock, Goto
        <4>3. CASE depth[Home[t]] - 1 = 0
          BY <4>1, <4>2, <4>3
        <4>4. CASE depth[Home[t]] - 1 # 0
          <5>1. depth[Home[t]] - 1 > 0
            BY <2>2, <4>4
          <5> QED BY <4>1, <4>2, <5>1
        <4> QED BY <4>3, <4>4
      <3> QED BY <3>1, <3>2
    <2>4. \A u \in Threads : pc'[u] # "idle" =>
            /\ \/ life'[Home[u]] = "open"
               \/ life'[Home[u]] = "closing" /\ pc'[u] \in {"posting", "giving"}
            /\ owner'[Home[u]] # u
      BY <2>2, <2>3
    <2>5. ASSUME NEW o \in Objects, owner'[o] # None
          PROVE  life'[o] = "open" /\ Home[owner'[o]] = o /\ depth'[o] > 0
      <3>1. CASE o = Home[t]
        BY <2>2, <2>3, <2>5, <3>1
      <3>2. CASE o # Home[t]
        BY <2>2, <2>3, <2>5, <3>2
      <3> QED BY <3>1, <3>2
    <2> QED BY <2>4, <2>5
  <1>12. CASE UNCHANGED vars
    BY <1>12 DEF vars
  <1> QED BY <1>1, <1>2, <1>3, <1>4, <1>5, <1>6, <1>8, <1>9, <1>10, <1>11, <1>12
          DEF Next, ObjectStep, CallStep

LEMMA MakingNext == Base /\ [Next]_vars => Making'
  <1> SUFFICES ASSUME Base, [Next]_vars PROVE Making'
    OBVIOUS
  <1> USE HomeAssumption, NoneAssumption DEF Base, TypeOK, Making,
          segment, semaphore, object, locals, calls
  <1>1. ASSUME NEW o \in Objects, Open(o) PROVE Making'
    <2>1. CASE exists
      BY <1>1, <2>1 DEF Open
    <2>2. CASE ~exists
      <3>1. first = None /\ ~byte /\ sem = 0 /\ \A p \in Objects : life[p] = "new"
        BY <2>2
      <3>2. /\ first' = o /\ exists' /\ ~byte' /\ sem' = 0
            /\ \A p \in Objects : life'[p] = IF p = o THEN "made" ELSE "new"
        BY <1>1, <2>2, <3>1 DEF Open
      <3> QED BY <3>2
    <2> QED BY <2>1, <2>2
  <1>2. ASSUME NEW o \in Objects, Publish(o) PROVE Making'
    BY <1>2 DEF Publish
  <1>3. ASSUME NEW o \in Objects, Enter(o) PROVE Making'
    BY <1>3 DEF Enter
  <1>4. ASSUME NEW o \in Objects, CountIn(o) \/ SetUp(o) PROVE Making'
    <2>1. byte
      BY <1>4 DEF CountIn, SetUp
    <2> QED BY <1>4, <2>1 DEF CountIn, SetUp, Initialise
  <1>5. ASSUME NEW o \in Objects, StartUnmap(o) \/ CountOut(o) PROVE Making'
    <2>1. byte
      BY <1>5 DEF StartUnmap, CountOut
    <2> QED BY <1>5, <2>1 DEF StartUnmap, CountOut
  <1>6. ASSUME NEW o \in Objects, Crash(o) PROVE Making'
    BY <1>6 DEF Crash
  <1>7. ASSUME NEW t \in Threads, ThreadStep(t) PROVE Making'
    <2>1. UNCHANGED <<exists, byte, first, life>>
      BY <1>7, CallsLeaveTheRest DEF CallStep
    <2>2. byte \/ sem' = sem
      <3>1. CASE pc[t] = "idle"
        BY <1>7, <3>1 DEF ThreadStep, Proceed, Acquire, TryFails, Look, Take, Leave, Own,
                          Release, Timeout
      <3>2. CASE pc[t] # "idle"
        BY <3>2 DEF LockedIsOpen
      <3> QED BY <3>1, <3>2
    <2> QED BY <2>1, <2>2
  <1>8. ASSUME NEW t \in Threads, Lock(t) PROVE Making'
    BY <1>8 DEF Lock
  <1>9. ASSUME NEW t \in Threads, CreateAgain(t) \/ Destroy(t) PROVE Making'
    <2>1. byte /\ exists
      BY <1>9 DEF CreateAgain, Destroy
    <2>2. /\ UNCHANGED <<exists, byte, first>>
          /\ \A o \in Objects : life'[o] = "made" => life[o] = "made"
      BY <1>9 DEF CreateAgain, Destroy
    <2> QED BY <2>1, <2>2
  <1>10. ASSUME NEW t \in Threads, NEW all \in BOOLEAN, Unlock(t, all) PROVE Making'
    <2>1. byte
      BY <1>10 DEF Unlock
    <2> QED BY <1>10, <2>1 DEF Unlock
  <1>11. CASE UNCHANGED vars
    BY <1>11 DEF vars
  <1> QED BY <1>1, <1>2, <1>3, <1>4, <1>5, <1>6, <1>7, <1>8, <1>9, <1>10, <1>11
          DEF Next, ObjectStep, CallStep

LEMMA InitBase == Init => Base
  <1> SUFFICES ASSUME Init PROVE Base
    OBVIOUS
  <1>1. TypeOK
    <2>0. exists \in BOOLEAN /\ byte \in BOOLEAN
      BY DEF Init
    <2>1. /\ shm \in Objects \cup {None} /\ inner \in Threads \cup {None}
          /\ first \in Objects \cup {None} /\ ref \in Nat /\ sem \in Int
      BY DEF Init
    <2>4. left \in Nat /\ dead \subseteq Objects
      BY BoundsAssumption DEF Init
    <2>2. /\ life \in [Objects -> Lives] /\ seen \in [Objects -> Nat]
          /\ owner \in [Objects -> Threads \cup {None}] /\ depth \in [Objects -> Nat]
      BY DEF Init, Lives
    <2>3. pc \in [Threads -> Places] /\ mode \in [Threads -> Modes]
      BY DEF Init, Modes, Places
    <2> QED BY <2>0, <2>1, <2>2, <2>3, <2>4 DEF TypeOK
  <1>2. LockedIsOpen /\ Making
    BY DEF Init, LockedIsOpen, Making
  <1> QED BY <1>1, <1>2 DEF Base

LEMMA BaseNext == Base /\ [Next]_vars => Base'
  BY TypeNext, LockedIsOpenNext, MakingNext DEF Base

LEMMA BaseHolds == Spec => []Base
  BY InitBase, BaseNext, PTL DEF Spec

(* The state stays within its types; unlock() never brings the count of a   *)
(* lock below zero.                                                         *)
THEOREM MutexTypeOK == Spec => []TypeOK
  <1>1. Base => TypeOK
    BY DEF Base
  <1> QED BY BaseHolds, <1>1, PTL

-----------------------------------------------------------------------------
(* While the semaphore is being set up nobody else is at the count.  The    *)
(* code does not see to it: a name that is created again after its last     *)
(* user has left is counted with the mutex of the segment, and set up       *)
(* without it.                                                              *)
Settled == \A o \in Objects : life[o] = "blank" => shm \in {None, o}

(* The objects that the count includes.                                     *)
Counted == {o \in Objects : life[o] \in {"blank", "open", "renewing", "dropping",
                                         "closing", "leaving"}}

CountCovers == ref >= Cardinality(Counted)

(* Who is at the count has its mutex, and knows the count.                  *)
AtTheCount ==
  \A o \in Objects : life[o] \in {"counting", "leaving", "dropping"} => shm = o /\ seen[o] = ref

(* The object that found the segment without users, until it has set the    *)
(* semaphore up: it is the only one, and there is nothing to take till then.*)
SettingUp(o) == life[o] = "blank" \/ (life[o] = "counting" /\ seen[o] = 0)

OneSetsUp == \A o, p \in Objects : SettingUp(o) /\ SettingUp(p) => o = p

NothingToTake ==
  \A o \in Objects : SettingUp(o) => sem = 0 /\ \A t \in Threads : ~Holds(t)

(* So nobody else uses the segment yet.                                     *)
Alone == \A o \in Objects, p \in Counted : life[o] = "blank" => p = o

(* One thread at a time has the mutex of the semaphore, and who goes to     *)
(* take a token finds it still there.                                       *)
Within == {"inside", "taking", "leaving", "giving"}

OneInside ==
  /\ \A t \in Threads : pc[t] \in Within <=> inner = t
  /\ \A t \in Threads : pc[t] = "taking" => sem = 1
  /\ sem \in {0, 1}

Counts ==
  CountCovers /\ AtTheCount /\ OneSetsUp /\ Alone /\ NothingToTake /\ OneInside /\ OneHolder
-----------------------------------------------------------------------------
LEMMA CountedFinite == IsFiniteSet(Counted) /\ Cardinality(Counted) \in Nat
  BY ObjectsAssumption, FS_Subset, FS_CardinalityType DEF Counted

(* Who is inside a call uses an object that is counted.                     *)
LEMMA CallersCount ==
  ASSUME Base, NEW t \in Threads
  PROVE  (pc[t] # "idle" \/ Holds(t)) => Home[t] \in Counted /\ life[Home[t]] # "blank"
  BY HomeAssumption, NoneAssumption DEF Base, TypeOK, LockedIsOpen, Holds, Counted

LEMMA NobodyCounted ==
  ASSUME Base, CountCovers, ref = 0
  PROVE  Counted = {} /\ \A t \in Threads : ~Holds(t) /\ pc[t] = "idle"
  <1>1. Counted = {}
    BY CountedFinite, FS_EmptySet DEF CountCovers, Base, TypeOK
  <1> QED BY <1>1, CallersCount

LEMMA NobodyInside ==
  ASSUME Base, Alone, NEW o \in Objects, life[o] = "blank"
  PROVE  \A t \in Threads : ~Holds(t) /\ pc[t] = "idle"
  BY CallersCount DEF Alone

LEMMA CountCoversNext == Base /\ Counts /\ [Next]_vars => CountCovers'
  <1> SUFFICES ASSUME Base, Counts, [Next]_vars PROVE CountCovers'
    OBVIOUS
  <1> USE HomeAssumption DEF Base, TypeOK, Counts, CountCovers,
          segment, semaphore, object, locals, calls
  <1>0. IsFiniteSet(Counted) /\ Cardinality(Counted) \in Nat
    BY CountedFinite
  <1>a. ASSUME Counted' \subseteq Counted, ref' = ref PROVE CountCovers'
    <2>1. Cardinality(Counted') \in Nat /\ Cardinality(Counted') <= Cardinality(Counted)
      BY <1>0, <1>a, FS_Subset, FS_CardinalityType
    <2> QED BY <1>0, <1>a, <2>1
  <1>1. ASSUME NEW o \in Objects, Open(o) \/ Enter(o) \/ SetUp(o) \/ StartUnmap(o) \/ Crash(o)
        PROVE  CountCovers'
    <2>1. Counted' \subseteq Counted /\ ref' = ref
      BY <1>1 DEF Open, Enter, SetUp, StartUnmap, Crash, Counted
    <2> QED BY <1>a, <2>1
  <1>2. ASSUME NEW o \in Objects, Publish(o) PROVE CountCovers'
    <2>1. Counted' = {o} /\ ref' = 1
      BY <1>2 DEF Publish, Making, Counted
    <2>2. Cardinality(Counted') = 1
      BY <2>1, FS_Singleton
    <2> QED BY <2>1, <2>2
  <1>3. ASSUME NEW o \in Objects, CountIn(o) PROVE CountCovers'
    <2>1. Counted' = Counted \cup {o} /\ o \notin Counted
      BY <1>3 DEF CountIn, Counted
    <2>2. ref' = ref + 1
      BY <1>3 DEF CountIn, AtTheCount
    <2>3. Cardinality(Counted') = Cardinality(Counted) + 1
      BY <1>0, <2>1, FS_AddElement
    <2> QED BY <1>0, <2>2, <2>3
  <1>4. ASSUME NEW o \in Objects, CountOut(o) PROVE CountCovers'
    <2>1. Counted' = Counted \ {o} /\ o \in Counted
      BY <1>4 DEF CountOut, Counted
    <2>2. Cardinality(Counted') = Cardinality(Counted) - 1 /\ Cardinality(Counted) > 0
      BY <1>0, <2>1, FS_RemoveElement, FS_EmptySet
    <2>3. seen[o] = ref
      BY <1>4 DEF CountOut, AtTheCount
    <2>4. ref' = ref - 1
      BY <1>0, <1>4, <2>2, <2>3 DEF CountOut
    <2> QED BY <1>0, <2>2, <2>4
  <1>5. ASSUME NEW t \in Threads, CreateAgain(t) \/ Destroy(t) PROVE CountCovers'
    <2>1. Counted' \subseteq Counted /\ ref' = ref
      BY <1>5 DEF CreateAgain, Destroy, Counted
    <2> QED BY <1>a, <2>1
  <1>6. ASSUME NEW t \in Threads, CallStep(t) PROVE CountCovers'
    <2>1. life' = life /\ ref' = ref
      BY <1>6, CallsLeaveTheRest
    <2> QED BY <1>a, <2>1 DEF Counted
  <1>7. CASE UNCHANGED vars
    BY <1>a, <1>7 DEF vars, Counted
  <1> QED BY <1>1, <1>2, <1>3, <1>4, <1>5, <1>6, <1>7 DEF Next, ObjectStep, CallStep

LEMMA AtTheCountNext ==
  Base /\ Counts /\ Settled /\ [Next]_vars => AtTheCount'
  <1> SUFFICES ASSUME Base, Counts, Settled, [Next]_vars PROVE AtTheCount'
    OBVIOUS
  <1> USE HomeAssumption, NoneAssumption DEF Base, TypeOK, Counts, AtTheCount,
          segment, semaphore, object, locals, calls
  <1>1. ASSUME NEW o \in Objects, Open(o) \/ Crash(o) PROVE AtTheCount'
    BY <1>1 DEF Open, Crash
  <1>2. ASSUME NEW o \in Objects, Publish(o) PROVE AtTheCount'
    BY <1>2 DEF Publish, Making
  <1>3. ASSUME NEW o \in Objects, Enter(o) \/ StartUnmap(o) PROVE AtTheCount'
    BY <1>3 DEF Enter, StartUnmap
  <1>4. ASSUME NEW o \in Objects, CountIn(o) \/ CountOut(o) PROVE AtTheCount'
    <2>1. \A p \in Objects : p # o => life[p] \notin {"counting", "leaving", "dropping"}
      BY <1>4 DEF CountIn, CountOut
    <2> QED BY <1>4, <2>1 DEF CountIn, CountOut
  <1>5. ASSUME NEW o \in Objects, SetUp(o) PROVE AtTheCount'
    BY <1>5 DEF SetUp, Settled, Ready
  <1>6. ASSUME NEW t \in Threads, CreateAgain(t) \/ Destroy(t) PROVE AtTheCount'
    BY <1>6 DEF CreateAgain, Destroy
  <1>7. ASSUME NEW t \in Threads, CallStep(t) PROVE AtTheCount'
    BY <1>7, CallsLeaveTheRest
  <1>8. CASE UNCHANGED vars
    BY <1>8 DEF vars
  <1> QED BY <1>1, <1>2, <1>3, <1>4, <1>5, <1>6, <1>7, <1>8 DEF Next, ObjectStep, CallStep

LEMMA OneSetsUpNext == Base /\ Counts /\ [Next]_vars => OneSetsUp'
  <1> SUFFICES ASSUME Base, Counts, [Next]_vars PROVE OneSetsUp'
    OBVIOUS
  <1> USE HomeAssumption, NoneAssumption DEF Base, TypeOK, Counts, OneSetsUp, SettingUp,
          segment, semaphore, object, locals, calls
  <1>0. ASSUME \A o \in Objects : SettingUp(o)' => SettingUp(o) PROVE OneSetsUp'
    BY <1>0
  <1>1. ASSUME NEW o \in Objects,
               Open(o) \/ SetUp(o) \/ StartUnmap(o) \/ CountOut(o) \/ Crash(o)
        PROVE  OneSetsUp'
    BY <1>0, <1>1 DEF Open, SetUp, StartUnmap, CountOut, Crash
  <1>2. ASSUME NEW o \in Objects, Publish(o) PROVE OneSetsUp'
    BY <1>2 DEF Publish, Making
  <1>3. ASSUME NEW o \in Objects, Enter(o) PROVE OneSetsUp'
    <2>1. CASE ref = 0
      <3>1. \A p \in Objects : ~SettingUp(p)
        BY <1>3, <2>1, NobodyCounted DEF Enter, AtTheCount, Counted
      <3>2. \A p \in Objects : p # o => life'[p] = life[p] /\ seen'[p] = seen[p]
        BY <1>3 DEF Enter
      <3> QED BY <3>1, <3>2
    <2>2. CASE ref # 0
      BY <1>0, <1>3, <2>2 DEF Enter
    <2> QED BY <2>1, <2>2
  <1>4. ASSUME NEW o \in Objects, CountIn(o) PROVE OneSetsUp'
    BY <1>0, <1>4 DEF CountIn
  <1>5. ASSUME NEW t \in Threads, CreateAgain(t) \/ Destroy(t) PROVE OneSetsUp'
    BY <1>0, <1>5 DEF CreateAgain, Destroy
  <1>6. ASSUME NEW t \in Threads, CallStep(t) PROVE OneSetsUp'
    BY <1>0, <1>6, CallsLeaveTheRest
  <1>7. CASE UNCHANGED vars
    BY <1>0, <1>7 DEF vars
  <1> QED BY <1>1, <1>2, <1>3, <1>4, <1>5, <1>6, <1>7 DEF Next, ObjectStep, CallStep

LEMMA AloneNext == Base /\ Counts /\ Settled /\ [Next]_vars => Alone'
  <1> SUFFICES ASSUME Base, Counts, Settled, [Next]_vars PROVE Alone'
    OBVIOUS
  <1> USE HomeAssumption, NoneAssumption DEF Base, TypeOK, Counts, Alone, Counted,
          segment, semaphore, object, locals, calls
  <1>1. ASSUME NEW o \in Objects, Open(o) \/ Enter(o) \/ SetUp(o) \/ Crash(o) PROVE Alone'
    BY <1>1 DEF Open, Enter, SetUp, Crash
  <1>2. ASSUME NEW o \in Objects, Publish(o) PROVE Alone'
    BY <1>2 DEF Publish, Making
  <1>3. ASSUME NEW o \in Objects, CountIn(o) PROVE Alone'
    <2>1. shm = o /\ seen[o] = ref
      BY <1>3 DEF CountIn, AtTheCount
    <2>2. \A p \in Objects : life[p] # "blank"
      BY <1>3, <2>1 DEF Settled, CountIn
    <2>3. CASE seen[o] = 0
      <3>1. Counted = {}
        BY <2>1, <2>3, NobodyCounted
      <3> QED BY <1>3, <3>1 DEF CountIn
    <2>4. CASE seen[o] # 0
      <3>1. seen[o] > 0
        BY <2>4
      <3> QED BY <1>3, <2>2, <3>1 DEF CountIn
    <2> QED BY <2>3, <2>4
  <1>4. ASSUME NEW o \in Objects, StartUnmap(o) \/ CountOut(o) PROVE Alone'
    BY <1>4 DEF StartUnmap, CountOut
  <1>5. ASSUME NEW t \in Threads, CreateAgain(t) \/ Destroy(t) PROVE Alone'
    BY <1>5 DEF CreateAgain, Destroy
  <1>6. ASSUME NEW t \in Threads, CallStep(t) PROVE Alone'
    BY <1>6, CallsLeaveTheRest
  <1>7. CASE UNCHANGED vars
    BY <1>7 DEF vars
  <1> QED BY <1>1, <1>2, <1>3, <1>4, <1>5, <1>6, <1>7 DEF Next, ObjectStep, CallStep

LEMMA OneInsideNext == Base /\ Counts /\ [Next]_vars => OneInside'
  <1> SUFFICES ASSUME Base, Counts, [Next]_vars PROVE OneInside'
    OBVIOUS
  <1> USE HomeAssumption, NoneAssumption DEF Base, TypeOK, Counts, OneInside, Within,
          segment, semaphore, object, locals, calls
  <1>1. ASSUME UNCHANGED semaphore,
               \A t \in Threads : pc'[t] = pc[t] \/ {pc[t], pc'[t]} \cap Within = {}
        PROVE  OneInside'
    BY <1>1
  <1>2. ASSUME NEW o \in Objects,
               \/ Open(o) \/ Publish(o) \/ CountIn(o) \/ StartUnmap(o) \/ CountOut(o) \/ Crash(o)
        PROVE  OneInside'
    BY <1>2 DEF Open, Publish, CountIn, StartUnmap, CountOut, Crash
  <1>3. ASSUME NEW o \in Objects, Enter(o) PROVE OneInside'
    <2>1. CASE ref = 0
      BY <1>3, <2>1, NobodyCounted DEF Enter
    <2>2. CASE ref # 0
      BY <1>3, <2>2 DEF Enter
    <2> QED BY <2>1, <2>2
  <1>4. ASSUME NEW o \in Objects, SetUp(o) PROVE OneInside'
    <2>1. \A t \in Threads : pc[t] = "idle"
      BY <1>4, NobodyInside DEF SetUp
    <2>2. sem' = 1 /\ inner' = None /\ \A t \in Threads : pc'[t] = pc[t]
      BY <1>4, <2>1 DEF SetUp, Initialise
    <2> QED BY <2>1, <2>2
  <1>5. ASSUME NEW t \in Threads, TryFails(t) \/ Timeout(t) \/ Own(t) PROVE OneInside'
    BY <1>5 DEF TryFails, Timeout, Own, Goto
  <1>6. ASSUME NEW t \in Threads, Acquire(t) PROVE OneInside'
    BY <1>6 DEF Acquire, Goto
  <1>7. ASSUME NEW t \in Threads, Look(t) PROVE OneInside'
    BY <1>7 DEF Look, Goto
  <1>8. ASSUME NEW t \in Threads, Take(t) PROVE OneInside'
    BY <1>8 DEF Take, Goto
  <1>9. ASSUME NEW t \in Threads, Leave(t) PROVE OneInside'
    BY <1>9 DEF Leave, Goto
  <1>10. ASSUME NEW t \in Threads, Release(t) PROVE OneInside'
    <2>1. inner = t /\ sem' = 1 /\ inner' = None /\ pc'[t] = "idle"
      BY <1>10 DEF Release, Goto
    <2>2. \A u \in Threads \ {t} : pc[u] \notin Within /\ pc'[u] \in {pc[u], "woken"}
      BY <1>10, <2>1 DEF Release, Goto
    <2> QED BY <2>1, <2>2
  <1>11. ASSUME NEW t \in Threads, Lock(t) PROVE OneInside'
    BY <1>11 DEF Lock, Goto
  <1>12. ASSUME NEW t \in Threads, CreateAgain(t) \/ Destroy(t) PROVE OneInside'
    <2>1. UNCHANGED semaphore
      BY <1>12 DEF CreateAgain, Destroy
    <2>2. \A u \in Threads : pc'[u] = pc[u] \/ (pc[u] = "idle" /\ pc'[u] = "posting")
      BY <1>12 DEF CreateAgain, Destroy, Goto, Quiet, Users
    <2> QED BY <1>1, <2>1, <2>2
  <1>13. ASSUME NEW t \in Threads, NEW all \in BOOLEAN, Unlock(t, all) PROVE OneInside'
    <2>1. UNCHANGED semaphore
      BY <1>13 DEF Unlock
    <2>2. \A u \in Threads : pc'[u] = pc[u] \/ (pc[u] = "idle" /\ pc'[u] = "posting")
      BY <1>13 DEF Unlock, Goto
    <2> QED BY <1>1, <2>1, <2>2
  <1>14. CASE UNCHANGED vars
    BY <1>14 DEF vars
  <1> QED BY <1>2, <1>3, <1>4, <1>5, <1>6, <1>7, <1>8, <1>9, <1>10, <1>11, <1>12, <1>13, <1>14
          DEF Next, ObjectStep, ThreadStep, Proceed

(* Who takes, keeps or gives a token while somebody sets the semaphore up.  *)
LEMMA NothingToTakeNext == Base /\ Counts /\ [Next]_vars => NothingToTake'
  <1> SUFFICES ASSUME Base, Counts, [Next]_vars PROVE NothingToTake'
    OBVIOUS
  <1> USE HomeAssumption, NoneAssumption DEF Base, TypeOK, Counts, NothingToTake,
          segment, semaphore, object, locals, calls
  <1>0. ASSUME \A o \in Objects : SettingUp(o)' => SettingUp(o),
               \A t \in Threads : Holds(t)' => Holds(t),
               sem' \in {0, sem}
        PROVE  NothingToTake'
    BY <1>0
  <1>1. ASSUME NEW o \in Objects,
               Open(o) \/ CountIn(o) \/ StartUnmap(o) \/ CountOut(o) \/ Crash(o)
        PROVE  NothingToTake'
    <2>1. \A p \in Objects : SettingUp(p)' => SettingUp(p)
      BY <1>1 DEF Open, CountIn, StartUnmap, CountOut, Crash, SettingUp
    <2>2. sem' = sem /\ \A t \in Threads : Holds(t)' => Holds(t)
      BY <1>1 DEF Open, CountIn, StartUnmap, CountOut, Crash, Holds
    <2> QED BY <1>0, <2>1, <2>2
  <1>2. ASSUME NEW o \in Objects, Publish(o) PROVE NothingToTake'
    <2>1. sem = 0 /\ \A p \in Objects : p \notin Counted
      BY <1>2 DEF Publish, Making, Counted
    <2>2. \A t \in Threads : ~Holds(t)
      BY <2>1, CallersCount
    <2> QED BY <1>2, <2>1, <2>2 DEF Publish, Holds
  <1>3. ASSUME NEW o \in Objects, Enter(o) PROVE NothingToTake'
    <2>1. UNCHANGED <<pc, owner>>
      BY <1>3 DEF Enter
    <2>2. CASE ref = 0
      <3>1. \A t \in Threads : ~Holds(t)
        BY <2>2, NobodyCounted
      <3>2. sem' = 0
        BY <1>3, <2>2 DEF Enter
      <3> QED BY <2>1, <3>1, <3>2 DEF Holds
    <2>3. CASE ref # 0
      <3>1. \A p \in Objects : SettingUp(p)' => SettingUp(p)
        BY <1>3, <2>3 DEF Enter, SettingUp
      <3>2. sem' = sem
        BY <1>3, <2>3 DEF Enter
      <3> QED BY <1>0, <2>1, <3>1, <3>2 DEF Holds
    <2> QED BY <2>2, <2>3
  <1>4. ASSUME NEW o \in Objects, SetUp(o) PROVE NothingToTake'
    <2>1. SettingUp(o)
      BY <1>4 DEF SetUp, SettingUp
    <2>2. \A p \in Objects : ~SettingUp(p)'
      BY <1>4, <2>1 DEF SetUp, OneSetsUp, SettingUp
    <2> QED BY <2>2
  <1>5. ASSUME NEW t \in Threads, Take(t) \/ Own(t) \/ Release(t) PROVE NothingToTake'
    <2>1. sem = 1 \/ Holds(t)
      BY <1>5 DEF Take, Own, Release, Holds, OneInside
    <2>2. \A o \in Objects : ~SettingUp(o)
      BY <2>1
    <2>3. \A o \in Objects : ~SettingUp(o)'
      BY <1>5, <2>2, CallsLeaveTheRest DEF CallStep, ThreadStep, Proceed, SettingUp
    <2> QED BY <2>3
  <1>6. ASSUME NEW t \in Threads,
               Acquire(t) \/ TryFails(t) \/ Look(t) \/ Leave(t) \/ Timeout(t) \/ Lock(t)
        PROVE  NothingToTake'
    <2>1. \A p \in Objects : SettingUp(p)' => SettingUp(p)
      BY <1>6, CallsLeaveTheRest DEF CallStep, ThreadStep, Proceed, SettingUp
    <2>2. sem' = sem /\ owner' = owner
      BY <1>6 DEF Acquire, TryFails, Look, Leave, Timeout, Lock
    <2>3. \A u \in Threads : Holds(u)' => Holds(u)
      BY <1>6, <2>2 DEF Acquire, TryFails, Look, Leave, Timeout, Lock, Goto, Holds
    <2> QED BY <1>0, <2>1, <2>2, <2>3
  <1>7. ASSUME NEW t \in Threads, CreateAgain(t) PROVE NothingToTake'
    <2>1. \A p \in Objects : SettingUp(p)' => SettingUp(p)
      BY <1>7 DEF CreateAgain, SettingUp
    <2>2. sem' = sem /\ \A u \in Threads : Holds(u)' => Holds(u)
      BY <1>7 DEF CreateAgain, Holds
    <2> QED BY <1>0, <2>1, <2>2
  <1>8. ASSUME NEW t \in Threads, Destroy(t) \/ \E all \in BOOLEAN : Unlock(t, all)
        PROVE  NothingToTake'
    <2>1. \A p \in Objects : SettingUp(p)' => SettingUp(p)
      BY <1>8 DEF Destroy, Unlock, SettingUp
    <2>2. CASE owner[Home[t]] = t
      <3>1. \A p \in Objects : ~SettingUp(p)
        BY <2>2 DEF Holds
      <3> QED BY <2>1, <3>1
    <2>3. CASE owner[Home[t]] # t
      <3>1. sem' = sem /\ \A u \in Threads : Holds(u)' => Holds(u)
        BY <1>8, <2>3 DEF Destroy, Unlock, Holds
      <3> QED BY <1>0, <2>1, <3>1
    <2> QED BY <2>2, <2>3
  <1>9. CASE UNCHANGED vars
    BY <1>0, <1>9 DEF vars, SettingUp, Holds
  <1> QED BY <1>1, <1>2, <1>3, <1>4, <1>5, <1>6, <1>7, <1>8, <1>9
          DEF Next, ObjectStep, ThreadStep, Proceed

LEMMA OneHolderNext == Base /\ Counts /\ [Next]_vars => OneHolder'
  <1> SUFFICES ASSUME Base, Counts, [Next]_vars PROVE OneHolder'
    OBVIOUS
  <1> USE HomeAssumption, NoneAssumption DEF Base, TypeOK, OneHolder, Counts,
          segment, semaphore, object, locals, calls
  <1>0. ASSUME \A t \in Threads : Holds(t)' => Holds(t), sem' = sem PROVE OneHolder'
    BY <1>0
  <1>1. ASSUME NEW o \in Objects,
               Open(o) \/ Publish(o) \/ CountIn(o) \/ StartUnmap(o) \/ CountOut(o) \/ Crash(o)
        PROVE  OneHolder'
    BY <1>0, <1>1 DEF Open, Publish, CountIn, StartUnmap, CountOut, Crash, Holds
  <1>2. ASSUME NEW o \in Objects, Enter(o) PROVE OneHolder'
    BY <1>2 DEF Enter, Holds
  <1>3. ASSUME NEW o \in Objects, SetUp(o) PROVE OneHolder'
    <2>1. \A t \in Threads : ~Holds(t) /\ pc[t] = "idle"
      BY <1>3, NobodyInside DEF SetUp
    <2>2. \A t \in Threads : Holds(t)' => Holds(t)
      BY <1>3, <2>1 DEF SetUp, Initialise, Holds
    <2> QED BY <2>1, <2>2
  <1>4. ASSUME NEW t \in Threads, Take(t) PROVE OneHolder'
    <2>1. sem = 1 /\ sem' = 0 /\ \A u \in Threads : ~Holds(u)
      BY <1>4 DEF Take, OneInside
    <2>2. \A u \in Threads : Holds(u)' => u = t
      BY <1>4, <2>1 DEF Take, Holds, Goto
    <2> QED BY <2>1, <2>2
  <1>5. ASSUME NEW t \in Threads, Acquire(t) PROVE OneHolder'
    BY <1>0, <1>5 DEF Acquire, Holds, Goto
  <1>6. ASSUME NEW t \in Threads,
               TryFails(t) \/ Look(t) \/ Leave(t) \/ Timeout(t) \/ Lock(t)
        PROVE  OneHolder'
    BY <1>0, <1>6 DEF TryFails, Look, Leave, Timeout, Lock, Holds, Goto
  <1>7. ASSUME NEW t \in Threads, Own(t) PROVE OneHolder'
    <2>1. Holds(t)
      BY <1>7 DEF Own, Holds
    <2>2. \A u \in Threads : Holds(u)' => Holds(u)
      BY <1>7, <2>1 DEF Own, Holds, Goto
    <2> QED BY <1>0, <1>7, <2>2 DEF Own
  <1>8. ASSUME NEW t \in Threads, Release(t) PROVE OneHolder'
    <2>1. owner' = owner /\ owner[Home[t]] # t
      BY <1>8 DEF Release, LockedIsOpen
    <2>2. \A u \in Threads : Holds(u) => u = t
      BY <1>8 DEF Release, Holds
    <2>3. pc'[t] = "idle" /\ \A u \in Threads \ {t} : pc'[u] \in {pc[u], "woken"}
      BY <1>8 DEF Release, Goto
    <2>4. \A u \in Threads : ~Holds(u)'
      BY <2>1, <2>2, <2>3 DEF Holds
    <2> QED BY <2>4
  <1>9. ASSUME NEW t \in Threads, CreateAgain(t) \/ Destroy(t) PROVE OneHolder'
    <2>1. sem' = sem
      BY <1>9 DEF CreateAgain, Destroy
    <2>2. /\ owner' = [owner EXCEPT ![Home[t]] = None]
          /\ \A u \in Threads : pc'[u] = pc[u] \/ (u = t /\ owner[Home[t]] = t)
      BY <1>9 DEF CreateAgain, Destroy, Goto
    <2>3. \A u \in Threads : Holds(u)' => Holds(u)
      BY <2>2 DEF Holds
    <2> QED BY <1>0, <2>1, <2>3
  <1>10. ASSUME NEW t \in Threads, NEW all \in BOOLEAN, Unlock(t, all) PROVE OneHolder'
    <2>1. sem' = sem /\ Holds(t)
      BY <1>10 DEF Unlock, Holds
    <2>2. /\ owner' \in {owner, [owner EXCEPT ![Home[t]] = None]}
          /\ \A u \in Threads \ {t} : pc'[u] = pc[u]
      BY <1>10 DEF Unlock, Goto
    <2>3. \A u \in Threads : Holds(u)' => Holds(u)
      BY <2>1, <2>2 DEF Holds
    <2> QED BY <1>0, <2>1, <2>3
  <1>11. CASE UNCHANGED vars
    BY <1>0, <1>11 DEF vars, Holds
  <1> QED BY <1>1, <1>2, <1>3, <1>4, <1>5, <1>6, <1>7, <1>8, <1>9, <1>10, <1>11
          DEF Next, ObjectStep, ThreadStep, Proceed

LEMMA InitCounts == Init => Counts
  <1>1. Init => Counted = {} /\ ref = 0
    BY DEF Init, Counted
  <1>2. Init => CountCovers
    BY <1>1, FS_EmptySet DEF CountCovers
  <1>3. Init => AtTheCount /\ OneSetsUp /\ Alone /\ NothingToTake
    BY <1>1, HomeAssumption, NoneAssumption
       DEF Init, AtTheCount, OneSetsUp, Alone, SettingUp, NothingToTake, Holds
  <1>4. Init => OneInside /\ OneHolder
    BY HomeAssumption, NoneAssumption DEF Init, OneInside, Within, OneHolder, Holds
  <1> QED BY <1>2, <1>3, <1>4 DEF Counts

LEMMA CountsNext == Base /\ Counts /\ Settled /\ [Next]_vars => Counts'
  BY CountCoversNext, AtTheCountNext, OneSetsUpNext, AloneNext, NothingToTakeNext,
     OneInsideNext, OneHolderNext DEF Counts

LEMMA CountsHold == Spec /\ []Settled => [](Base /\ Counts)
  BY BaseHolds, InitCounts, CountsNext, PTL DEF Spec

(* At most one thread of all processes has the named mutex, however many    *)
(* create it at once or again and wherever they die, as long as nobody is   *)
(* at the count of users while the semaphore is being set up.               *)
THEOREM HoldersAreOne == Spec /\ []Settled => []OneHolder
  <1>1. Counts => OneHolder
    BY DEF Counts
  <1> QED BY CountsHold, <1>1, PTL
-----------------------------------------------------------------------------
(* Once there is a token it is never lost: it is in the semaphore or        *)
(* somebody has it, dead or alive.                                          *)
TokenKept ==
  byte /\ (\A o \in Objects : ~SettingUp(o)) => sem = 1 \/ \E t \in Threads : Holds(t)

(* Nor is a signal: when there is a token, one of those that wait is on its *)
(* way to it.                                                               *)
SignalKept ==
  /\ sem = 1 /\ (\E t \in Threads : pc[t] = "asleep") =>
       \E t \in Threads : pc[t] \in {"woken", "inside", "taking"}
  /\ \A t \in Threads : pc[t] # "lost"

(* Nor the mutex of the segment: who has it is at the count.                *)
MutexKept ==
  shm # None => life[shm] \in {"blank", "counting", "leaving", "dropping"}

Kept == TokenKept /\ SignalKept /\ MutexKept

(* Unless somebody has died where the others need him, a thread that sleeps *)
(* in lock() waits for a living one that has the lock or is about to take   *)
(* the token, and has not been forgotten by the condition; who wants the    *)
(* mutex of the semaphore waits for a living thread that is in it; who has  *)
(* the token waits for nobody; and an object that comes or goes waits for a *)
(* living one that makes the segment or is at the count.                    *)
NobodyIsStuck ==
  \/ Fatal
  \/ /\ \A t \in Threads : pc[t] = "asleep" =>
           \E u \in Threads :
             Alive(u) /\ (Holds(u) \/ (sem = 1 /\ pc[u] \in {"woken", "inside", "taking"}))
     /\ \A t \in Threads : pc[t] # "lost"
     /\ inner # None => Alive(inner) /\ pc[inner] \in Within
     /\ \A t \in Threads : pc[t] = "got" => Unheld(Home[t])
     /\ \A o \in Objects : life[o] \in {"found", "closing"} =>
           \/ byte /\ shm = None
           \/ \E p \in Objects \ dead :
                life[p] \in {"made", "blank", "counting", "leaving", "dropping"}
-----------------------------------------------------------------------------
LEMMA TokenKeptNext == ~Renew /\ Base /\ Counts /\ TokenKept /\ [Next]_vars => TokenKept'
  <1> SUFFICES ASSUME ~Renew, Base, Counts, TokenKept, [Next]_vars,
                      byte', \A o \in Objects : ~SettingUp(o)', sem' # 1
               PROVE  \E t \in Threads : Holds(t)'
    BY DEF TokenKept
  <1> USE HomeAssumption, NoneAssumption DEF Base, TypeOK,
          segment, semaphore, object, locals, calls
  <1>0. ASSUME byte, \A o \in Objects : ~SettingUp(o), sem' = sem,
               \A t \in Threads : Holds(t) => Holds(t)'
        PROVE  \E t \in Threads : Holds(t)'
    BY <1>0 DEF TokenKept
  <1>1. ASSUME NEW o \in Objects,
               Open(o) \/ CountIn(o) \/ StartUnmap(o) \/ CountOut(o) \/ Crash(o)
        PROVE  \E t \in Threads : Holds(t)'
    <2>1. UNCHANGED <<byte, sem, pc, owner>>
      BY <1>1 DEF Open, CountIn, StartUnmap, CountOut, Crash
    <2>2. \A p \in Objects : SettingUp(p) => SettingUp(p)'
      <3>1. CASE CountIn(o)
        BY <3>1 DEF CountIn, SettingUp
      <3>2. CASE Open(o) \/ StartUnmap(o) \/ CountOut(o) \/ Crash(o)
        BY <3>2 DEF Open, StartUnmap, CountOut, Crash, SettingUp
      <3> QED BY <1>1, <3>1, <3>2
    <2> QED BY <1>0, <2>1, <2>2 DEF Holds
  <1>2. ASSUME NEW o \in Objects, Publish(o) PROVE FALSE
    BY <1>2 DEF Publish, SettingUp
  <1>3. ASSUME NEW o \in Objects, Enter(o) PROVE \E t \in Threads : Holds(t)'
    <2>1. ref # 0
      BY <1>3 DEF Enter, SettingUp
    <2>2. UNCHANGED <<byte, sem, pc, owner>>
      BY <1>3, <2>1 DEF Enter
    <2>3. \A p \in Objects : SettingUp(p) => SettingUp(p)'
      BY <1>3 DEF Enter, SettingUp
    <2> QED BY <1>0, <2>2, <2>3 DEF Holds
  <1>4. ASSUME NEW o \in Objects, SetUp(o) PROVE FALSE
    BY <1>4 DEF SetUp, Initialise
  <1>5. ASSUME NEW t \in Threads, Take(t) \/ Own(t) PROVE Holds(t)'
    BY <1>5 DEF Take, Own, Holds, Goto
  <1>6. ASSUME NEW t \in Threads,
               \/ Acquire(t) \/ TryFails(t) \/ Look(t) \/ Leave(t) \/ Timeout(t)
               \/ Lock(t) \/ \E all \in BOOLEAN : Unlock(t, all)
        PROVE  \E u \in Threads : Holds(u)'
    <2>1. UNCHANGED <<byte, life, seen>>
      BY <1>6, CallsLeaveTheRest DEF CallStep, ThreadStep, Proceed
    <2>2. sem' = sem
      BY <1>6 DEF Acquire, TryFails, Look, Leave, Timeout, Lock, Unlock
    <2>3. ASSUME NEW u \in Threads, Holds(u) PROVE Holds(u)'
      <3>1. CASE \E all \in BOOLEAN : Unlock(t, all)
        BY <2>3, <3>1 DEF Unlock, Holds, Goto
      <3>2. CASE Lock(t)
        BY <2>3, <3>2 DEF Lock, Holds, Goto
      <3>3. CASE Acquire(t) \/ TryFails(t) \/ Look(t) \/ Leave(t) \/ Timeout(t)
        BY <2>3, <3>3 DEF Acquire, TryFails, Look, Leave, Timeout, Holds, Goto
      <3> QED BY <1>6, <3>1, <3>2, <3>3
    <2> QED BY <1>0, <2>1, <2>2, <2>3 DEF SettingUp
  <1>7. ASSUME NEW t \in Threads, CreateAgain(t) \/ Destroy(t) PROVE \E u \in Threads : Holds(u)'
    <2>1. UNCHANGED <<byte, sem>> /\ Home[t] \in Objects
      BY <1>7 DEF CreateAgain, Destroy
    <2>2. \A p \in Objects : SettingUp(p) => SettingUp(p)'
      BY <1>7 DEF CreateAgain, Destroy, SettingUp
    <2>3. ASSUME NEW u \in Threads, Holds(u) PROVE Holds(u)'
      <3>1. CASE CreateAgain(t)
        BY <2>3, <3>1 DEF CreateAgain, Holds
      <3>2. CASE Destroy(t)
        BY <2>3, <3>2 DEF Destroy, Holds, Goto
      <3> QED BY <1>7, <3>1, <3>2
    <2> QED BY <1>0, <2>1, <2>2, <2>3
  <1>8. ASSUME NEW t \in Threads, Release(t) PROVE FALSE
    BY <1>8 DEF Release, Counts, OneInside
  <1>9. CASE UNCHANGED vars
    BY <1>0, <1>9 DEF vars, SettingUp, Holds
  <1> QED BY <1>1, <1>2, <1>3, <1>4, <1>5, <1>6, <1>7, <1>8, <1>9
          DEF Next, ObjectStep, ThreadStep, Proceed

LEMMA SignalKeptNext == Base /\ Counts /\ SignalKept /\ [Next]_vars => SignalKept'
  <1> SUFFICES ASSUME Base, Counts, SignalKept, [Next]_vars PROVE SignalKept'
    OBVIOUS
  <1> USE HomeAssumption, NoneAssumption DEF Base, TypeOK, SignalKept,
          segment, semaphore, object, locals, calls
  <1>0. ASSUME sem' \in {0, sem},
               \A t \in Threads : \/ pc'[t] = pc[t]
                                  \/ /\ pc[t] \notin {"woken", "inside", "taking"}
                                     /\ pc'[t] \notin {"asleep", "lost"}
        PROVE  SignalKept'
    BY <1>0
  <1>1. ASSUME NEW o \in Objects,
               \/ Open(o) \/ Publish(o) \/ Enter(o) \/ CountIn(o)
               \/ StartUnmap(o) \/ CountOut(o) \/ Crash(o)
        PROVE  SignalKept'
    <2>1. pc' = pc /\ sem' \in {0, sem}
      BY <1>1 DEF Open, Publish, Enter, CountIn, StartUnmap, CountOut, Crash
    <2> QED BY <2>1
  <1>2. ASSUME NEW o \in Objects, SetUp(o) PROVE SignalKept'
    <2>1. \A t \in Threads : pc[t] = "idle"
      BY <1>2, NobodyInside DEF SetUp, Counts
    <2>2. \A t \in Threads : pc'[t] = pc[t]
      BY <1>2, <2>1 DEF SetUp, Initialise
    <2> QED BY <2>1, <2>2
  <1>3. ASSUME NEW t \in Threads, Take(t) PROVE SignalKept'
    <2>1. sem' = 0 /\ pc' = [pc EXCEPT ![t] = "got"]
      BY <1>3 DEF Take, Goto, Counts, OneInside
    <2> QED BY <2>1
  <1>4. ASSUME NEW t \in Threads, Look(t) PROVE SignalKept'
    <2>1. sem' = sem
      BY <1>4 DEF Look
    <2>2. CASE sem = 0
      BY <1>4, <2>1, <2>2 DEF Look, Goto
    <2>3. CASE sem # 0
      <3>1. pc' = [pc EXCEPT ![t] = "taking"]
        BY <1>4, <2>3 DEF Look, Goto
      <3> QED BY <3>1
    <2> QED BY <2>2, <2>3
  <1>5. ASSUME NEW t \in Threads, Acquire(t) PROVE SignalKept'
    <2>1. sem' = sem
      BY <1>5 DEF Acquire
    <2>2. /\ \A u \in Threads \ {t} : pc'[u] = pc[u]
          /\ pc'[t] \notin {"asleep", "lost"} /\ pc[t] \notin {"inside", "taking"}
          /\ pc[t] = "woken" => pc'[t] = "inside"
      BY <1>5 DEF Acquire, Goto
    <2> QED BY <2>1, <2>2
  <1>6. ASSUME NEW t \in Threads,
               TryFails(t) \/ Leave(t) \/ Timeout(t) \/ Own(t) \/ Lock(t)
        PROVE  SignalKept'
    BY <1>0, <1>6 DEF TryFails, Leave, Timeout, Own, Lock, Goto
  <1>7. ASSUME NEW t \in Threads, Release(t) PROVE SignalKept'
    <2>1. CASE {u \in Threads : pc[u] = "asleep"} = {}
      BY <1>7, <2>1 DEF Release, Goto
    <2>2. CASE {u \in Threads : pc[u] = "asleep"} # {}
      <3>1. PICK u \in Threads : pc[u] = "asleep"
                                 /\ pc' = [pc EXCEPT ![t] = "idle", ![u] = "woken"]
        BY <1>7, <2>2 DEF Release
      <3>2. pc[t] = "giving"
        BY <1>7 DEF Release
      <3> QED BY <3>1, <3>2
    <2> QED BY <2>1, <2>2
  <1>8. ASSUME NEW t \in Threads, CreateAgain(t) \/ Destroy(t) PROVE SignalKept'
    <2>1. /\ sem' = sem
          /\ \A u \in Threads : pc'[u] = pc[u] \/ (pc[u] = "idle" /\ pc'[u] = "posting")
      BY <1>8 DEF CreateAgain, Destroy, Goto, Quiet, Users
    <2> QED BY <1>0, <2>1
  <1>9. ASSUME NEW t \in Threads, NEW all \in BOOLEAN, Unlock(t, all) PROVE SignalKept'
    BY <1>0, <1>9 DEF Unlock, Goto
  <1>10. CASE UNCHANGED vars
    BY <1>10 DEF vars
  <1> QED BY <1>1, <1>2, <1>3, <1>4, <1>5, <1>6, <1>7, <1>8, <1>9, <1>10
          DEF Next, ObjectStep, ThreadStep, Proceed

LEMMA MutexKeptNext == Base /\ Counts /\ MutexKept /\ [Next]_vars => MutexKept'
  <1> SUFFICES ASSUME Base, Counts, MutexKept, [Next]_vars PROVE MutexKept'
    OBVIOUS
  <1> USE HomeAssumption, NoneAssumption DEF Base, TypeOK, MutexKept,
          segment, semaphore, object, locals, calls
  <1>1. ASSUME NEW o \in Objects,
               \/ Open(o) \/ Publish(o) \/ Enter(o) \/ CountIn(o) \/ SetUp(o)
               \/ StartUnmap(o) \/ CountOut(o) \/ Crash(o)
        PROVE  MutexKept'
    BY <1>1 DEF Open, Publish, Enter, CountIn, SetUp, Ready, StartUnmap, CountOut, Crash
  <1>2. ASSUME NEW t \in Threads, CreateAgain(t) \/ Destroy(t) PROVE MutexKept'
    BY <1>2 DEF CreateAgain, Destroy
  <1>3. ASSUME NEW t \in Threads, CallStep(t) PROVE MutexKept'
    BY <1>3, CallsLeaveTheRest
  <1>4. CASE UNCHANGED vars
    BY <1>4 DEF vars
  <1> QED BY <1>1, <1>2, <1>3, <1>4 DEF Next, ObjectStep, CallStep

LEMMA KeptHolds ==
  ASSUME ~Renew PROVE Spec /\ []Settled => [](Base /\ Counts /\ Kept)
  <1>1. Init => Kept
    BY NoneAssumption DEF Init, Kept, TokenKept, SignalKept, MutexKept
  <1>2. Base /\ Counts /\ Kept /\ [Next]_vars => Kept'
    BY TokenKeptNext, SignalKeptNext, MutexKeptNext DEF Kept
  <1> QED BY <1>1, <1>2, CountsHold, PTL DEF Spec

LEMMA KeptIsEnough == ASSUME Base, Counts, Kept PROVE NobodyIsStuck
  <1> USE HomeAssumption, NoneAssumption DEF Base, TypeOK, Counts, Kept
  <1> SUFFICES ASSUME ~Fatal PROVE NobodyIsStuck
    BY DEF NobodyIsStuck
  <1>0. ASSUME NEW t \in Threads, Holds(t) \/ inner = t \/ pc[t] = "woken" PROVE Alive(t)
    BY <1>0 DEF Fatal, Users, Alive
  <1>1. ASSUME NEW t \in Threads, pc[t] = "asleep"
        PROVE  \E u \in Threads :
                 Alive(u) /\ (Holds(u) \/ (sem = 1 /\ pc[u] \in {"woken", "inside", "taking"}))
    <2>1. life[Home[t]] = "open" /\ Home[t] \in Counted
      BY <1>1 DEF LockedIsOpen, Counted
    <2>2. byte
      BY <2>1 DEF Making
    <2>3. ASSUME NEW o \in Objects PROVE ~SettingUp(o)
      <3>1. life[o] # "blank"
        BY <2>1 DEF Alone
      <3>2. ASSUME life[o] = "counting", seen[o] = 0 PROVE FALSE
        <4>1. ref = 0
          BY <3>2 DEF AtTheCount
        <4> QED BY <2>1, <4>1, NobodyCounted
      <3> QED BY <3>1, <3>2 DEF SettingUp
    <2>4. PICK u \in Threads : Holds(u) \/ (sem = 1 /\ pc[u] \in {"woken", "inside", "taking"})
      BY <1>1, <2>2, <2>3 DEF TokenKept, SignalKept
    <2>5. Holds(u) \/ inner = u \/ pc[u] = "woken"
      BY <2>4 DEF OneInside, Within
    <2> QED BY <1>0, <2>4, <2>5
  <1>2. ASSUME NEW o \in Objects, life[o] \in {"found", "closing"}, ~(byte /\ shm = None)
        PROVE  \E p \in Objects \ dead :
                 life[p] \in {"made", "blank", "counting", "leaving", "dropping"}
    <2>1. PICK p \in Objects : life[p] \in {"made", "blank", "counting", "leaving", "dropping"}
      BY <1>2 DEF Making, MutexKept
    <2>2. p \notin dead
      BY <2>1 DEF Fatal
    <2> QED BY <2>1, <2>2
  <1>3. inner # None => Alive(inner) /\ pc[inner] \in Within
    BY <1>0 DEF OneInside
  <1>4. ASSUME NEW t \in Threads, pc[t] = "got" PROVE Unheld(Home[t])
    <2>1. \A u \in Threads : pc[u] \in {"posting", "giving"} => u = t
      BY <1>4 DEF OneHolder, Holds
    <2> QED BY <1>4, <2>1 DEF Unheld, Users
  <1> QED BY <1>1, <1>2, <1>3, <1>4 DEF NobodyIsStuck, SignalKept

(* Nobody waits in vain for the named mutex, for the mutex of its semaphore *)
(* or for the segment, unless somebody died where he was needed: what       *)
(* CallsReturn says, up to the fairness of those that can go on.            *)
THEOREM NobodyWaitsInVain == ASSUME ~Renew PROVE Spec /\ []Settled => []NobodyIsStuck
  <1>1. Base /\ Counts /\ Kept => NobodyIsStuck
    BY KeptIsEnough
  <1> QED BY KeptHolds, <1>1, PTL
-----------------------------------------------------------------------------
(* That nobody reopens a name and nobody renews what it has locked is       *)
(* enough: then only the maker of the segment sets the semaphore up.        *)
Orderly == ~Reopen /\ ~Renew

Fresh == {"new", "found"}

(* The objects other than the maker that the count includes.                *)
Others == {o \in Objects : o # first /\ life[o] \in {"open", "closing", "leaving"}}

(* How far the maker has come, and what that means for everybody else.      *)
Stages ==
  /\ \A o \in Objects : life[o] \notin {"renewing", "dropping"}
  /\ \A o \in Objects : life[o] = "blank" => o = first
  /\ first # None /\ life[first] \in {"made", "blank"} =>
       \A o \in Objects : o # first => life[o] \in Fresh
  /\ first # None /\ life[first] \in {"closing", "leaving", "gone"} =>
       \A o \in Objects : o # first => o \in dead \/ life[o] = "gone"

(* The maker keeps the mutex it was born with, and the others find users.   *)
MakersMutex ==
  \A o \in Objects : /\ life[o] = "blank" => shm = o
                     /\ life[o] = "counting" => seen[o] > 0

CountIsEnough == byte /\ life[first] # "gone" => ref >= Cardinality(Others) + 1

IInv == Base /\ Counts /\ Stages /\ MakersMutex /\ CountIsEnough

LEMMA OthersFinite == IsFiniteSet(Others) /\ Cardinality(Others) \in Nat
  BY ObjectsAssumption, FS_Subset, FS_CardinalityType DEF Others

LEMMA MakersMutexSettles == MakersMutex => Settled
  BY DEF MakersMutex, Settled

LEMMA StagesNext == Orderly /\ IInv /\ [Next]_vars => Stages'
  <1> SUFFICES ASSUME Orderly, IInv, [Next]_vars PROVE Stages'
    OBVIOUS
  <1> USE HomeAssumption, NoneAssumption DEF IInv, Base, TypeOK, Making, Stages, Fresh, Orderly,
          segment, semaphore, object, locals, calls
  <1>1. ASSUME NEW o \in Objects, Open(o) PROVE Stages'
    <2>1. CASE exists
      BY <1>1, <2>1 DEF Open
    <2>2. CASE ~exists
      <3>1. first = None /\ ~byte /\ \A p \in Objects : life[p] = "new"
        BY <2>2
      <3>2. first' = o /\ exists' /\ ~byte'
            /\ \A p \in Objects : life'[p] = IF p = o THEN "made" ELSE "new"
        BY <1>1, <2>2, <3>1 DEF Open
      <3> QED BY <3>2
    <2> QED BY <2>1, <2>2
  <1>2. ASSUME NEW o \in Objects, Publish(o) PROVE Stages'
    BY <1>2 DEF Publish
  <1>3. ASSUME NEW o \in Objects, Enter(o) PROVE Stages'
    BY <1>3 DEF Enter, MakersMutex
  <1>4. ASSUME NEW o \in Objects, CountIn(o) PROVE Stages'
    <2>1. life' = [life EXCEPT ![o] = "open"]
      BY <1>4 DEF CountIn, MakersMutex
    <2>2. first # None /\ (life[first] \in {"made", "blank"} => first = o)
      BY <1>4 DEF CountIn
    <2> QED BY <1>4, <2>1, <2>2 DEF CountIn
  <1>5. ASSUME NEW o \in Objects, SetUp(o) PROVE Stages'
    BY <1>5 DEF SetUp, Ready
  <1>6. ASSUME NEW o \in Objects, StartUnmap(o) PROVE Stages'
    BY <1>6 DEF StartUnmap
  <1>7. ASSUME NEW o \in Objects, CountOut(o) PROVE Stages'
    BY <1>7 DEF CountOut
  <1>8. ASSUME NEW o \in Objects, Crash(o) PROVE Stages'
    BY <1>8 DEF Crash
  <1>9. ASSUME NEW t \in Threads, CallStep(t) PROVE Stages'
    BY <1>9, CallsLeaveTheRest
  <1>10. ASSUME NEW t \in Threads, CreateAgain(t) PROVE Stages'
    <2>1. Home[t] \in Objects /\ owner[Home[t]] # t
      BY <1>10 DEF CreateAgain
    <2>2. life' = [life EXCEPT ![Home[t]] = "new"] /\ life[Home[t]] = "open"
          /\ Home[t] \notin dead
      BY <1>10, <2>1 DEF CreateAgain, Alive
    <2> QED BY <1>10, <2>1, <2>2 DEF CreateAgain
  <1>11. ASSUME NEW t \in Threads, Destroy(t) PROVE Stages'
    <2>1. life' = [life EXCEPT ![Home[t]] = "closing"] /\ life[Home[t]] = "open"
          /\ Home[t] \notin dead
      BY <1>11 DEF Destroy, Alive
    <2> QED BY <1>11, <2>1 DEF Destroy
  <1>12. CASE UNCHANGED vars
    BY <1>12 DEF vars
  <1> QED BY <1>1, <1>2, <1>3, <1>4, <1>5, <1>6, <1>7, <1>8, <1>9, <1>10, <1>11, <1>12
          DEF Next, ObjectStep, CallStep

LEMMA MakersMutexNext == Orderly /\ IInv /\ [Next]_vars => MakersMutex'
  <1> SUFFICES ASSUME Orderly, IInv, [Next]_vars PROVE MakersMutex'
    OBVIOUS
  <1> USE HomeAssumption, NoneAssumption DEF IInv, Base, TypeOK, Making, MakersMutex, Orderly,
          segment, semaphore, object, locals, calls
  <1>1. ASSUME NEW o \in Objects, Open(o) PROVE MakersMutex'
    BY <1>1 DEF Open
  <1>2. ASSUME NEW o \in Objects, Publish(o) PROVE MakersMutex'
    BY <1>2 DEF Publish, Stages, Fresh
  <1>3. ASSUME NEW o \in Objects, Enter(o) PROVE MakersMutex'
    <2>1. life[first] # "gone"
      BY <1>3 DEF Enter, Stages
    <2>2. ref > 0
      BY <1>3, <2>1, OthersFinite DEF Enter, CountIsEnough
    <2> QED BY <1>3, <2>2 DEF Enter
  <1>4. ASSUME NEW o \in Objects, CountIn(o) PROVE MakersMutex'
    BY <1>4 DEF CountIn, Counts, AtTheCount
  <1>5. ASSUME NEW o \in Objects, SetUp(o) PROVE MakersMutex'
    BY <1>5 DEF SetUp, Ready
  <1>6. ASSUME NEW o \in Objects, StartUnmap(o) PROVE MakersMutex'
    BY <1>6 DEF StartUnmap
  <1>7. ASSUME NEW o \in Objects, CountOut(o) PROVE MakersMutex'
    BY <1>7 DEF CountOut, Stages, Counts, AtTheCount
  <1>8. ASSUME NEW o \in Objects, Crash(o) PROVE MakersMutex'
    BY <1>8 DEF Crash
  <1>9. ASSUME NEW t \in Threads, CallStep(t) PROVE MakersMutex'
    BY <1>9, CallsLeaveTheRest
  <1>10. ASSUME NEW t \in Threads, CreateAgain(t) PROVE MakersMutex'
    BY <1>10 DEF CreateAgain
  <1>11. ASSUME NEW t \in Threads, Destroy(t) PROVE MakersMutex'
    BY <1>11 DEF Destroy
  <1>12. CASE UNCHANGED vars
    BY <1>12 DEF vars
  <1> QED BY <1>1, <1>2, <1>3, <1>4, <1>5, <1>6, <1>7, <1>8, <1>9, <1>10, <1>11, <1>12
          DEF Next, ObjectStep, CallStep

LEMMA CountIsEnoughNext == Orderly /\ IInv /\ [Next]_vars => CountIsEnough'
  <1> SUFFICES ASSUME Orderly, IInv, [Next]_vars PROVE CountIsEnough'
    OBVIOUS
  <1> USE HomeAssumption, NoneAssumption DEF IInv, Base, TypeOK, Making, CountIsEnough, Orderly,
          segment, semaphore, object, locals, calls
  <1>0. IsFiniteSet(Others) /\ Cardinality(Others) \in Nat
    BY OthersFinite
  <1>1. ASSUME NEW o \in Objects, Open(o) PROVE CountIsEnough'
    <2>1. CASE exists
      <3>1. Others' = Others
        BY <1>1, <2>1 DEF Open, Others
      <3> QED BY <1>1, <2>1, <3>1 DEF Open, Stages
    <2>2. CASE ~exists
      BY <1>1, <2>2 DEF Open, Stages
    <2> QED BY <2>1, <2>2
  <1>2. ASSUME NEW o \in Objects, Publish(o) PROVE CountIsEnough'
    <2>1. Others' = {}
      BY <1>2 DEF Publish, Others, Stages, Fresh
    <2> QED BY <1>2, <2>1, FS_EmptySet DEF Publish
  <1>3. ASSUME NEW o \in Objects, Enter(o) \/ StartUnmap(o) PROVE CountIsEnough'
    <2>1. Others' = Others
      BY <1>3 DEF Enter, StartUnmap, Others, Stages
    <2> QED BY <1>3, <2>1 DEF Enter, StartUnmap, Stages
  <1>4. ASSUME NEW o \in Objects, CountIn(o) PROVE CountIsEnough'
    <2>1. life' = [life EXCEPT ![o] = "open"] /\ ref' = ref + 1 /\ byte' = byte
      BY <1>4 DEF CountIn, Counts, AtTheCount, MakersMutex
    <2>2. Others' \subseteq Others \cup {o}
      BY <1>4, <2>1 DEF CountIn, Others
    <2>3. /\ IsFiniteSet(Others \cup {o})
          /\ Cardinality(Others \cup {o}) \in {Cardinality(Others), Cardinality(Others) + 1}
      BY <1>0, FS_AddElement
    <2>4. Cardinality(Others') \in Nat /\ Cardinality(Others') <= Cardinality(Others \cup {o})
      BY <2>2, <2>3, FS_Subset, FS_CardinalityType
    <2>5. byte /\ life'[first] # "gone" => life[first] # "gone"
      BY <1>4, <2>1 DEF CountIn, Stages
    <2> QED BY <1>0, <1>4, <2>1, <2>3, <2>4, <2>5 DEF CountIn
  <1>5. ASSUME NEW o \in Objects, SetUp(o) PROVE CountIsEnough'
    <2>1. o = first /\ first' = first
      BY <1>5 DEF SetUp, Stages
    <2>2. Others' = Others
      BY <1>5, <2>1 DEF SetUp, Others
    <2> QED BY <1>5, <2>1, <2>2 DEF SetUp, Ready
  <1>6. ASSUME NEW o \in Objects, CountOut(o) PROVE CountIsEnough'
    <2>1. life' = [life EXCEPT ![o] = "gone"] /\ life[o] = "leaving" /\ first' = first
          /\ byte' = byte /\ seen[o] = ref
      BY <1>6 DEF CountOut, Stages, Counts, AtTheCount
    <2>2. CASE o = first
      BY <2>1, <2>2
    <2>3. CASE o # first
      <3>1. Others' = Others \ {o} /\ o \in Others
        BY <2>1, <2>3 DEF Others
      <3>2. Cardinality(Others') = Cardinality(Others) - 1
        BY <1>0, <3>1, FS_RemoveElement
      <3>3. ref' = IF ref > 0 THEN ref - 1 ELSE 0
        BY <1>6, <2>1 DEF CountOut
      <3>4. Cardinality(Others) > 0
        BY <1>0, <3>1, FS_EmptySet
      <3>5. byte /\ life'[first] # "gone" => life[first] # "gone"
        BY <2>1, <2>3 DEF Stages
      <3> QED BY <1>0, <2>1, <3>2, <3>3, <3>4, <3>5
    <2> QED BY <2>2, <2>3
  <1>7. ASSUME NEW t \in Threads, CreateAgain(t) PROVE CountIsEnough'
    <2>1. Home[t] \in Objects /\ owner[Home[t]] # t
      BY <1>7 DEF CreateAgain
    <2>2. life' = [life EXCEPT ![Home[t]] = "new"] /\ life[Home[t]] = "open"
          /\ UNCHANGED <<first, byte, ref>>
      BY <1>7, <2>1 DEF CreateAgain
    <2>3. Others' \subseteq Others
      BY <2>1, <2>2 DEF Others
    <2>4. Cardinality(Others') \in Nat /\ Cardinality(Others') <= Cardinality(Others)
      BY <1>0, <2>3, FS_Subset, FS_CardinalityType
    <2>5. byte /\ life'[first] # "gone" => life[first] # "gone"
      BY <2>1, <2>2 DEF Stages
    <2> QED BY <1>0, <2>2, <2>4, <2>5
  <1>8. ASSUME NEW t \in Threads, Destroy(t) PROVE CountIsEnough'
    <2>1. life' = [life EXCEPT ![Home[t]] = "closing"] /\ life[Home[t]] = "open"
          /\ Home[t] \in Objects /\ UNCHANGED <<first, byte, ref>>
      BY <1>8 DEF Destroy
    <2>2. Others' = Others
      BY <2>1 DEF Others
    <2> QED BY <2>1, <2>2 DEF Stages
  <1>9. ASSUME UNCHANGED <<first, life, byte, ref>> PROVE CountIsEnough'
    <2>1. Others' = Others
      BY <1>9 DEF Others
    <2> QED BY <1>9, <2>1
  <1>10. ASSUME NEW t \in Threads, CallStep(t) PROVE UNCHANGED <<first, life, byte, ref>>
    BY <1>10, CallsLeaveTheRest
  <1>11. ASSUME NEW o \in Objects, Crash(o) PROVE UNCHANGED <<first, life, byte, ref>>
    BY <1>11 DEF Crash
  <1>12. CASE UNCHANGED vars
    BY <1>9, <1>12 DEF vars
  <1> QED BY <1>1, <1>2, <1>3, <1>4, <1>5, <1>6, <1>7, <1>8, <1>9, <1>10, <1>11, <1>12
          DEF Next, ObjectStep, CallStep

LEMMA IInvHolds == ASSUME Orderly PROVE Spec => []IInv
  <1>1. Init => Stages /\ MakersMutex /\ CountIsEnough
    BY NoneAssumption DEF Init, Stages, Fresh, MakersMutex, CountIsEnough
  <1>2. IInv /\ [Next]_vars => Stages' /\ MakersMutex' /\ CountIsEnough'
    BY StagesNext, MakersMutexNext, CountIsEnoughNext
  <1>3. Init => Base /\ Counts
    BY InitBase, InitCounts
  <1>4. IInv /\ [Next]_vars => Base' /\ Counts'
    BY MakersMutexSettles, BaseNext, CountsNext DEF IInv
  <1> QED BY <1>1, <1>2, <1>3, <1>4, PTL DEF Spec, IInv

(* Who does not reopen and does not renew needs no more for the mutex to    *)
(* have one holder at most, *)
THEOREM MutexHasOneHolder == ASSUME Orderly PROVE Spec => []OneHolder
  <1>1. IInv => OneHolder
    BY DEF IInv, Counts
  <1> QED BY IInvHolds, <1>1, PTL

(* and for nobody to wait in vain.                                          *)
THEOREM OrderlyUsersGetOn == ASSUME Orderly PROVE Spec => []NobodyIsStuck
  <1>1. IInv => Settled
    BY MakersMutexSettles DEF IInv
  <1> QED BY IInvHolds, NobodyWaitsInVain, <1>1, PTL DEF Orderly

(* Until the object that made the segment has left, its count of users is   *)
(* not less than the number of objects that have counted themselves in and  *)
(* not out again: nobody finds it at zero and clears the semaphore.         *)
THEOREM NobodyIsForgotten == ASSUME Orderly PROVE Spec => []CountIsEnough
  <1>1. IInv => CountIsEnough
    BY DEF IInv
  <1> QED BY IInvHolds, <1>1, PTL
=============================================================================

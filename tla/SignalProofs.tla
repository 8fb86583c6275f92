---------------------------- MODULE SignalProofs ----------------------------
(***************************************************************************)
(* What holds of a signal for any number of threads, connections,          *)
(* emissions and settings.  The theorems are at the end; the inductive     *)
(* invariant they follow from is IInv, a conjunction of named parts that   *)
(* are preserved one after the other, each with the help of those before.  *)
(***************************************************************************)
EXTENDS Signal, FiniteSetTheorems, SequenceTheorems, TLAPS

(* Removing the element at a position shifts those behind it by one.        *)
LEMMA RemoveAtFacts ==
  ASSUME NEW S, NEW q \in Seq(S), NEW i \in 1..Len(q)
  PROVE  /\ RemoveAt(q, i) \in Seq(S)
         /\ Len(RemoveAt(q, i)) = Len(q) - 1
         /\ \A j \in 1..(Len(q) - 1) :
              RemoveAt(q, i)[j] = IF j < i THEN q[j] ELSE q[j + 1]
  <1> DEFINE a == SubSeq(q, 1, i - 1)
             b == SubSeq(q, i + 1, Len(q))
  <1>1. Len(q) \in Nat /\ i \in Nat /\ \A j \in 1..Len(q) : q[j] \in S
    BY LenProperties
  <1>2. /\ a \in Seq(S) /\ Len(a) = i - 1
        /\ \A j \in 1..(i - 1) : a[j] = q[j]
    <2>1. \A j \in 1..(i - 1) : q[j] \in S
      BY <1>1
    <2> QED BY <1>1, <2>1, SubSeqProperties
  <1>3. /\ b \in Seq(S) /\ Len(b) = Len(q) - i
        /\ \A j \in 1..(Len(q) - i) : b[j] = q[j + i]
    <2>1. \A j \in (i + 1)..Len(q) : q[j] \in S
      BY <1>1
    <2>2. /\ b \in Seq(S)
          /\ Len(b) = IF i + 1 <= Len(q) THEN Len(q) - (i + 1) + 1 ELSE 0
          /\ \A j \in 1..(Len(q) - (i + 1) + 1) : b[j] = q[(i + 1) + j - 1]
      BY <1>1, <2>1, SubSeqProperties
    <2>3. \A j \in Int : (i + 1) + j - 1 = j + i
      BY <1>1
    <2> QED BY <1>1, <2>2, <2>3
  <1> HIDE DEF a, b
  <1>4. /\ a \o b \in Seq(S) /\ Len(a \o b) = Len(a) + Len(b)
        /\ \A j \in 1..(Len(a) + Len(b)) :
             (a \o b)[j] = IF j <= Len(a) THEN a[j] ELSE b[j - Len(a)]
    BY <1>2, <1>3, ConcatProperties
  <1>5. ASSUME NEW j \in 1..(Len(q) - 1)
        PROVE  (a \o b)[j] = IF j < i THEN q[j] ELSE q[j + 1]
    <2>1. j \in 1..(Len(a) + Len(b))
      BY <1>1, <1>2, <1>3
    <2>2. CASE j < i
      BY <1>1, <1>2, <1>4, <2>1, <2>2
    <2>3. CASE ~(j < i)
      <3>1. /\ j - Len(a) = j - i + 1 /\ j - i + 1 \in 1..(Len(q) - i)
            /\ (j - i + 1) + i = j + 1 /\ ~(j <= Len(a))
        BY <1>1, <1>2, <2>3
      <3> QED BY <1>3, <1>4, <2>1, <2>3, <3>1
    <2> QED BY <2>2, <2>3
  <1>6. RemoveAt(q, i) = a \o b
    BY DEF RemoveAt, a, b
  <1>7. Len(a \o b) = Len(q) - 1
    BY <1>1, <1>2, <1>3, <1>4
  <1>8. \A j \in 1..(Len(q) - 1) : (a \o b)[j] = IF j < i THEN q[j] ELSE q[j + 1]
    BY <1>5, Zenon
  <1> QED BY <1>4, <1>6, <1>7, <1>8, Zenon

(* The elements of a sequence, with its length spelled out.                 *)
LEMMA ToSetFacts ==
  ASSUME NEW S, NEW q \in Seq(S)
  PROVE  ToSet(q) = {q[i] : i \in 1..Len(q)} /\ ToSet(q) \subseteq S
  BY DEF ToSet

LEMMA ToSetAppend ==
  ASSUME NEW S, NEW q \in Seq(S), NEW e \in S
  PROVE  ToSet(Append(q, e)) = ToSet(q) \cup {e}
  <1> DEFINE r == Append(q, e)
  <1>1. /\ r \in Seq(S) /\ Len(r) = Len(q) + 1 /\ Len(q) \in Nat
        /\ \A j \in 1..Len(q) : r[j] = q[j]
        /\ r[Len(q) + 1] = e
    BY AppendProperties, LenProperties
  <1>2. ToSet(q) = {q[j] : j \in 1..Len(q)} /\ ToSet(r) = {r[j] : j \in 1..Len(r)}
    BY <1>1, ToSetFacts
  <1> HIDE DEF r
  <1>3. \A j \in 1..Len(r) : j \in 1..Len(q) \/ j = Len(q) + 1
    BY <1>1
  <1>4. \A j \in 1..Len(q) : j \in 1..Len(r)
    BY <1>1
  <1>5. Len(q) + 1 \in 1..Len(r)
    BY <1>1
  <1> QED BY <1>1, <1>2, <1>3, <1>4, <1>5 DEF r

(* What erasing one slot of an injective sequence leaves.                   *)
LEMMA RemoveAtInjective ==
  ASSUME NEW S, NEW q \in Seq(S), NEW i \in 1..Len(q),
         \A j, k \in 1..Len(q) : q[j] = q[k] => j = k
  PROVE  /\ \A j, k \in 1..Len(RemoveAt(q, i)) :
              RemoveAt(q, i)[j] = RemoveAt(q, i)[k] => j = k
         /\ ToSet(RemoveAt(q, i)) = ToSet(q) \ {q[i]}
  <1> DEFINE r == RemoveAt(q, i)
  <1>1. /\ r \in Seq(S) /\ Len(r) = Len(q) - 1 /\ Len(q) \in Nat
        /\ \A j \in 1..(Len(q) - 1) : r[j] = IF j < i THEN q[j] ELSE q[j + 1]
    BY ONLY RemoveAtFacts, LenProperties, q \in Seq(S), i \in 1..Len(q)
  <1>2. ToSet(q) = {q[j] : j \in 1..Len(q)}
    BY ToSetFacts
  <1>3. ToSet(r) = {r[j] : j \in 1..Len(r)}
    BY <1>1, ToSetFacts
  <1> HIDE DEF r
  <1>4. \A j, k \in 1..Len(r) : r[j] = r[k] => j = k
    BY <1>1
  <1>5. ToSet(r) \subseteq ToSet(q) \ {q[i]}
    BY <1>1, <1>2, <1>3
  <1>6. ASSUME NEW j \in 1..Len(q), j # i PROVE q[j] \in ToSet(r)
    <2>1. CASE j < i
      <3>1. j \in 1..Len(r) /\ r[j] = q[j]  BY <1>1, <2>1
      <3> QED BY <3>1, <1>3
    <2>2. CASE j > i
      <3>1. j - 1 \in 1..Len(r) /\ r[j - 1] = q[j]  BY <1>1, <2>2
      <3> QED BY <3>1, <1>3
    <2> QED BY <1>6, <2>1, <2>2
  <1>7. ToSet(q) \ {q[i]} \subseteq ToSet(r)
    BY <1>2, <1>6
  <1> QED BY <1>4, <1>5, <1>7 DEF r

(* A merge is a sequence of the slots of both containers, each once.        *)
LEMMA MergesFacts ==
  ASSUME SignalAssumption, TypeOK, NEW q \in Merges
  PROVE  /\ q \in Seq(Slots)
         /\ ToSet(q) = ToSet(slots) \cup pending
         /\ \A i, j \in 1..Len(q) : q[i] = q[j] => i = j
  <1> DEFINE n == Len(slots) + Cardinality(pending)
             E == ToSet(slots) \cup pending
  <1>1. n \in Nat
    <2>1. IsFiniteSet(pending)
      <3>1. IsFiniteSet(1..MaxConnects)
        BY FS_Interval DEF SignalAssumption
      <3> QED BY <3>1, FS_Subset DEF TypeOK, Slots
    <2> QED BY <2>1, FS_CardinalityType DEF TypeOK
  <1>2. E \subseteq Slots
    BY ToSetFacts DEF TypeOK
  <1>3. q \in [1..n -> E] /\ IsInjective(q) /\ ToSet(q) = E
    BY DEF Merges
  <1>4. q \in Seq(E) /\ Len(q) = n
    BY <1>1, <1>3, IsASeq
  <1>5. q \in Seq(Slots)
    BY <1>2, <1>4, SeqMonotonic
  <1>6. \A i, j \in 1..Len(q) : q[i] = q[j] => i = j
    BY <1>3, <1>4 DEF IsInjective
  <1> QED BY <1>3, <1>5, <1>6
-----------------------------------------------------------------------------
(* A thread that is disconnecting is outside of emit(), or in a slot.       *)
ClosingPlace == \A t \in Threads : closing[t] # None => pc[t] \in {"idle", "slot"}

Base == TypeOK /\ EmissionOwnsLock /\ ClosingPlace

LEMMA BaseInit == SignalAssumption /\ Init => Base
  <1> SUFFICES ASSUME SignalAssumption, Init PROVE Base
    OBVIOUS
  <1>1. slots \in Seq(Slots) /\ called \in Seq(Slots)
    BY EmptySeq DEF Init
  <1>2. 0 \in 0..MaxConnects /\ 0 \in 0..MaxEmits /\ 0 \in 0..MaxSettings
    BY DEF SignalAssumption
  <1>3. /\ link \in [Slots -> BOOLEAN] /\ conn \in [Slots -> BOOLEAN]
        /\ active \in [Slots -> BOOLEAN] /\ prio \in [Slots -> Int]
    BY DEF Init
  <1>4. /\ pc \in [Threads -> {"idle", "wait"} \cup Emitting]
        /\ closing \in [Threads -> Slots \cup {None}]
        /\ stale \in [Threads -> BOOLEAN]
        /\ \A t \in Threads : pc[t] = "idle"
    BY DEF Init
  <1>5. enabled \in BOOLEAN /\ resorted \in BOOLEAN
    BY Zenon DEF Init
  <1>6. /\ pending \subseteq Slots /\ fresh \subseteq Slots /\ steady \subseteq Slots
        /\ gone \subseteq Slots /\ emitLock \in Threads \cup {None}
        /\ cursor \in Nat \ {0}
    BY DEF Init
  <1>7. /\ created \in 0..MaxConnects /\ emits \in 0..MaxEmits
        /\ settings \in 0..MaxSettings
    BY <1>2 DEF Init
  <1>8. TypeOK
    BY <1>1, <1>3, <1>4, <1>5, <1>6, <1>7 DEF TypeOK
  <1> QED BY <1>8 DEF Init, Base, EmissionOwnsLock, ClosingPlace, Emitting, SignalAssumption

(* The steps of emit() on the thread that runs it.                          *)
LEMMA BaseEmission ==
  ASSUME SignalAssumption, Base, NEW t \in Threads,
         \/ Emit(t) \/ EmitDisabled(t) \/ EmitBegin(t) \/ Check(t)
         \/ Invoke(t) \/ Settle(t) \/ SlotThrows(t) \/ EmitEnd(t)
  PROVE  Base'
  <1> USE DEF Base, Emitting
  <1>1. CASE Emit(t)
    BY <1>1 DEF Emit, TypeOK, EmissionOwnsLock, ClosingPlace, SignalAssumption
  <1>2. CASE EmitDisabled(t)
    BY <1>2 DEF EmitDisabled, TypeOK, EmissionOwnsLock, ClosingPlace
  <1>3. CASE EmitBegin(t)
    <2>1. slots' \in Seq(Slots) /\ ToSet(slots') \subseteq Slots
      BY <1>3, MergesFacts, ToSetFacts DEF EmitBegin
    <2>2. stale' \in [Threads -> BOOLEAN]
      BY <1>3 DEF EmitBegin, Relocated, TypeOK
    <2>3. steady' \subseteq Slots
      BY <1>3, <2>1 DEF EmitBegin
    <2>4. called' \in Seq(Slots) /\ cursor' \in Nat \ {0}
      BY <1>3, EmptySeq DEF EmitBegin
    <2>5. \A u \in Threads : pc'[u] \notin {"checked", "slot"}
      BY <1>3 DEF EmitBegin, TypeOK, EmissionOwnsLock, SignalAssumption
    <2>6. pc' \in [Threads -> {"idle", "wait"} \cup Emitting]
      BY <1>3 DEF EmitBegin, TypeOK
    <2>7. TypeOK'
      BY <1>3, <2>1, <2>2, <2>3, <2>4, <2>5, <2>6 DEF EmitBegin, TypeOK
    <2>8. EmissionOwnsLock' /\ ClosingPlace'
      BY <1>3 DEF EmitBegin, TypeOK, EmissionOwnsLock, ClosingPlace, SignalAssumption
    <2> QED BY <2>7, <2>8
  <1>4. CASE Check(t)
    <2>1. cursor \in 1..Len(slots) /\ Len(slots) \in Nat /\ slots \in Seq(Slots)
      BY <1>4, LenProperties DEF Check, TypeOK
    <2>2. CASE link[slots[cursor]]
      BY <1>4, <2>1, <2>2 DEF Check, TypeOK, EmissionOwnsLock, ClosingPlace
    <2>3. CASE ~link[slots[cursor]]
      <3>1. slots' \in Seq(Slots)
        BY <1>4, <2>1, <2>3, RemoveAtFacts DEF Check, EraseAtCursor
      <3>2. stale' \in [Threads -> BOOLEAN]
        BY <1>4, <2>3 DEF Check, Relocated, TypeOK
      <3>3. UNCHANGED <<pc, cursor, emitLock, closing>>
        BY <1>4, <2>3 DEF Check, EraseAtCursor
      <3>4. TypeOK'
        BY <1>4, <3>1, <3>2, <3>3 DEF Check, TypeOK, EmissionOwnsLock
      <3> QED BY <3>3, <3>4 DEF EmissionOwnsLock, ClosingPlace
    <2> QED BY <2>2, <2>3
  <1>5. CASE Invoke(t)
    <2>1. slots[cursor] \in Slots
      BY <1>5, LenProperties DEF Invoke, TypeOK
    <2>2. called' \in Seq(Slots)
      BY <1>5, <2>1, AppendProperties DEF Invoke, TypeOK
    <2> QED BY <1>5, <2>2 DEF Invoke, TypeOK, EmissionOwnsLock, ClosingPlace
  <1>6. CASE Settle(t)
    <2>1. cursor \in 1..Len(slots) /\ Len(slots) \in Nat /\ slots \in Seq(Slots)
      BY <1>6, LenProperties DEF Settle, TypeOK
    <2>2. CASE link[slots[cursor]]
      BY <1>6, <2>1, <2>2 DEF Settle, Advance, TypeOK, EmissionOwnsLock, ClosingPlace
    <2>3. CASE ~link[slots[cursor]]
      <3>1. slots' \in Seq(Slots)
        BY <1>6, <2>1, <2>3, RemoveAtFacts DEF Settle, EraseAtCursor
      <3>2. stale' \in [Threads -> BOOLEAN]
        BY <1>6, <2>3 DEF Settle, Relocated, TypeOK
      <3>3. UNCHANGED <<cursor, emitLock, closing>>
        BY <1>6, <2>3 DEF Settle, EraseAtCursor
      <3>4. TypeOK'
        BY <1>6, <3>1, <3>2, <3>3 DEF Settle, TypeOK, EmissionOwnsLock
      <3> QED BY <1>6, <3>3, <3>4 DEF Settle, TypeOK, EmissionOwnsLock, ClosingPlace
    <2> QED BY <2>2, <2>3
  <1>7. CASE SlotThrows(t)
    BY <1>7 DEF SlotThrows, Leave, TypeOK, EmissionOwnsLock, ClosingPlace, SignalAssumption
  <1>8. CASE EmitEnd(t)
    BY <1>8 DEF EmitEnd, Leave, TypeOK, EmissionOwnsLock, ClosingPlace, SignalAssumption
  <1> QED BY <1>1, <1>2, <1>3, <1>4, <1>5, <1>6, <1>7, <1>8

(* Everything else a thread can do, outside of emit() or in a slot.         *)
LEMMA BaseCalls ==
  ASSUME SignalAssumption, Base, NEW t \in Threads,
         \/ DisconnectStore(t) \/ Clear(t)
         \/ \E b \in BOOLEAN : SetEnabled(t, b)
         \/ \E p \in Priorities : Connect(t, p)
         \/ \E s \in Slots :
              \/ DisconnectLoad(t, s)
              \/ \E b \in BOOLEAN : EnableSlot(t, s, b)
              \/ \E p \in Priorities : SetPriority(t, s, p)
  PROVE  Base'
  <1> USE DEF Base
  <1>1. CASE DisconnectStore(t)
    BY <1>1 DEF DisconnectStore, TypeOK, EmissionOwnsLock, ClosingPlace
  <1>2. CASE Clear(t)
    <2>1. slots' \in Seq(Slots) /\ pending' \subseteq Slots
      BY <1>2, EmptySeq DEF Clear
    <2>2. /\ link' \in [Slots -> BOOLEAN] /\ conn' \in [Slots -> BOOLEAN]
          /\ stale' \in [Threads -> BOOLEAN]
      BY <1>2 DEF Clear, Without, Relocated, TypeOK
    <2>3. \A u \in Threads : pc[u] \notin {"checked", "slot"}
      BY <1>2 DEF Clear, EmissionOwnsLock, Emitting, SignalAssumption
    <2>4. TypeOK'
      BY <1>2, <2>1, <2>2, <2>3 DEF Clear, TypeOK
    <2> QED BY <1>2, <2>4 DEF Clear, EmissionOwnsLock, ClosingPlace
  <1>3. ASSUME NEW b \in BOOLEAN, SetEnabled(t, b) PROVE Base'
    BY <1>3 DEF SetEnabled, TypeOK, EmissionOwnsLock, ClosingPlace, SignalAssumption
  <1>4. ASSUME NEW p \in Priorities, Connect(t, p) PROVE Base'
    <2>1. /\ created' \in 0..MaxConnects /\ created' \in Slots
          /\ created' = created + 1
      BY <1>4 DEF Connect, TypeOK, Slots, SignalAssumption
    <2>2. pending' \subseteq Slots /\ fresh' \subseteq Slots /\ stale' \in [Threads -> BOOLEAN]
      BY <1>4, <2>1 DEF Connect, Relocated, TypeOK
    <2>3. /\ link' \in [Slots -> BOOLEAN] /\ conn' \in [Slots -> BOOLEAN]
          /\ prio' \in [Slots -> Int]
      BY <1>4, <2>1 DEF Connect, TypeOK, SignalAssumption
    <2>4. TypeOK'
      BY <1>4, <2>1, <2>2, <2>3 DEF Connect, TypeOK
    <2> QED BY <1>4, <2>4 DEF Connect, EmissionOwnsLock, ClosingPlace
  <1>5. ASSUME NEW s \in Slots, DisconnectLoad(t, s) PROVE Base'
    BY <1>5 DEF DisconnectLoad, Free, TypeOK, EmissionOwnsLock, ClosingPlace
  <1>6. ASSUME NEW s \in Slots, NEW b \in BOOLEAN, EnableSlot(t, s, b) PROVE Base'
    BY <1>6 DEF EnableSlot, TypeOK, EmissionOwnsLock, ClosingPlace, SignalAssumption
  <1>7. ASSUME NEW s \in Slots, NEW p \in Priorities, SetPriority(t, s, p) PROVE Base'
    <2>1. resorted' \in BOOLEAN
      BY <1>7 DEF SetPriority
    <2> QED
      BY <1>7, <2>1 DEF SetPriority, TypeOK, EmissionOwnsLock, ClosingPlace, SignalAssumption
  <1> QED BY <1>1, <1>2, <1>3, <1>4, <1>5, <1>6, <1>7

LEMMA BaseNext == SignalAssumption /\ Base /\ [Next]_vars => Base'
  <1> SUFFICES ASSUME SignalAssumption, Base, [Next]_vars PROVE Base'
    OBVIOUS
  <1>1. CASE UNCHANGED vars
    BY <1>1 DEF vars, code, Base, TypeOK, EmissionOwnsLock, ClosingPlace
  <1> QED BY <1>1, BaseEmission, BaseCalls DEF Next
-----------------------------------------------------------------------------
(* Where the slots made so far can be: numbers given out by connect(), at   *)
(* most once in one of the containers, and not called by the emission that  *)
(* saw them connected.                                                      *)
Numbered ==
    /\ pending \cup ToSet(slots) \cup fresh \cup gone \subseteq 1..created
    /\ ToSet(called) \subseteq 1..created
    /\ \A t \in Threads : closing[t] # None => closing[t] \in 1..created

(* What is noted about an emission is noted while one is under way.         *)
NothingBetween == emitLock = None => called = <<>> /\ fresh = {} /\ steady = {}

Placed == /\ Numbered /\ OnePlace /\ NothingBetween
          /\ NoLateSubscriber /\ fresh \cap ToSet(slots) = {}

LEMMA ToSetEmpty == ToSet(<<>>) = {}
  BY DEF ToSet

LEMMA PlacedInit == SignalAssumption /\ Init => Placed
  BY ToSetEmpty DEF Init, Placed, Numbered, OnePlace, NothingBetween, NoLateSubscriber

(* Erasing the slot under the cursor.                                       *)
LEMMA PlacedErase ==
  ASSUME SignalAssumption, Base, Placed, EraseAtCursor, cursor \in 1..Len(slots),
         UNCHANGED <<pending, fresh, gone, created, called, closing, emitLock, steady>>
  PROVE  Placed' /\ ToSet(slots') = ToSet(slots) \ {slots[cursor]}
  <1>1. slots \in Seq(Slots) /\ slots' = RemoveAt(slots, cursor)
    BY DEF EraseAtCursor, Base, TypeOK
  <1>2. \A i, j \in 1..Len(slots) : slots[i] = slots[j] => i = j
    BY DEF Placed, OnePlace
  <1>3. /\ \A i, j \in 1..Len(slots') : slots'[i] = slots'[j] => i = j
        /\ ToSet(slots') = ToSet(slots) \ {slots[cursor]}
    BY <1>1, <1>2, RemoveAtInjective
  <1>4. OnePlace'
    BY <1>3 DEF Placed, OnePlace
  <1>5. Numbered' /\ NothingBetween' /\ NoLateSubscriber' /\ (fresh \cap ToSet(slots) = {})'
    BY <1>3 DEF Placed, Numbered, NothingBetween, NoLateSubscriber
  <1> QED BY <1>3, <1>4, <1>5 DEF Placed

LEMMA PlacedEmission ==
  ASSUME SignalAssumption, Base, Placed, NEW t \in Threads,
         \/ Emit(t) \/ EmitDisabled(t) \/ EmitBegin(t) \/ Check(t)
         \/ Invoke(t) \/ Settle(t) \/ SlotThrows(t) \/ EmitEnd(t)
  PROVE  Placed'
  <1> USE DEF Placed
  <1>1. CASE Emit(t) \/ EmitDisabled(t)
    BY <1>1 DEF Emit, EmitDisabled, Numbered, OnePlace, NothingBetween, NoLateSubscriber
  <1>2. CASE EmitBegin(t)
    <2>1. /\ ToSet(slots') = ToSet(slots) \cup pending /\ pending' = {}
          /\ \A i, j \in 1..Len(slots') : slots'[i] = slots'[j] => i = j
      BY <1>2, MergesFacts DEF EmitBegin, Base
    <2>2. called' = <<>> /\ fresh' = {} /\ emitLock' # None
      BY <1>2 DEF EmitBegin, SignalAssumption
    <2>3. Numbered'
      BY <1>2, <2>1, <2>2, ToSetEmpty DEF EmitBegin, Numbered
    <2> QED BY <2>1, <2>2, <2>3, ToSetEmpty DEF OnePlace, NothingBetween, NoLateSubscriber
  <1>3. CASE Check(t)
    <2>1. cursor \in 1..Len(slots)
      BY <1>3, LenProperties DEF Check, Base, TypeOK
    <2>2. CASE link[slots[cursor]]
      BY <1>3, <2>2 DEF Check, Numbered, OnePlace, NothingBetween, NoLateSubscriber
    <2>3. CASE ~link[slots[cursor]]
      BY <1>3, <2>1, <2>3, PlacedErase DEF Check
    <2> QED BY <2>2, <2>3
  <1>4. CASE Invoke(t)
    <2>1. /\ slots \in Seq(Slots) /\ called \in Seq(Slots)
          /\ cursor \in 1..Len(slots) /\ slots[cursor] \in Slots
      BY <1>4, LenProperties DEF Invoke, Base, TypeOK
    <2>2. slots[cursor] \in ToSet(slots)
      BY <2>1, ToSetFacts
    <2>3. ToSet(called') = ToSet(called) \cup {slots[cursor]}
      BY <1>4, <2>1, ToSetAppend DEF Invoke
    <2>4. emitLock # None
      BY <1>4 DEF Invoke, Base, EmissionOwnsLock, Emitting, SignalAssumption
    <2> QED
      BY <1>4, <2>2, <2>3, <2>4
         DEF Invoke, Numbered, OnePlace, NothingBetween, NoLateSubscriber
  <1>5. CASE Settle(t)
    <2>1. cursor \in 1..Len(slots)
      BY <1>5, LenProperties DEF Settle, Base, TypeOK
    <2>2. CASE link[slots[cursor]]
      BY <1>5, <2>2 DEF Settle, Advance, Numbered, OnePlace, NothingBetween, NoLateSubscriber
    <2>3. CASE ~link[slots[cursor]]
      BY <1>5, <2>1, <2>3, PlacedErase DEF Settle
    <2> QED BY <2>2, <2>3
  <1>6. CASE SlotThrows(t) \/ EmitEnd(t)
    BY <1>6, ToSetEmpty
       DEF SlotThrows, EmitEnd, Leave, Numbered, OnePlace, NothingBetween, NoLateSubscriber
  <1> QED BY <1>1, <1>2, <1>3, <1>4, <1>5, <1>6

LEMMA PlacedCalls ==
  ASSUME SignalAssumption, Base, Placed, NEW t \in Threads,
         \/ DisconnectStore(t) \/ Clear(t)
         \/ \E b \in BOOLEAN : SetEnabled(t, b)
         \/ \E p \in Priorities : Connect(t, p)
         \/ \E s \in Slots :
              \/ DisconnectLoad(t, s)
              \/ \E b \in BOOLEAN : EnableSlot(t, s, b)
              \/ \E p \in Priorities : SetPriority(t, s, p)
  PROVE  Placed'
  <1> USE DEF Placed
  <1>1. CASE DisconnectStore(t)
    <2>1. closing[t] \in 1..created /\ gone' = gone \cup {closing[t]}
      BY <1>1 DEF DisconnectStore, Numbered
    <2>2. \A u \in Threads : closing'[u] = closing[u] \/ closing'[u] = None
      BY <1>1 DEF DisconnectStore, Base, TypeOK
    <2> QED
      BY <1>1, <2>1, <2>2
         DEF DisconnectStore, Numbered, OnePlace, NothingBetween, NoLateSubscriber
  <1>2. CASE Clear(t)
    BY <1>2, ToSetEmpty DEF Clear, Numbered, OnePlace, NothingBetween, NoLateSubscriber
  <1>3. ASSUME NEW p \in Priorities, Connect(t, p) PROVE Placed'
    <2>1. /\ created' = created + 1 /\ created \in Nat
          /\ created' \notin 1..created /\ created' \in 1..created'
          /\ 1..created \subseteq 1..created'
      BY <1>3 DEF Connect, Base, TypeOK, SignalAssumption
    <2>2. pending' \subseteq pending \cup {created'}
      BY <1>3 DEF Connect
    <2>3. Numbered'
      BY <1>3, <2>1, <2>2 DEF Connect, Numbered
    <2>4. OnePlace'
      BY <1>3, <2>1, <2>2 DEF Connect, Numbered, OnePlace
    <2>5. NothingBetween'
      BY <1>3 DEF Connect, NothingBetween
    <2>6. NoLateSubscriber' /\ (fresh \cap ToSet(slots) = {})'
      BY <1>3, <2>1 DEF Connect, Numbered, NoLateSubscriber
    <2> QED BY <2>3, <2>4, <2>5, <2>6
  <1>4. ASSUME NEW s \in Slots, DisconnectLoad(t, s) PROVE Placed'
    <2>1. \A u \in Threads : closing'[u] = closing[u] \/ closing'[u] = s
      BY <1>4 DEF DisconnectLoad, Base, TypeOK
    <2>2. s \in 1..created
      BY <1>4 DEF DisconnectLoad
    <2> QED
      BY <1>4, <2>1, <2>2
         DEF DisconnectLoad, Numbered, OnePlace, NothingBetween, NoLateSubscriber
  <1>5. ASSUME NEW b \in BOOLEAN, SetEnabled(t, b) PROVE Placed'
    BY <1>5 DEF SetEnabled, Numbered, OnePlace, NothingBetween, NoLateSubscriber
  <1>6. ASSUME NEW s \in Slots, NEW b \in BOOLEAN, EnableSlot(t, s, b) PROVE Placed'
    BY <1>6 DEF EnableSlot, Numbered, OnePlace, NothingBetween, NoLateSubscriber
  <1>7. ASSUME NEW s \in Slots, NEW p \in Priorities, SetPriority(t, s, p) PROVE Placed'
    BY <1>7 DEF SetPriority, Numbered, OnePlace, NothingBetween, NoLateSubscriber
  <1> QED BY <1>1, <1>2, <1>3, <1>4, <1>5, <1>6, <1>7

LEMMA PlacedNext == SignalAssumption /\ Base /\ Placed /\ [Next]_vars => Placed'
  <1> SUFFICES ASSUME SignalAssumption, Base, Placed, [Next]_vars PROVE Placed'
    OBVIOUS
  <1>1. CASE UNCHANGED vars
    BY <1>1 DEF vars, code, Placed, Numbered, OnePlace, NothingBetween, NoLateSubscriber
  <1> QED BY <1>1, PlacedEmission, PlacedCalls DEF Next
-----------------------------------------------------------------------------
(* When the application keeps the calls that take no lock to itself, a      *)
(* disconnection never overlaps with an emission of another thread, so the  *)
(* slot it is about to write to stays where it is.                          *)
Exclusive ==
    /\ \A t \in Threads : ~stale[t]
    /\ \A t \in Threads : closing[t] # None =>
         /\ emitLock \in {t, None}
         /\ \A u \in Threads \ {t} : closing[u] = None

(* A connection that was disconnected has no slot, and the slot that is     *)
(* about to be called has a connection.                                     *)
GoneUnlinked == \A s \in gone : ~link[s]
CheckedLinked == \A t \in Threads : pc[t] = "checked" => link[slots[cursor]]

Paired == Exclusive /\ PairsAgree /\ GoneUnlinked /\ CheckedLinked

LEMMA PairedInit == SignalAssumption /\ Init => Paired
  BY DEF Init, Paired, Exclusive, PairsAgree, GoneUnlinked, CheckedLinked

(* Nobody is disconnecting while t is inside the signal, so nothing that it *)
(* moves or destroys is being pointed at.                                   *)
LEMMA NothingStale ==
  ASSUME SignalAssumption, Base, Paired, NEW S \in SUBSET Slots,
         \A u \in Threads : closing[u] = None
  PROVE  \A u \in Threads : ~Relocated(S)[u]
  <1>1. None \notin S
    <2>1. \A x \in 1..MaxConnects : x \in Int
      OBVIOUS
    <2> QED BY <2>1, Zenon DEF SignalAssumption, Slots
  <1>2. \A u \in Threads : Relocated(S)[u] = (stale[u] \/ closing[u] \in S)
    BY DEF Relocated
  <1> QED BY <1>1, <1>2 DEF Paired, Exclusive

LEMMA PairedEmission ==
  ASSUME SignalAssumption, Synchronised, Base, Placed, Paired, NEW t \in Threads,
         \/ Emit(t) \/ EmitDisabled(t) \/ EmitBegin(t) \/ Check(t)
         \/ Invoke(t) \/ Settle(t) \/ SlotThrows(t) \/ EmitEnd(t)
  PROVE  Paired'
  <1> USE DEF Paired
  <1>1. CASE Emit(t) \/ EmitDisabled(t) \/ SlotThrows(t) \/ EmitEnd(t)
    <2>1. \A u \in Threads : pc'[u] = "checked" => pc[u] = "checked"
      BY <1>1 DEF Emit, EmitDisabled, SlotThrows, EmitEnd, Leave, Base, TypeOK
    <2>2. UNCHANGED <<pending, slots, link, conn, closing, stale, gone>>
      BY <1>1 DEF Emit, EmitDisabled, SlotThrows, EmitEnd
    <2>3. emitLock' = emitLock \/ emitLock' = None
      BY <1>1 DEF Emit, EmitDisabled, SlotThrows, EmitEnd
    <2>4. CheckedLinked'
      <3> SUFFICES ASSUME NEW u \in Threads, pc'[u] = "checked"
                   PROVE  link[slots[cursor']]
        BY <2>2 DEF CheckedLinked
      <3>1. pc[u] = "checked" /\ emitLock = u
        BY <2>1 DEF Base, EmissionOwnsLock, Emitting
      <3>2. cursor' = cursor
        BY <1>1, <3>1 DEF Emit, EmitDisabled, SlotThrows, EmitEnd, Leave,
                          Base, EmissionOwnsLock, Emitting
      <3> QED BY <3>1, <3>2 DEF CheckedLinked
    <2> QED BY <2>2, <2>3, <2>4 DEF Exclusive, PairsAgree, GoneUnlinked
  <1>2. CASE EmitBegin(t)
    <2>1. \A u \in Threads : closing[u] = None
      BY <1>2 DEF EmitBegin, Quiet, Base, ClosingPlace
    <2>2. \A u \in Threads : ~stale'[u]
      BY <1>2, <2>1, NothingStale DEF EmitBegin, Base, TypeOK
    <2>3. ToSet(slots') = ToSet(slots) \cup pending /\ pending' = {}
      BY <1>2, MergesFacts DEF EmitBegin, Base
    <2>4. \A u \in Threads : pc'[u] # "checked"
      BY <1>2 DEF EmitBegin, Base, EmissionOwnsLock, TypeOK, Emitting, SignalAssumption
    <2> QED
      BY <1>2, <2>1, <2>2, <2>3, <2>4
         DEF EmitBegin, Exclusive, PairsAgree, GoneUnlinked, CheckedLinked
  <1>3. \A u \in Threads : u # t /\ pc[t] \in Emitting => closing[u] = None
    BY DEF Base, EmissionOwnsLock, Exclusive, SignalAssumption
  <1>4. CASE Check(t)
    <2>1. cursor \in 1..Len(slots)
      BY <1>4, LenProperties DEF Check, Base, TypeOK
    <2>2. \A u \in Threads : closing[u] = None
      BY <1>3, <1>4 DEF Check, Base, ClosingPlace, Emitting
    <2>3. CASE link[slots[cursor]]
      BY <1>4, <2>3 DEF Check, Base, TypeOK, Exclusive, PairsAgree, GoneUnlinked, CheckedLinked
    <2>4. CASE ~link[slots[cursor]]
      <3>1. ToSet(slots') = ToSet(slots) \ {slots[cursor]}
        BY <1>4, <2>1, <2>4, PlacedErase DEF Check
      <3>2. slots[cursor] \in Slots
        BY <2>1, LenProperties DEF Base, TypeOK
      <3>3. \A u \in Threads : ~stale'[u]
        BY <1>4, <2>2, <2>4, <3>2, NothingStale DEF Check
      <3>4. \A u \in Threads : pc'[u] # "checked"
        BY <1>4, <2>4 DEF Check, Base, EmissionOwnsLock, Emitting
      <3> QED
        BY <1>4, <2>2, <2>4, <3>1, <3>3, <3>4
           DEF Check, Exclusive, PairsAgree, GoneUnlinked, CheckedLinked
    <2> QED BY <2>3, <2>4
  <1>5. CASE Invoke(t)
    BY <1>5 DEF Invoke, Base, TypeOK, Exclusive, PairsAgree, GoneUnlinked, CheckedLinked
  <1>6. CASE Settle(t)
    <2>1. cursor \in 1..Len(slots)
      BY <1>6, LenProperties DEF Settle, Base, TypeOK
    <2>2. \A u \in Threads : closing[u] = None
      BY <1>3, <1>6 DEF Settle, Base, ClosingPlace, Emitting
    <2>3. \A u \in Threads : pc'[u] # "checked"
      BY <1>6 DEF Settle, Base, TypeOK, EmissionOwnsLock, Emitting
    <2>4. CASE link[slots[cursor]]
      BY <1>6, <2>3, <2>4
         DEF Settle, Advance, Exclusive, PairsAgree, GoneUnlinked, CheckedLinked
    <2>5. CASE ~link[slots[cursor]]
      <3>1. ToSet(slots') = ToSet(slots) \ {slots[cursor]}
        BY <1>6, <2>1, <2>5, PlacedErase DEF Settle
      <3>2. slots[cursor] \in Slots
        BY <2>1, LenProperties DEF Base, TypeOK
      <3>3. \A u \in Threads : ~stale'[u]
        BY <1>6, <2>2, <2>5, <3>2, NothingStale DEF Settle
      <3> QED
        BY <1>6, <2>2, <2>3, <2>5, <3>1, <3>3
           DEF Settle, Exclusive, PairsAgree, GoneUnlinked, CheckedLinked
    <2> QED BY <2>4, <2>5
  <1> QED BY <1>1, <1>2, <1>4, <1>5, <1>6

LEMMA PairedCalls ==
  ASSUME SignalAssumption, Synchronised, Base, Placed, Paired, NEW t \in Threads,
         \/ DisconnectStore(t) \/ Clear(t)
         \/ \E b \in BOOLEAN : SetEnabled(t, b)
         \/ \E p \in Priorities : Connect(t, p)
         \/ \E s \in Slots :
              \/ DisconnectLoad(t, s)
              \/ \E b \in BOOLEAN : EnableSlot(t, s, b)
              \/ \E p \in Priorities : SetPriority(t, s, p)
  PROVE  Paired'
  <1> USE DEF Paired
  <1>1. CASE DisconnectStore(t)
    <2> DEFINE s == closing[t]
    <2>1. s \in Slots /\ ~stale[t] /\ emitLock \in {t, None} /\ pc[t] \in {"idle", "slot"}
      BY <1>1 DEF DisconnectStore, Base, TypeOK, ClosingPlace, Exclusive
    <2>2. \A u \in Threads : pc[u] # "checked"
      BY <2>1 DEF Base, EmissionOwnsLock, Emitting, SignalAssumption
    <2>3. /\ link' = [link EXCEPT ![s] = FALSE] /\ conn' = [conn EXCEPT ![s] = FALSE]
          /\ gone' = gone \cup {s} /\ UNCHANGED <<pc, pending, slots, emitLock>>
      BY <1>1, <2>1 DEF DisconnectStore
    <2>4. closing' = [closing EXCEPT ![t] = None] /\ stale' = [stale EXCEPT ![t] = FALSE]
      BY <1>1 DEF DisconnectStore
    <2>5. Exclusive'
      BY <2>3, <2>4 DEF Base, TypeOK, Exclusive
    <2>6. PairsAgree' /\ GoneUnlinked'
      BY <2>1, <2>3 DEF Base, TypeOK, PairsAgree, GoneUnlinked
    <2> QED BY <2>2, <2>3, <2>5, <2>6 DEF CheckedLinked
  <1>2. CASE Clear(t)
    <2>1. \A u \in Threads : closing[u] = None
      BY <1>2 DEF Clear, Quiet
    <2>2. pending \cup ToSet(slots) \in SUBSET Slots
      BY ToSetFacts DEF Base, TypeOK
    <2>3. \A u \in Threads : ~stale'[u]
      BY <1>2, <2>1, <2>2, NothingStale DEF Clear
    <2>4. \A u \in Threads : pc[u] # "checked"
      BY <1>2 DEF Clear, Base, EmissionOwnsLock, Emitting, SignalAssumption
    <2>5. \A s \in Slots : ~link'[s] /\ ~conn'[s]
      BY <1>2 DEF Clear, Without, PairsAgree
    <2>6. GoneUnlinked'
      BY <1>2, <2>5 DEF Clear, Base, TypeOK, GoneUnlinked
    <2> QED
      BY <1>2, <2>1, <2>3, <2>4, <2>5, <2>6
         DEF Clear, Exclusive, PairsAgree, CheckedLinked
  <1>3. ASSUME NEW p \in Priorities, Connect(t, p) PROVE Paired'
    <2>1. \A u \in Threads : closing[u] = None
      BY <1>3 DEF Connect, Quiet, Free
    <2>2. \A u \in Threads : ~stale'[u]
      <3>1. PICK moved \in {{s \in pending : ~link[s]}, pending} : stale' = Relocated(moved)
        BY <1>3 DEF Connect
      <3>2. moved \in SUBSET Slots
        BY <3>1 DEF Base, TypeOK
      <3> QED BY <2>1, <3>1, <3>2, NothingStale
    <2>3. created' = created + 1 /\ created' \in Slots /\ created' \notin 1..created
      BY <1>3 DEF Connect, Base, TypeOK, Slots, SignalAssumption
    <2>4. /\ link' = [link EXCEPT ![created'] = TRUE]
          /\ conn' = [conn EXCEPT ![created'] = TRUE]
          /\ pending' = {s \in pending : link[s]} \cup {created'}
          /\ UNCHANGED <<slots, gone, pc, cursor, closing, emitLock>>
      BY <1>3 DEF Connect
    <2>5. PairsAgree'
      BY <2>3, <2>4 DEF Base, TypeOK, PairsAgree
    <2>6. GoneUnlinked'
      BY <2>3, <2>4 DEF Base, TypeOK, Placed, Numbered, GoneUnlinked
    <2>7. CheckedLinked'
      <3> SUFFICES ASSUME NEW u \in Threads, pc[u] = "checked"
                   PROVE  link'[slots[cursor]]
        BY <2>4 DEF CheckedLinked
      <3>1. slots[cursor] \in Slots
        BY LenProperties DEF Base, TypeOK
      <3> QED BY <2>3, <2>4, <3>1 DEF Base, TypeOK, CheckedLinked
    <2> QED BY <2>1, <2>2, <2>4, <2>5, <2>6, <2>7 DEF Exclusive
  <1>4. ASSUME NEW s \in Slots, DisconnectLoad(t, s) PROVE Paired'
    <2>1. /\ \A u \in Threads \ {t} : closing[u] = None
          /\ emitLock \in {t, None} /\ closing' = [closing EXCEPT ![t] = s]
          /\ UNCHANGED <<stale, emitLock, link, conn, pending, slots, gone, pc, cursor>>
      BY <1>4 DEF DisconnectLoad, Alone, Quiet
    <2>2. Exclusive'
      BY <2>1 DEF Base, TypeOK, Exclusive
    <2> QED BY <2>1, <2>2 DEF PairsAgree, GoneUnlinked, CheckedLinked
  <1>5. ASSUME NEW b \in BOOLEAN, SetEnabled(t, b) PROVE Paired'
    BY <1>5 DEF SetEnabled, Exclusive, PairsAgree, GoneUnlinked, CheckedLinked
  <1>6. ASSUME NEW s \in Slots, NEW b \in BOOLEAN, EnableSlot(t, s, b) PROVE Paired'
    BY <1>6 DEF EnableSlot, Exclusive, PairsAgree, GoneUnlinked, CheckedLinked
  <1>7. ASSUME NEW s \in Slots, NEW p \in Priorities, SetPriority(t, s, p) PROVE Paired'
    BY <1>7 DEF SetPriority, Exclusive, PairsAgree, GoneUnlinked, CheckedLinked
  <1> QED BY <1>1, <1>2, <1>3, <1>4, <1>5, <1>6, <1>7

LEMMA PairedNext ==
  SignalAssumption /\ Synchronised /\ Base /\ Placed /\ Paired /\ [Next]_vars => Paired'
  <1> SUFFICES ASSUME SignalAssumption, Synchronised, Base, Placed, Paired, [Next]_vars
               PROVE  Paired'
    OBVIOUS
  <1>1. CASE UNCHANGED vars
    BY <1>1 DEF vars, code, Paired, Exclusive, PairsAgree, GoneUnlinked, CheckedLinked
  <1> QED BY <1>1, PairedEmission, PairedCalls DEF Next
-----------------------------------------------------------------------------
(* The shape of one emission.  Of the slots that are still in the           *)
(* container, those in front of the cursor were dealt with and those behind *)
(* it were not called; the one at the cursor was called when its function   *)
(* is running.                                                              *)
Running == \E t \in Threads : pc[t] = "slot"

CalledAreBehind ==
    \A i \in 1..Len(called), j \in 1..Len(slots) :
      called[i] = slots[j] => j < cursor \/ (j = cursor /\ Running)

(* Who must be called was called or is still ahead.                         *)
SteadyAhead ==
    /\ \A s \in steady : link[s] /\ active[s]
    /\ \A s \in steady : \/ s \in ToSet(called)
                          \/ \E j \in 1..Len(slots) : cursor <= j /\ s = slots[j]
    /\ Running => slots[cursor] \in ToSet(called)

(* What was called has no higher priority value than what is still ahead.   *)
OrderAhead ==
    ~resorted =>
      /\ Ordered(slots) /\ Ordered(called)
      /\ \A i \in 1..Len(called), j \in 1..Len(slots) :
           cursor <= j => prio[called[i]] <= prio[slots[j]]
      /\ ToSet(called) \cap pending = {}

CalledDistinct == \A i, j \in 1..Len(called) : called[i] = called[j] => i = j

Emission == CalledDistinct /\ CalledAreBehind /\ SteadyAhead /\ OrderAhead

LEMMA EmissionInit == SignalAssumption /\ Init => Emission
  <1> SUFFICES ASSUME Init PROVE Emission
    OBVIOUS
  <1>1. Len(called) = 0 /\ ToSet(called) = {} /\ Len(slots) = 0 /\ ~Running
    BY ToSetEmpty DEF Init, Running
  <1> QED
    BY <1>1 DEF Init, Emission, CalledDistinct, CalledAreBehind, SteadyAhead,
                OrderAhead, Ordered

(* After an emission there is nothing to show.                              *)
LEMMA EmissionAtRest ==
  ASSUME called' = <<>>, steady' = {}, \A t \in Threads : pc'[t] # "slot",
         resorted' \/ Ordered(slots)'
  PROVE  Emission'
  <1>1. Len(called') = 0 /\ ToSet(called') = {} /\ ~Running'
    BY ToSetEmpty DEF Running
  <1> QED
    BY <1>1 DEF Emission, CalledDistinct, CalledAreBehind, SteadyAhead, OrderAhead, Ordered

(* Erasing the slot at the cursor: the next one takes its place.            *)
LEMMA EmissionErase ==
  ASSUME SignalAssumption, Base, Emission, EraseAtCursor, cursor \in 1..Len(slots),
         slots[cursor] \notin steady, \A t \in Threads : pc'[t] # "slot",
         UNCHANGED <<called, steady, link, active, prio, resorted, pending>>
  PROVE  Emission'
  <1> USE DEF Emission
  <1>1. /\ slots \in Seq(Slots) /\ Len(slots) \in Nat /\ cursor \in Nat
        /\ cursor' = cursor
    BY LenProperties DEF EraseAtCursor, Base, TypeOK
  <1>2. /\ Len(slots') = Len(slots) - 1
        /\ \A j \in 1..(Len(slots) - 1) :
             slots'[j] = IF j < cursor THEN slots[j] ELSE slots[j + 1]
    BY <1>1, RemoveAtFacts DEF EraseAtCursor
  <1>3. ~Running'
    BY DEF Running
  <1>4. CalledAreBehind'
    <2> SUFFICES ASSUME NEW i \in 1..Len(called), NEW j \in 1..Len(slots'),
                        called[i] = slots'[j]
                 PROVE  j < cursor
      BY <1>1, <1>3 DEF CalledAreBehind
    <2>1. CASE j < cursor
      BY <2>1
    <2>2. CASE ~(j < cursor)
      <3>1. slots'[j] = slots[j + 1] /\ j + 1 \in 1..Len(slots) /\ j + 1 > cursor
        BY <1>1, <1>2, <2>2
      <3> QED BY <1>1, <3>1 DEF CalledAreBehind
    <2> QED BY <2>1, <2>2
  <1>5. SteadyAhead'
    <2> SUFFICES ASSUME NEW s \in steady, s \notin ToSet(called)
                 PROVE  \E j \in 1..Len(slots') : cursor <= j /\ s = slots'[j]
      BY <1>1, <1>3 DEF SteadyAhead
    <2>1. PICK j \in 1..Len(slots) : cursor <= j /\ s = slots[j]
      BY DEF SteadyAhead
    <2>2. j # cursor
      BY <2>1
    <2>3. j - 1 \in 1..Len(slots') /\ cursor <= j - 1 /\ (j - 1) + 1 = j
      BY <1>1, <1>2, <2>1, <2>2
    <2>4. slots'[j - 1] = slots[j]
      BY <1>1, <1>2, <2>3
    <2> QED BY <2>1, <2>3, <2>4
  <1>6. OrderAhead'
    <2> SUFFICES ASSUME ~resorted PROVE OrderAhead'
      BY DEF OrderAhead
    <2>1. Ordered(slots)'
      <3> SUFFICES ASSUME NEW j \in 1..Len(slots'), NEW k \in 1..Len(slots'), j < k
                   PROVE  prio[slots'[j]] <= prio[slots'[k]]
        BY DEF Ordered
      <3>1. PICK a \in 1..Len(slots), b \in 1..Len(slots) :
               a < b /\ slots'[j] = slots[a] /\ slots'[k] = slots[b]
        <4>1. CASE k < cursor
          BY <1>1, <1>2, <4>1
        <4>2. CASE ~(k < cursor) /\ j < cursor
          BY <1>1, <1>2, <4>2
        <4>3. CASE ~(j < cursor)
          BY <1>1, <1>2, <4>3
        <4> QED BY <1>1, <4>1, <4>2, <4>3
      <3> QED BY <3>1 DEF OrderAhead, Ordered
    <2>2. ASSUME NEW i \in 1..Len(called), NEW j \in 1..Len(slots'), cursor <= j
          PROVE  prio[called[i]] <= prio[slots'[j]]
      <3>1. j + 1 \in 1..Len(slots) /\ cursor <= j + 1 /\ slots'[j] = slots[j + 1]
        BY <1>1, <1>2, <2>2
      <3> QED BY <3>1 DEF OrderAhead
    <2> QED BY <1>1, <2>1, <2>2 DEF OrderAhead, Ordered
  <1>7. CalledDistinct'
    BY DEF CalledDistinct
  <1> QED BY <1>4, <1>5, <1>6, <1>7

(* Moving on to the next slot.                                              *)
LEMMA EmissionAdvance ==
  ASSUME SignalAssumption, Base, Emission, Advance, cursor \in 1..Len(slots),
         slots[cursor] \in steady => slots[cursor] \in ToSet(called),
         \A t \in Threads : pc'[t] # "slot",
         UNCHANGED <<called, steady, link, active, prio, resorted, pending>>
  PROVE  Emission'
  <1> USE DEF Emission
  <1>1. /\ Len(slots) \in Nat /\ cursor \in Nat /\ cursor' = cursor + 1 /\ slots' = slots
    BY LenProperties DEF Advance, Base, TypeOK
  <1>2. ~Running'
    BY DEF Running
  <1>3. CalledAreBehind'
    BY <1>1 DEF CalledAreBehind
  <1>4. SteadyAhead'
    <2> SUFFICES ASSUME NEW s \in steady, s \notin ToSet(called)
                 PROVE  \E j \in 1..Len(slots) : cursor + 1 <= j /\ s = slots[j]
      BY <1>1, <1>2 DEF SteadyAhead
    <2>1. PICK j \in 1..Len(slots) : cursor <= j /\ s = slots[j]
      BY DEF SteadyAhead
    <2>2. j # cursor
      BY <2>1
    <2> QED BY <1>1, <2>1, <2>2
  <1>5. OrderAhead'
    BY <1>1 DEF OrderAhead, Ordered
  <1> QED BY <1>3, <1>4, <1>5 DEF CalledDistinct

(* Calling the slot at the cursor.                                          *)
LEMMA EmissionInvoke ==
  ASSUME SignalAssumption, Base, Placed, Emission, NEW t \in Threads, Invoke(t)
  PROVE  Emission'
  <1> USE DEF Emission
  <1> DEFINE s == slots[cursor]
  <1>1. /\ called \in Seq(Slots) /\ Len(called) \in Nat /\ Len(slots) \in Nat
        /\ cursor \in 1..Len(slots) /\ s \in Slots /\ pc[t] = "checked"
    BY LenProperties DEF Invoke, Base, TypeOK
  <1>2. /\ Len(called') = Len(called) + 1 /\ called'[Len(called) + 1] = s
        /\ \A i \in 1..Len(called) : called'[i] = called[i]
        /\ ToSet(called') = ToSet(called) \cup {s}
    BY <1>1, AppendProperties, ToSetAppend DEF Invoke
  <1>3. UNCHANGED <<slots, cursor, steady, link, active, prio, resorted, pending>>
    BY DEF Invoke
  <1>4. ~Running /\ Running'
    BY <1>1 DEF Invoke, Running, Base, TypeOK, EmissionOwnsLock, Emitting
  <1>5. \A i \in 1..Len(called) : called[i] # s
    BY <1>1, <1>4 DEF CalledAreBehind
  <1>6. s \notin pending
    BY <1>1, ToSetFacts DEF Base, TypeOK, Placed, OnePlace
  <1> HIDE DEF s
  <1>7. \A i \in 1..Len(called') : i \in 1..Len(called) \/ i = Len(called) + 1
    BY <1>1, <1>2
  <1>8. CalledDistinct'
    BY <1>2, <1>5, <1>7 DEF CalledDistinct
  <1>9. CalledAreBehind'
    <2> SUFFICES ASSUME NEW i \in 1..Len(called'), NEW j \in 1..Len(slots),
                        called'[i] = slots[j]
                 PROVE  j < cursor \/ j = cursor
      BY <1>3, <1>4 DEF CalledAreBehind
    <2>1. CASE i \in 1..Len(called)
      BY <1>2, <2>1 DEF CalledAreBehind
    <2>2. CASE i = Len(called) + 1
      BY <1>1, <1>2, <2>2 DEF Placed, OnePlace, s
    <2> QED BY <1>7, <2>1, <2>2
  <1>10. SteadyAhead'
    BY <1>2, <1>3 DEF SteadyAhead, s
  <1>11. OrderAhead'
    <2> SUFFICES ASSUME ~resorted PROVE OrderAhead'
      BY <1>3 DEF OrderAhead
    <2>1. \A i \in 1..Len(called) : prio[called[i]] <= prio[s]
      BY <1>1 DEF OrderAhead, Base, TypeOK, s
    <2>2. \A j \in 1..Len(slots) : cursor <= j => prio[s] <= prio[slots[j]]
      <3> SUFFICES ASSUME NEW j \in 1..Len(slots), cursor <= j
                   PROVE  prio[s] <= prio[slots[j]]
        OBVIOUS
      <3>1. CASE j = cursor
        BY <1>1, <3>1 DEF Base, TypeOK, s
      <3>2. CASE cursor < j
        BY <1>1, <3>2 DEF OrderAhead, Ordered, s
      <3> QED BY <1>1, <3>1, <3>2
    <2>3. Ordered(called)'
      <3> SUFFICES ASSUME NEW i \in 1..Len(called'), NEW j \in 1..Len(called'), i < j
                   PROVE  prio[called'[i]] <= prio[called'[j]]
        BY <1>3 DEF Ordered
      <3>1. i \in 1..Len(called)
        BY <1>1, <1>7
      <3>2. CASE j \in 1..Len(called)
        BY <1>2, <3>1, <3>2 DEF OrderAhead, Ordered
      <3>3. CASE j = Len(called) + 1
        BY <1>2, <2>1, <3>1, <3>3
      <3> QED BY <1>7, <3>2, <3>3
    <2>4. \A i \in 1..Len(called'), j \in 1..Len(slots) :
            cursor <= j => prio[called'[i]] <= prio[slots[j]]
      BY <1>2, <1>7, <2>2 DEF OrderAhead
    <2>5. ToSet(called') \cap pending = {}
      BY <1>2, <1>6 DEF OrderAhead
    <2>6. Ordered(slots)'
      BY <1>3 DEF OrderAhead, Ordered
    <2> QED BY <1>3, <2>3, <2>4, <2>5, <2>6 DEF OrderAhead, Ordered
  <1> QED BY <1>8, <1>9, <1>10, <1>11

LEMMA EmissionEmission ==
  ASSUME SignalAssumption, Base, Placed, Emission, NEW t \in Threads,
         \/ Emit(t) \/ EmitDisabled(t) \/ EmitBegin(t) \/ Check(t)
         \/ Invoke(t) \/ Settle(t) \/ SlotThrows(t) \/ EmitEnd(t)
  PROVE  Emission'
  <1>1. CASE Emit(t) \/ EmitDisabled(t)
    <2>1. UNCHANGED <<called, slots, cursor, steady, link, active, prio, resorted, pending>>
      BY <1>1 DEF Emit, EmitDisabled
    <2>2. \A u \in Threads : pc'[u] = "slot" <=> pc[u] = "slot"
      BY <1>1 DEF Emit, EmitDisabled, Base, TypeOK
    <2> QED
      BY <2>1, <2>2 DEF Emission, CalledDistinct, CalledAreBehind, SteadyAhead,
                        OrderAhead, Ordered, Running
  <1>2. CASE EmitBegin(t)
    <2>1. \A u \in Threads : pc'[u] # "slot"
      BY <1>2 DEF EmitBegin, Base, TypeOK, EmissionOwnsLock, Emitting, SignalAssumption
    <2>2. Len(called') = 0 /\ ToSet(called') = {} /\ ~Running' /\ cursor' = 1
      BY <1>2, <2>1, ToSetEmpty DEF EmitBegin, Running
    <2>3. slots' \in Seq(Slots) /\ Len(slots') \in Nat
      BY <1>2, MergesFacts, LenProperties DEF EmitBegin, Base
    <2>4. ToSet(slots') = {slots'[j] : j \in 1..Len(slots')}
      BY <2>3, ToSetFacts
    <2>5. SteadyAhead'
      <3>1. steady' = {s \in ToSet(slots') : link[s] /\ active[s]}
            /\ UNCHANGED <<link, active>>
        BY <1>2 DEF EmitBegin
      <3>2. \A s \in steady' : \E j \in 1..Len(slots') : 1 <= j /\ s = slots'[j]
        BY <2>3, <2>4, <3>1
      <3> QED BY <2>2, <3>1, <3>2 DEF SteadyAhead
    <2>6. ~resorted => Ordered(slots)'
      BY <1>2, <2>3 DEF EmitBegin, Merges, Ordered, Emission, OrderAhead
    <2> QED
      BY <1>2, <2>2, <2>5, <2>6
         DEF EmitBegin, Emission, CalledDistinct, CalledAreBehind, OrderAhead, Ordered
  <1>3. CASE Check(t)
    <2>1. cursor \in 1..Len(slots)
      BY <1>3, LenProperties DEF Check, Base, TypeOK
    <2>2. \A u \in Threads : pc[u] # "slot" /\ pc'[u] # "slot"
      BY <1>3 DEF Check, Base, TypeOK, EmissionOwnsLock, Emitting
    <2>3. CASE link[slots[cursor]]
      BY <1>3, <2>2, <2>3 DEF Check, Emission, CalledDistinct, CalledAreBehind,
                              SteadyAhead, OrderAhead, Ordered, Running
    <2>4. CASE ~link[slots[cursor]]
      <3>1. slots[cursor] \notin steady
        BY <2>4 DEF Emission, SteadyAhead
      <3> QED BY <1>3, <2>1, <2>2, <2>4, <3>1, EmissionErase DEF Check
    <2> QED BY <2>3, <2>4
  <1>4. CASE Invoke(t)
    BY <1>4, EmissionInvoke
  <1>5. CASE Settle(t)
    <2>1. cursor \in 1..Len(slots)
      BY <1>5, LenProperties DEF Settle, Base, TypeOK
    <2>2. \A u \in Threads : pc'[u] # "slot"
      BY <1>5 DEF Settle, Base, TypeOK, EmissionOwnsLock, Emitting
    <2>3. slots[cursor] \in steady => slots[cursor] \in ToSet(called)
      BY <1>5 DEF Settle, Emission, SteadyAhead, Running
    <2>4. CASE link[slots[cursor]]
      BY <1>5, <2>1, <2>2, <2>3, <2>4, EmissionAdvance DEF Settle
    <2>5. CASE ~link[slots[cursor]]
      <3>1. slots[cursor] \notin steady
        BY <2>5 DEF Emission, SteadyAhead
      <3> QED BY <1>5, <2>1, <2>2, <2>5, <3>1, EmissionErase DEF Settle
    <2> QED BY <2>4, <2>5
  <1>6. CASE SlotThrows(t) \/ EmitEnd(t)
    <2>1. \A u \in Threads : pc'[u] # "slot"
      BY <1>6 DEF SlotThrows, EmitEnd, Leave, Base, TypeOK, EmissionOwnsLock, Emitting
    <2>2. called' = <<>> /\ steady' = {} /\ UNCHANGED <<slots, prio, resorted>>
      BY <1>6 DEF SlotThrows, EmitEnd, Leave
    <2>3. resorted' \/ Ordered(slots)'
      BY <2>2 DEF Emission, OrderAhead, Ordered
    <2> QED BY <2>1, <2>2, <2>3, EmissionAtRest
  <1> QED BY <1>1, <1>2, <1>3, <1>4, <1>5, <1>6

LEMMA EmissionCalls ==
  ASSUME SignalAssumption, Base, Placed, Emission, NEW t \in Threads,
         \/ DisconnectStore(t) \/ Clear(t)
         \/ \E b \in BOOLEAN : SetEnabled(t, b)
         \/ \E p \in Priorities : Connect(t, p)
         \/ \E s \in Slots :
              \/ DisconnectLoad(t, s)
              \/ \E b \in BOOLEAN : EnableSlot(t, s, b)
              \/ \E p \in Priorities : SetPriority(t, s, p)
  PROVE  Emission'
  <1> USE DEF Emission
  <1>a. /\ slots \in Seq(Slots) /\ called \in Seq(Slots)
        /\ \A j \in 1..Len(slots) : slots[j] \in ToSet(slots) /\ slots[j] \in Slots
        /\ \A i \in 1..Len(called) : called[i] \in ToSet(called) /\ called[i] \in Slots
    BY ToSetFacts, LenProperties DEF Base, TypeOK
  <1>1. CASE DisconnectStore(t)
    <2>1. UNCHANGED <<called, slots, cursor, active, prio, resorted, pending, pc>>
      BY <1>1 DEF DisconnectStore
    <2>2. \A s \in steady' : s \in steady /\ (link'[s] <=> link[s])
      BY <1>1 DEF DisconnectStore, Base, TypeOK
    <2>3. SteadyAhead'
      BY <2>1, <2>2 DEF SteadyAhead, Running
    <2> QED
      BY <2>1, <2>3 DEF CalledDistinct, CalledAreBehind, OrderAhead, Ordered, Running
  <1>2. CASE Clear(t)
    <2>1. \A u \in Threads : pc'[u] # "slot"
      BY <1>2 DEF Clear, Base, EmissionOwnsLock, Emitting, SignalAssumption
    <2>2. called' = <<>> /\ steady' = {}
      BY <1>2 DEF Clear, Placed, NothingBetween
    <2>3. Ordered(slots)'
      BY <1>2 DEF Clear, Ordered
    <2> QED BY <2>1, <2>2, <2>3, EmissionAtRest
  <1>3. ASSUME NEW b \in BOOLEAN, SetEnabled(t, b) PROVE Emission'
    BY <1>3 DEF SetEnabled, CalledDistinct, CalledAreBehind, SteadyAhead, OrderAhead,
                Ordered, Running
  <1>4. ASSUME NEW p \in Priorities, Connect(t, p) PROVE Emission'
    <2>1. created' \notin 1..created
      BY <1>4 DEF Connect, Base, TypeOK, SignalAssumption
    <2>2. /\ \A j \in 1..Len(slots) : slots[j] # created'
          /\ \A i \in 1..Len(called) : called[i] # created'
          /\ created' \notin ToSet(called)
      BY <1>a, <2>1 DEF Placed, Numbered
    <2>3. UNCHANGED <<called, slots, cursor, steady, active, resorted, pc>>
      BY <1>4 DEF Connect
    <2>4. /\ \A s \in Slots : s # created' => link'[s] = link[s] /\ prio'[s] = prio[s]
          /\ pending' \subseteq pending \cup {created'}
      BY <1>4 DEF Connect, Base, TypeOK
    <2>5. \A s \in steady : s \in Slots /\ s # created'
      BY <2>2 DEF SteadyAhead, Base, TypeOK
    <2>6. SteadyAhead'
      BY <2>3, <2>4, <2>5 DEF SteadyAhead, Running
    <2>7. OrderAhead'
      <3>1. \A j \in 1..Len(slots) : prio'[slots[j]] = prio[slots[j]]
        BY <1>a, <2>2, <2>4
      <3>2. \A i \in 1..Len(called) : prio'[called[i]] = prio[called[i]]
        BY <1>a, <2>2, <2>4
      <3> QED BY <2>2, <2>3, <2>4, <3>1, <3>2 DEF OrderAhead, Ordered
    <2> QED BY <2>3, <2>6, <2>7 DEF CalledDistinct, CalledAreBehind, Running
  <1>5. ASSUME NEW s \in Slots, DisconnectLoad(t, s) PROVE Emission'
    BY <1>5 DEF DisconnectLoad, CalledDistinct, CalledAreBehind, SteadyAhead,
                OrderAhead, Ordered, Running
  <1>6. ASSUME NEW s \in Slots, NEW b \in BOOLEAN, EnableSlot(t, s, b) PROVE Emission'
    <2>1. UNCHANGED <<called, slots, cursor, link, prio, resorted, pending, pc>>
      BY <1>6 DEF EnableSlot
    <2>2. \A r \in steady' : r \in steady /\ (active'[r] <=> active[r])
      BY <1>6 DEF EnableSlot, Base, TypeOK
    <2>3. SteadyAhead'
      BY <2>1, <2>2 DEF SteadyAhead, Running
    <2> QED
      BY <2>1, <2>3 DEF CalledDistinct, CalledAreBehind, OrderAhead, Ordered, Running
  <1>7. ASSUME NEW s \in Slots, NEW p \in Priorities, SetPriority(t, s, p) PROVE Emission'
    <2>1. UNCHANGED <<called, slots, cursor, steady, link, active, pending, pc>>
      BY <1>7 DEF SetPriority
    <2>2. OrderAhead'
      <3> SUFFICES ASSUME ~resorted' PROVE OrderAhead'
        BY DEF OrderAhead
      <3>1. ~resorted /\ s \in pending /\ s \notin ToSet(slots)
        BY <1>7 DEF SetPriority
      <3>2. \A j \in 1..Len(slots) : prio'[slots[j]] = prio[slots[j]]
        BY <1>7, <1>a, <3>1 DEF SetPriority, Base, TypeOK
      <3>3. \A i \in 1..Len(called) : prio'[called[i]] = prio[called[i]]
        BY <1>7, <1>a, <3>1 DEF SetPriority, Base, TypeOK, OrderAhead
      <3> QED BY <2>1, <3>1, <3>2, <3>3 DEF OrderAhead, Ordered
    <2> QED BY <2>1, <2>2 DEF CalledDistinct, CalledAreBehind, SteadyAhead, Running
  <1> QED BY <1>1, <1>2, <1>3, <1>4, <1>5, <1>6, <1>7

LEMMA EmissionNext == SignalAssumption /\ Base /\ Placed /\ Emission /\ [Next]_vars => Emission'
  <1> SUFFICES ASSUME SignalAssumption, Base, Placed, Emission, [Next]_vars PROVE Emission'
    OBVIOUS
  <1>1. CASE UNCHANGED vars
    BY <1>1 DEF vars, code, Emission, CalledDistinct, CalledAreBehind, SteadyAhead,
                OrderAhead, Ordered, Running
  <1> QED BY <1>1, EmissionEmission, EmissionCalls DEF Next
-----------------------------------------------------------------------------
IInv == Base /\ Placed /\ Emission

LEMMA IInvAlways == Spec => []IInv
  <1>1. Init => IInv
    BY SignalAssumption, BaseInit, PlacedInit, EmissionInit DEF IInv
  <1>2. IInv /\ [Next]_vars => IInv'
    BY SignalAssumption, BaseNext, PlacedNext, EmissionNext DEF IInv
  <1> QED BY <1>1, <1>2, PTL DEF Spec

LEMMA PairedAlways == ASSUME Synchronised PROVE Spec => []Paired
  <1>1. Init => IInv /\ Paired
    BY SignalAssumption, BaseInit, PlacedInit, EmissionInit, PairedInit DEF IInv
  <1>2. IInv /\ Paired /\ [Next]_vars => (IInv /\ Paired)'
    BY SignalAssumption, BaseNext, PlacedNext, EmissionNext, PairedNext DEF IInv
  <1> QED BY <1>1, <1>2, PTL DEF Spec

(* Every variable keeps its type, and the iterator of erase_if is valid     *)
(* whenever it is dereferenced.                                             *)
THEOREM SignalTypeOK == Spec => []TypeOK
  <1>1. IInv => TypeOK
    BY DEF IInv, Base
  <1> QED BY <1>1, IInvAlways, PTL

(* The thread that iterates over the slots is the one that owns _emit_lock, *)
(* also after a slot threw an exception.                                    *)
THEOREM OneEmissionAtATime == Spec => []EmissionOwnsLock
  <1>1. IInv => EmissionOwnsLock
    BY DEF IInv, Base
  <1> QED BY <1>1, IInvAlways, PTL

(* A slot is at one position of one container.                              *)
THEOREM SlotsInOnePlace == Spec => []OnePlace
  <1>1. IInv => OnePlace
    BY DEF IInv, Placed
  <1> QED BY <1>1, IInvAlways, PTL

(* No emission calls a slot that was connected while it was under way.      *)
THEOREM LateSubscribersWait == Spec => []NoLateSubscriber
  <1>1. IInv => NoLateSubscriber
    BY DEF IInv, Placed
  <1> QED BY <1>1, IInvAlways, PTL

(* No emission calls a slot twice.                                          *)
THEOREM SlotsCalledOnce == Spec => []CalledOnce
  <1>1. IInv => CalledOnce
    <2> SUFFICES ASSUME IInv PROVE CalledOnce
      OBVIOUS
    <2>1. DOMAIN called = 1..Len(called)
      BY LenProperties DEF IInv, Base, TypeOK
    <2> QED BY <2>1 DEF IInv, Emission, CalledDistinct, CalledOnce, IsInjective
  <1> QED BY <1>1, IInvAlways, PTL

(* No emission ends without having called the slots that were connected and *)
(* enabled from its beginning to its end, whatever was erased meanwhile.    *)
THEOREM EmissionsMissNobody == Spec => []NobodyMissed
  <1>1. IInv => NobodyMissed
    <2> SUFFICES ASSUME IInv, cursor > Len(slots), NEW s \in steady
                 PROVE  s \in ToSet(called)
      BY DEF NobodyMissed
    <2>1. Len(slots) \in Nat /\ cursor \in Nat
      BY LenProperties DEF IInv, Base, TypeOK
    <2> QED BY <2>1 DEF IInv, Emission, SteadyAhead
  <1> QED BY <1>1, IInvAlways, PTL

(* The three together: an emission calls exactly whom it owes a call.       *)
THEOREM EmissionsAreExact == Spec => []EmissionExact
  <1>1. NoLateSubscriber /\ CalledOnce /\ NobodyMissed => EmissionExact
    BY DEF EmissionExact
  <1> QED BY <1>1, LateSubscribersWait, SlotsCalledOnce, EmissionsMissNobody, PTL

(* Slots are called in the order of their priorities until the priority of  *)
(* an installed slot is changed.                                            *)
THEOREM CallsFollowPriority == Spec => []PriorityOrder
  <1>1. IInv => PriorityOrder
    BY DEF IInv, Emission, OrderAhead, Ordered, PriorityOrder
  <1> QED BY <1>1, IInvAlways, PTL

(* When the application synchronises the calls that take no lock, every     *)
(* connection and its slot agree on whether they are connected.             *)
THEOREM ConnectionsKnowTheirSlots ==
  ASSUME Synchronised PROVE Spec => []PairsAgree
  <1>1. Paired => PairsAgree
    BY DEF Paired
  <1> QED BY <1>1, PairedAlways, PTL

(* Under the same condition, disconnect() is the end of it: the slot is not *)
(* called again, also when the iteration was about to reach it.             *)
THEOREM DisconnectedSlotsStaySilent ==
  ASSUME Synchronised PROVE Spec => []NoCallAfterDisconnect
  <1>1. Paired => NoCallAfterDisconnect
    BY DEF Paired, GoneUnlinked, CheckedLinked, NoCallAfterDisconnect
  <1> QED BY <1>1, PairedAlways, PTL
=============================================================================

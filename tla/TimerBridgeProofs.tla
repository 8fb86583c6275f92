-------------------------- MODULE TimerBridgeProofs --------------------------
(***************************************************************************)
(* For any number of pumping threads, emissions and starts of the timer:   *)
(* the bridge loses no emission and delivers none twice, without a functor *)
(* it leaves none behind, and the arguments of the timer are not written   *)
(* while its thread reads them.                                            *)
(*                                                                         *)
(* The lock is given back only with a queue in which nothing is handled,   *)
(* which is what makes the second look at it enough; and without a functor *)
(* there is a thread that will take one away for every emission that is in *)
(* the queue.                                                              *)
(***************************************************************************)
EXTENDS TimerBridge, TLAPS, FiniteSetTheorems, SequenceTheorems

Threads == Pumps \cup {TimerThread}

(* Emissions that wait for the lock are not numbered yet.                   *)
Emitting == {t \in Threads : at[t] = "push"}

(* Who is going to take an emission away: one each.                         *)
Popping ==
  {t \in Threads : \/ at[t] = "functor"
                   \/ doing[t] = "next" /\ at[t] \in {"test", "lock", "call", "done"}}

(* The positions whose slots have been called under the lock.               *)
Handled(i) ==
  /\ queueLock # None
  /\ \/ doing[queueLock] = "next" /\ at[queueLock] = "done" /\ i = 1
     \/ doing[queueLock] = "last" /\ at[queueLock] = "done" /\ i = Len(queue)
     \/ doing[queueLock] = "all" /\ i < item

Numbers ==
  /\ sent + Cardinality(Emitting) <= MaxEmits
  /\ Len(queue) <= sent
  /\ Bridge!IsInjective(queue)

Holder ==
  queueLock # None =>
    /\ queue # <<>> /\ doing[queueLock] # "clear"
    /\ doing[queueLock] = "all" =>
         item <= Len(queue) + 1 /\ (at[queueLock] = "done" <=> item = Len(queue) + 1)

(* What is handled may go, and what is not has not been delivered yet.      *)
Progress ==
  \A i \in 1..Len(queue) :
    IF Handled(i) THEN queue[i] \in Bridge!ToSet(got) \cup dropped
                  ELSE threw \/ queue[i] \notin Bridge!ToSet(got)

Enough == ~functor /\ ~threw => Len(queue) <= Cardinality(Popping)

BridgeInv ==
  /\ Bridge!TypeOK /\ Bridge!LockProtectsQueue /\ Numbers /\ Holder
  /\ Bridge!Accounted /\ Bridge!DeliveredOnce /\ Progress /\ Enough

(* The flag is set as long as there is a thread in the loop, and nobody     *)
(* starts a timer over one.                                                 *)
TimerInv ==
  /\ Timer!TypeOK
  /\ thread \in Timer!Looping \cup {"leave"} => on
  /\ owner \in {"args", "join", "spawn"} => on /\ thread \in {"none", "returning", "over"}
  /\ at[TimerThread] # "idle" => thread = "emit"

IInv == BridgeInv /\ TimerInv
-----------------------------------------------------------------------------
(* Counting needs the threads to be finitely many.                          *)
LEMMA ThreadsFinite == IsFiniteSet(Threads)
  <1>1. IsFiniteSet({TimerThread})
    BY FS_Singleton
  <1> QED BY <1>1, BridgeAssumption, FS_Union DEF Threads

LEMMA Counts ==
  /\ IsFiniteSet(Emitting) /\ Cardinality(Emitting) \in Nat
  /\ IsFiniteSet(Popping) /\ Cardinality(Popping) \in Nat
  /\ \A t \in Emitting : Cardinality(Emitting) >= 1
  <1>1. IsFiniteSet(Emitting) /\ IsFiniteSet(Popping)
    BY ThreadsFinite, FS_Subset DEF Emitting, Popping
  <1>2. Cardinality(Emitting) \in Nat /\ Cardinality(Popping) \in Nat
    BY <1>1, FS_CardinalityType
  <1>3. Cardinality(Emitting) = 0 => Emitting = {}
    BY <1>1, FS_EmptySet
  <1> QED BY <1>1, <1>2, <1>3

(* What the set of the elements of a sequence is after the operations that  *)
(* are made on the queue and the deliveries.                                *)
LEMMA ToSetFacts ==
  ASSUME NEW S, NEW s \in Seq(S)
  PROVE  /\ Bridge!ToSet(s) = {s[i] : i \in 1..Len(s)} /\ Bridge!ToSet(s) \in SUBSET S
         /\ \A x : Bridge!ToSet(Append(s, x)) = Bridge!ToSet(s) \cup {x}
         /\ s # <<>> => /\ Bridge!ToSet(s) = Bridge!ToSet(Tail(s)) \cup {s[1]}
                        /\ Bridge!ToSet(s) = Bridge!ToSet(Bridge!Front(s)) \cup {s[Len(s)]}
  <1>1. DOMAIN s = 1..Len(s) /\ Len(s) \in Nat /\ \A i \in 1..Len(s) : s[i] \in S
    BY LenProperties, ElementOfSeq
  <1>2. Bridge!ToSet(s) = {s[i] : i \in 1..Len(s)}
    BY <1>1 DEF Bridge!ToSet
  <1>3. ASSUME NEW x PROVE Bridge!ToSet(Append(s, x)) = Bridge!ToSet(s) \cup {x}
    <2> DEFINE a == Append(s, x)
    <2>1. s \in Seq(S \cup {x}) /\ x \in S \cup {x}
      BY SeqMonotonic
    <2>2. /\ a \in Seq(S \cup {x}) /\ Len(a) = Len(s) + 1 /\ a[Len(s) + 1] = x
          /\ \A i \in 1..Len(s) : a[i] = s[i]
      BY <2>1, AppendProperties
    <2> HIDE DEF a
    <2>3. DOMAIN a = 1..(Len(s) + 1)
      BY <1>1, <2>2
    <2>4. Bridge!ToSet(a) = {a[i] : i \in 1..(Len(s) + 1)}
      BY <2>3 DEF Bridge!ToSet
    <2>5. 1..(Len(s) + 1) = 1..Len(s) \cup {Len(s) + 1}
      BY <1>1
    <2>6. Bridge!ToSet(a) = {s[i] : i \in 1..Len(s)} \cup {x}
      BY <2>2, <2>4, <2>5
    <2> QED BY <1>2, <2>6 DEF a
  <1>4. ASSUME s # <<>>
        PROVE  /\ Bridge!ToSet(s) = Bridge!ToSet(Tail(s)) \cup {s[1]}
               /\ Bridge!ToSet(s) = Bridge!ToSet(Bridge!Front(s)) \cup {s[Len(s)]}
    <2>1. Len(s) >= 1
      BY <1>1, <1>4, EmptySeq
    <2>2. Bridge!ToSet(s) = Bridge!ToSet(Tail(s)) \cup {s[1]}
      <3> DEFINE u == Tail(s)
      <3>1. /\ u \in Seq(S) /\ Len(u) = Len(s) - 1
            /\ \A i \in 1..Len(u) : i + 1 \in 1..Len(s) /\ u[i] = s[i + 1]
        BY <1>1, <1>4, <2>1, HeadTailProperties
      <3> HIDE DEF u
      <3>2. Bridge!ToSet(u) = {u[i] : i \in 1..Len(u)}
        BY <3>1 DEF Bridge!ToSet
      <3>3. ASSUME NEW i \in 1..Len(s)
            PROVE  i = 1 \/ (i - 1 \in 1..Len(u) /\ u[i - 1] = s[i])
        <4>1. i = 1 \/ i - 1 \in 1..(Len(s) - 1)
          <5>1. Len(s) \in Nat
            BY <1>1
          <5> QED BY <5>1
        <4>2. 1..Len(u) = 1..(Len(s) - 1) /\ (i - 1) + 1 = i
          BY <1>1, <3>1
        <4> QED BY <3>1, <4>1, <4>2
      <3>4. \A x \in Bridge!ToSet(s) : x \in Bridge!ToSet(u) \cup {s[1]}
        BY <1>2, <3>2, <3>3
      <3>5. \A x \in Bridge!ToSet(u) \cup {s[1]} : x \in Bridge!ToSet(s)
        BY <1>1, <1>2, <2>1, <3>1, <3>2
      <3>6. Bridge!ToSet(s) = Bridge!ToSet(u) \cup {s[1]}
        BY <3>4, <3>5
      <3> QED BY <3>6 DEF u
    <2>3. Bridge!ToSet(s) = Bridge!ToSet(Bridge!Front(s)) \cup {s[Len(s)]}
      <3> DEFINE f == Bridge!Front(s)
      <3>1. /\ f \in Seq(S) /\ Len(f) = Len(s) - 1
            /\ \A i \in 1..Len(f) : i \in 1..Len(s) /\ f[i] = s[i]
        <4>1. \A i \in 1..(Len(s) - 1) : s[i] \in S
          BY <1>1
        <4> QED BY <1>1, <2>1, <4>1, SubSeqProperties DEF Bridge!Front
      <3> HIDE DEF f
      <3>2. Bridge!ToSet(f) = {f[i] : i \in 1..Len(f)}
        BY <3>1 DEF Bridge!ToSet
      <3>3. ASSUME NEW i \in 1..Len(s)
            PROVE  i = Len(s) \/ (i \in 1..Len(f) /\ f[i] = s[i])
        <4>1. i = Len(s) \/ i \in 1..(Len(s) - 1)
          <5>1. Len(s) \in Nat
            BY <1>1
          <5> QED BY <5>1
        <4>2. 1..Len(f) = 1..(Len(s) - 1)
          BY <3>1
        <4> QED BY <3>1, <4>1, <4>2
      <3>4. \A x \in Bridge!ToSet(s) : x \in Bridge!ToSet(f) \cup {s[Len(s)]}
        BY <1>2, <3>2, <3>3
      <3>5. \A x \in Bridge!ToSet(f) \cup {s[Len(s)]} : x \in Bridge!ToSet(s)
        BY <1>1, <1>2, <2>1, <3>1, <3>2
      <3>6. Bridge!ToSet(s) = Bridge!ToSet(f) \cup {s[Len(s)]}
        BY <3>4, <3>5
      <3> QED BY <3>6 DEF f
    <2> QED BY <2>2, <2>3
  <1> QED BY <1>1, <1>2, <1>3, <1>4

(* Who does what: the threads and the two switches.                         *)
LEMMA Moves ==
  ASSUME [Next]_vars
  PROVE  \/ UNCHANGED bridgeVars
         \/ \E t \in Threads : Bridge!Step(t)
         \/ \E b \in BOOLEAN : Bridge!SetBridgeEnabled(b) \/ Bridge!SetEnabled(b)
  BY DEF Next, vars, TimerStep, TimerEmits, BridgeStep, SlotDisablesTimer, Threads,
         Bridge!Step, Bridge!Continue

(* The bridge has a Cardinality of its own module, the same one.            *)
LEMMA SameCardinality == \A S : Bridge!Cardinality(S) = Cardinality(S)
  BY DEF Bridge!Cardinality, Cardinality

(* The bounds leave room for an emission that is about to be numbered.      *)
LEMMA Room ==
  ASSUME BridgeInv
  PROVE  /\ sent \in Nat /\ Len(queue) \in Nat /\ Len(queue) <= MaxEmits
         /\ \A t \in Threads : at[t] = "push" => sent + 1 <= MaxEmits
         /\ Bridge!MayEmit => sent + Cardinality(Emitting) + 1 <= MaxEmits /\ sent + 1 <= MaxEmits
  <1>1. sent \in Nat /\ Len(queue) \in Nat
    BY BridgeAssumption, LenProperties DEF BridgeInv, Bridge!TypeOK
  <1>2. ASSUME NEW t \in Threads, at[t] = "push" PROVE sent + 1 <= MaxEmits
    <2>1. t \in Emitting
      BY <1>2 DEF Emitting
    <2> QED BY <1>1, <2>1, Counts, BridgeAssumption DEF BridgeInv, Numbers
  <1>3. ASSUME Bridge!MayEmit
        PROVE  sent + Cardinality(Emitting) + 1 <= MaxEmits /\ sent + 1 <= MaxEmits
    <2>1. Emitting = {t \in Pumps \cup {TimerThread} : at[t] = "push"}
      BY DEF Emitting, Threads
    <2>2. sent + Cardinality(Emitting) < MaxEmits
      BY <1>3, <2>1, SameCardinality DEF Bridge!MayEmit
    <2> QED BY <1>1, <2>2, Counts, BridgeAssumption
  <1> QED BY <1>1, <1>2, <1>3, Counts, BridgeAssumption DEF BridgeInv, Numbers

(* What is called, and where in the queue it is.                            *)
LEMMA CallFacts ==
  ASSUME BridgeInv, NEW t \in Threads, Bridge!Call(t)
  PROVE  /\ queueLock = t /\ queue # <<>> /\ at[t] = "call"
         /\ \E i \in 1..Len(queue), place \in {"call", "done"} :
              /\ Bridge!Deliver(queue[i]) /\ at' = [at EXCEPT ![t] = place]
              /\ \A j \in 1..Len(queue) : Handled(j)' <=> Handled(j) \/ j = i
              /\ ~Handled(i)
              /\ item' \in 1..(MaxEmits + 1)
              /\ doing[t] = "all" => /\ item' <= Len(queue) + 1
                                     /\ place = "done" <=> item' = Len(queue) + 1
         /\ UNCHANGED <<queue, queueLock, bridged, enabled, functor, doing, sent, threw>>
  <1> DEFINE n == Len(queue)
             Goal(i, place) ==
               /\ Bridge!Deliver(queue[i]) /\ at' = [at EXCEPT ![t] = place]
               /\ \A j \in 1..Len(queue) : Handled(j)' <=> Handled(j) \/ j = i
               /\ ~Handled(i)
               /\ item' \in 1..(MaxEmits + 1)
               /\ doing[t] = "all" => /\ item' <= Len(queue) + 1
                                      /\ place = "done" <=> item' = Len(queue) + 1
  <1> USE DEF BridgeInv, Bridge!TypeOK, Bridge!Goto
  <1>1. at[t] = "call" /\ UNCHANGED <<queue, queueLock, bridged, enabled, functor, doing, sent, threw>>
    BY DEF Bridge!Call
  <1>2. queueLock = t /\ queueLock # None
    BY <1>1, BridgeAssumption DEF Bridge!LockProtectsQueue, Bridge!Inside, Threads
  <1>3. queue # <<>> /\ n \in Nat /\ n >= 1 /\ 1 \in 1..n /\ n \in 1..n /\ n <= MaxEmits
    BY <1>2, Room, EmptySeq, LenProperties DEF Holder
  <1>4. CASE doing[t] = "next"
    <2>1. Bridge!Deliver(queue[1]) /\ at' = [at EXCEPT ![t] = "done"] /\ item' = item
      BY <1>3, <1>4, HeadTailProperties DEF Bridge!Call
    <2>2. at'[t] = "done"
      BY <2>1 DEF Threads
    <2>3. \A j \in 1..n : (Handled(j)' <=> j = 1) /\ ~Handled(j)
      BY <1>1, <1>2, <1>4, <2>2 DEF Handled
    <2>4. Goal(1, "done")
      BY <1>3, <1>4, <2>1, <2>3
    <2> HIDE DEF Goal
    <2> QED BY <1>1, <1>2, <1>3, <2>4 DEF Goal
  <1>5. CASE doing[t] = "last"
    <2>1. Bridge!Deliver(queue[n]) /\ at' = [at EXCEPT ![t] = "done"] /\ item' = item
      BY <1>3, <1>5 DEF Bridge!Call, Bridge!Last
    <2>2. at'[t] = "done"
      BY <2>1 DEF Threads
    <2>3. \A j \in 1..n : (Handled(j)' <=> j = n) /\ ~Handled(j)
      BY <1>1, <1>2, <1>5, <2>2 DEF Handled
    <2>4. Goal(n, "done")
      BY <1>3, <1>5, <2>1, <2>3
    <2> HIDE DEF Goal
    <2> QED BY <1>1, <1>2, <1>3, <2>4 DEF Goal
  <1>6. CASE doing[t] = "all"
    <2>1. item \in 1..n
      BY <1>1, <1>2, <1>3, <1>6 DEF Holder
    <2>2. PICK place \in {"call", "done"} :
            /\ place = IF item = n THEN "done" ELSE "call"
            /\ Bridge!Deliver(queue[item]) /\ at' = [at EXCEPT ![t] = place] /\ item' = item + 1
      BY <1>6 DEF Bridge!Call
    <2>3. \A j \in 1..n : (Handled(j) <=> j < item) /\ (Handled(j)' <=> j < item + 1)
      BY <1>1, <1>2, <1>6, <2>2 DEF Handled
    <2>4. Goal(item, place)
      BY <1>3, <2>1, <2>2, <2>3, BridgeAssumption
    <2> HIDE DEF Goal
    <2> QED BY <1>1, <1>2, <1>3, <2>1, <2>4 DEF Goal
  <1> QED BY <1>4, <1>5, <1>6 DEF Bridge!Call

(* What leaves the queue in the end has been handled, or is dropped now.    *)
LEMMA FinishFacts ==
  ASSUME BridgeInv, NEW t \in Threads, Bridge!Finish(t)
  PROVE  /\ queueLock = t /\ queue # <<>> /\ at[t] = "done"
         /\ queueLock' = None /\ at' = [at EXCEPT ![t] = "idle"]
         /\ \/ /\ queue' = Tail(queue) /\ dropped' = dropped /\ doing[t] = "next"
               /\ queue[1] \in Bridge!ToSet(got) \cup dropped
            \/ /\ queue' = <<>> /\ dropped' \in SUBSET (dropped \cup Bridge!ToSet(queue))
               /\ dropped \subseteq dropped'
               /\ Bridge!ToSet(queue) \subseteq Bridge!ToSet(got) \cup dropped'
         /\ UNCHANGED <<bridged, enabled, functor, doing, item, sent, got, threw>>
  <1> DEFINE n == Len(queue)
  <1> USE DEF BridgeInv, Bridge!TypeOK, Bridge!Goto
  <1>1. /\ at[t] = "done" /\ queueLock' = None /\ at' = [at EXCEPT ![t] = "idle"]
        /\ UNCHANGED <<bridged, enabled, functor, doing, item, sent, got, threw>>
    BY DEF Bridge!Finish
  <1>2. queueLock = t /\ queueLock # None
    BY <1>1, BridgeAssumption DEF Bridge!LockProtectsQueue, Bridge!Inside, Threads
  <1>3. queue # <<>> /\ n \in Nat /\ n >= 1 /\ 1 \in 1..n /\ n \in 1..n
    BY <1>2, EmptySeq, LenProperties DEF Holder
  <1>4. \A i \in 1..n : Handled(i) => queue[i] \in Bridge!ToSet(got) \cup dropped
    BY DEF Progress
  <1>5. CASE doing[t] = "next"
    <2>1. queue' = Tail(queue) /\ dropped' = dropped
      BY <1>5 DEF Bridge!Finish
    <2>2. Handled(1)
      BY <1>1, <1>2, <1>5 DEF Handled
    <2> QED BY <1>1, <1>2, <1>3, <1>4, <1>5, <2>1, <2>2
  <1>6. CASE doing[t] = "all"
    <2>1. queue' = <<>> /\ dropped' = dropped
      BY <1>6 DEF Bridge!Finish
    <2>2. \A i \in 1..n : Handled(i)
      BY <1>1, <1>2, <1>3, <1>6 DEF Handled, Holder
    <2>3. Bridge!ToSet(queue) \subseteq Bridge!ToSet(got) \cup dropped
      BY <1>4, <2>2, ToSetFacts
    <2> QED BY <1>1, <1>2, <1>3, <2>1, <2>3
  <1>7. CASE doing[t] = "last"
    <2>1. queue' = <<>> /\ dropped' = dropped \cup Bridge!ToSet(Bridge!Front(queue))
      BY <1>7 DEF Bridge!Finish
    <2>2. Handled(n)
      BY <1>1, <1>2, <1>7 DEF Handled
    <2>3. Bridge!ToSet(queue) = Bridge!ToSet(Bridge!Front(queue)) \cup {queue[n]}
      BY <1>3, ToSetFacts
    <2>4. Bridge!ToSet(queue) \subseteq Bridge!ToSet(got) \cup dropped'
      BY <1>3, <1>4, <2>1, <2>2, <2>3
    <2> QED BY <1>1, <1>2, <1>3, <2>1, <2>3, <2>4
  <1> QED BY <1>5, <1>6, <1>7 DEF Bridge!Finish

(* A step of a thread that does not hold the lock, apart from taking it.    *)
LEMMA Elsewhere ==
  ASSUME BridgeInv, NEW t \in Threads, at[t] \notin {"call", "done"},
         at' \in [Threads -> {"idle", "push", "functor", "test", "lock", "call", "done"}],
         at'[t] \notin {"call", "done"},
         \A s \in Threads \ {t} : at'[s] = at[s] /\ doing'[s] = doing[s],
         UNCHANGED <<queue, queueLock, item>>
  PROVE  /\ Holder' /\ Bridge!LockProtectsQueue'
         /\ \A i \in 1..Len(queue) : Handled(i)' <=> Handled(i)
  <1>1. queueLock # t /\ queueLock \in Threads \cup {None}
    BY BridgeAssumption DEF BridgeInv, Bridge!TypeOK, Bridge!LockProtectsQueue, Bridge!Inside, Threads
  <1>2. queueLock # None => at'[queueLock] = at[queueLock] /\ doing'[queueLock] = doing[queueLock]
    BY <1>1
  <1>3. Bridge!LockProtectsQueue'
    BY <1>1 DEF BridgeInv, Bridge!LockProtectsQueue, Bridge!Inside, Threads
  <1>4. Holder'
    BY <1>2 DEF BridgeInv, Holder
  <1>5. \A i \in 1..Len(queue) : Handled(i)' <=> Handled(i)
    BY <1>2 DEF Handled
  <1> QED BY <1>3, <1>4, <1>5

(* The steps that have nothing to do with the lock.                         *)
OutsideStep(t) ==
  \/ Bridge!Emit(t) \/ Bridge!EmitDirectly(t) \/ Bridge!AskFunctor(t) \/ Bridge!Test(t)
  \/ \E op \in Bridge!Operations : Bridge!Invoke(t, op)

LEMMA Outside ==
  ASSUME BridgeInv, NEW t \in Threads, OutsideStep(t)
  PROVE  /\ Holder' /\ Bridge!LockProtectsQueue'
         /\ \A i \in 1..Len(queue) : Handled(i)' <=> Handled(i)
         /\ UNCHANGED <<queue, queueLock, dropped, threw>>
  <1>1. /\ at \in [Threads -> {"idle", "push", "functor", "test", "lock", "call", "done"}]
        /\ doing \in [Threads -> Bridge!Operations]
    BY DEF BridgeInv, Bridge!TypeOK, Bridge!Inside, Threads
  <1>2. /\ at[t] \notin {"call", "done"} /\ UNCHANGED <<queue, queueLock, item, dropped, threw>>
        /\ \E place \in {"idle", "push", "test", "lock"} : at' = [at EXCEPT ![t] = place]
        /\ \A s \in Threads \ {t} : doing'[s] = doing[s]
    BY <1>1 DEF OutsideStep, Bridge!Goto, Bridge!Emit, Bridge!EmitDirectly, Bridge!AskFunctor,
                Bridge!Test, Bridge!Invoke
  <1>3. /\ at' \in [Threads -> {"idle", "push", "functor", "test", "lock", "call", "done"}]
        /\ at'[t] \notin {"call", "done"} /\ \A s \in Threads \ {t} : at'[s] = at[s]
    BY <1>1, <1>2
  <1> QED BY <1>2, <1>3, Elsewhere

(* The types of the bridge; the bound of the emissions is what Room is for. *)
LEMMA TypeStep ==
  ASSUME BridgeInv, NEW t \in Threads, Bridge!Step(t)
  PROVE  Bridge!TypeOK'
  <1> USE BridgeAssumption DEF Bridge!TypeOK, Bridge!Goto, Bridge!Inside, Bridge!Operations, Threads
  <1>0. Bridge!TypeOK /\ MaxEmits \in Nat /\ <<>> \in Seq(1..MaxEmits)
    BY DEF BridgeInv
  <1>1. CASE Bridge!Emit(t)
    BY <1>0, <1>1 DEF Bridge!Emit
  <1>2. CASE Bridge!EmitDirectly(t)
    <2>1. sent + 1 \in 1..MaxEmits
      BY <1>0, <1>2, Room DEF Bridge!EmitDirectly
    <2>2. Append(got, sent + 1) \in Seq(1..MaxEmits)
      BY <1>0, <2>1, AppendProperties
    <2> QED BY <1>0, <1>2, <2>1, <2>2 DEF Bridge!EmitDirectly
  <1>3. CASE Bridge!Push(t)
    <2>1. sent + 1 \in 1..MaxEmits
      BY <1>0, <1>3, Room DEF Bridge!Push
    <2>2. Append(queue, sent + 1) \in Seq(1..MaxEmits)
      BY <1>0, <2>1, AppendProperties
    <2> QED BY <1>0, <1>3, <2>1, <2>2 DEF Bridge!Push
  <1>4. CASE Bridge!AskFunctor(t) \/ Bridge!Test(t)
    BY <1>0, <1>4 DEF Bridge!AskFunctor, Bridge!Test
  <1>5. CASE Bridge!Lock(t)
    <2>1. Bridge!ToSet(queue) \subseteq 1..MaxEmits
      BY <1>0, ToSetFacts
    <2>2. /\ queue' \in {queue, <<>>} /\ queue' \in Seq(1..MaxEmits)
          /\ dropped' \in {dropped, dropped \cup Bridge!ToSet(queue)}
      BY <1>0, <1>5 DEF Bridge!Lock
    <2>3. at' \in [Threads -> {"idle", "push", "functor", "test", "lock"} \cup {"call", "done"}]
          /\ queueLock' \in Threads \cup {None} /\ item' \in 1..(MaxEmits + 1)
      BY <1>0, <1>5 DEF Bridge!Lock
    <2> QED BY <1>0, <1>5, <2>1, <2>2, <2>3 DEF Bridge!Lock
  <1>6. CASE Bridge!Call(t)
    <2>1. PICK i \in 1..Len(queue), place \in {"call", "done"} :
            /\ Bridge!Deliver(queue[i]) /\ at' = [at EXCEPT ![t] = place]
            /\ item' \in 1..(MaxEmits + 1)
      BY <1>6, CallFacts
    <2>2. queue[i] \in 1..MaxEmits
      BY <1>0, ElementOfSeq
    <2>3. Append(got, queue[i]) \in Seq(1..MaxEmits)
      BY <1>0, <2>2, AppendProperties
    <2>4. got' \in Seq(1..MaxEmits) /\ dropped' \subseteq 1..MaxEmits
      BY <1>0, <2>1, <2>2, <2>3 DEF Bridge!Deliver
    <2>5. UNCHANGED <<queue, queueLock, bridged, enabled, functor, doing, sent, threw>>
      BY <1>6 DEF Bridge!Call
    <2> QED BY <1>0, <2>1, <2>4, <2>5
  <1>7. CASE Bridge!Finish(t)
    <2>1. Bridge!ToSet(queue) \subseteq 1..MaxEmits
      BY <1>0, ToSetFacts
    <2>2. /\ queue # <<>> /\ (queue' = Tail(queue) \/ queue' = <<>>)
          /\ dropped' \subseteq dropped \cup Bridge!ToSet(queue)
      BY <1>7, FinishFacts
    <2>3. queue' \in Seq(1..MaxEmits)
      <3>1. Tail(queue) \in Seq(1..MaxEmits)
        BY <1>0, <2>2, HeadTailProperties
      <3> QED BY <1>0, <2>2, <3>1
    <2>4. /\ queueLock' = None /\ at' = [at EXCEPT ![t] = "idle"]
          /\ UNCHANGED <<bridged, enabled, functor, doing, item, sent, got, threw>>
      BY <1>7, FinishFacts
    <2> QED BY <1>0, <2>1, <2>2, <2>3, <2>4
  <1>8. CASE Bridge!SlotThrows(t)
    BY <1>0, <1>8 DEF Bridge!SlotThrows
  <1>9. ASSUME NEW op \in Bridge!Operations, Bridge!Invoke(t, op) PROVE Bridge!TypeOK'
    BY <1>0, <1>9 DEF Bridge!Invoke
  <1> QED BY <1>1, <1>2, <1>3, <1>4, <1>5, <1>6, <1>7, <1>8, <1>9 DEF Bridge!Step

(* The lock, and what its holder has to do with the queue.                  *)
LEMMA HolderStep ==
  ASSUME BridgeInv, NEW t \in Threads, Bridge!Step(t)
  PROVE  Holder' /\ Bridge!LockProtectsQueue'
  <1>0. /\ at \in [Threads -> {"idle", "push", "functor", "test", "lock", "call", "done"}]
        /\ doing \in [Threads -> Bridge!Operations] /\ queueLock \in Threads \cup {None}
        /\ None \notin Threads
        /\ \A s \in Threads : at[s] \in {"call", "done"} <=> queueLock = s
        /\ Holder
    BY BridgeAssumption DEF BridgeInv, Bridge!TypeOK, Bridge!Inside, Bridge!LockProtectsQueue, Threads
  <1>1. (\A s \in Threads : at'[s] \in {"call", "done"} <=> queueLock' = s)
          => Bridge!LockProtectsQueue'
    BY DEF Bridge!LockProtectsQueue, Bridge!Inside, Threads
  <1> USE DEF Bridge!Goto
  <1>2. CASE OutsideStep(t)
    BY <1>2, Outside
  <1>3. CASE Bridge!Push(t)
    <2>1. queueLock = None /\ queueLock' = None /\ at' = [at EXCEPT ![t] = "functor"]
      BY <1>3 DEF Bridge!Push
    <2> QED BY <1>0, <1>1, <2>1 DEF Holder
  <1>4. CASE Bridge!Lock(t)
    <2>1. CASE queueLock' = None /\ at' = [at EXCEPT ![t] = "idle"]
      BY <1>0, <1>1, <1>4, <2>1 DEF Bridge!Lock, Holder
    <2>2. CASE /\ queue # <<>> /\ doing[t] # "clear" /\ queueLock' = t /\ item' = 1
               /\ at' = [at EXCEPT ![t] = "call"] /\ queue' = queue
      <3>1. queueLock = None /\ doing' = doing
        BY <1>4 DEF Bridge!Lock
      <3>2. Len(queue) \in Nat /\ Len(queue) >= 1
        BY <2>2, Room, EmptySeq DEF BridgeInv, Bridge!TypeOK
      <3> QED BY <1>0, <1>1, <2>2, <3>1, <3>2 DEF Holder
    <2> QED BY <1>0, <1>4, <2>1, <2>2 DEF Bridge!Lock
  <1>5. CASE Bridge!Call(t)
    <2>1. PICK place \in {"call", "done"} :
            /\ at' = [at EXCEPT ![t] = place]
            /\ doing[t] = "all" => /\ item' <= Len(queue) + 1
                                   /\ place = "done" <=> item' = Len(queue) + 1
      BY <1>5, CallFacts
    <2>2. queueLock = t /\ queue # <<>> /\ UNCHANGED <<queue, queueLock, doing>>
      BY <1>5, CallFacts
    <2> QED BY <1>0, <1>1, <2>1, <2>2 DEF Holder
  <1>6. CASE Bridge!Finish(t)
    <2>1. queueLock = t /\ queueLock' = None /\ at' = [at EXCEPT ![t] = "idle"]
      BY <1>6, FinishFacts
    <2> QED BY <1>0, <1>1, <2>1 DEF Holder
  <1>7. CASE Bridge!SlotThrows(t)
    <2>1. queueLock = t /\ queueLock' = None /\ at' = [at EXCEPT ![t] = "idle"]
      BY <1>0, <1>7 DEF Bridge!SlotThrows
    <2> QED BY <1>0, <1>1, <2>1 DEF Holder
  <1> QED BY <1>2, <1>3, <1>4, <1>5, <1>6, <1>7 DEF Bridge!Step, OutsideStep

(* What is in the queue was sent, and the queue has it once.                *)
LEMMA QueueFacts ==
  ASSUME BridgeInv
  PROVE  /\ queue \in Seq(1..MaxEmits) /\ got \in Seq(1..MaxEmits)
         /\ DOMAIN queue = 1..Len(queue) /\ DOMAIN got = 1..Len(got)
         /\ \A i \in 1..Len(queue) : queue[i] \in 1..sent
         /\ \A i \in 1..Len(got) : got[i] \in 1..sent
         /\ \A i, j \in 1..Len(queue) : queue[i] = queue[j] => i = j
         /\ Bridge!ToSet(queue) \subseteq 1..sent /\ Bridge!ToSet(got) \subseteq 1..sent
         /\ dropped \subseteq 1..sent
         /\ sent + 1 \notin 1..sent
  <1>1. queue \in Seq(1..MaxEmits) /\ got \in Seq(1..MaxEmits) /\ sent \in Nat
    BY Room DEF BridgeInv, Bridge!TypeOK
  <1>2. DOMAIN queue = 1..Len(queue) /\ DOMAIN got = 1..Len(got)
    BY <1>1, LenProperties
  <1>3. /\ Bridge!ToSet(queue) \subseteq 1..sent /\ Bridge!ToSet(got) \subseteq 1..sent
        /\ dropped \subseteq 1..sent
    BY DEF BridgeInv, Bridge!Accounted
  <1>4. /\ \A i \in 1..Len(queue) : queue[i] \in 1..sent
        /\ \A i \in 1..Len(got) : got[i] \in 1..sent
    BY <1>2, <1>3 DEF Bridge!ToSet
  <1>5. \A i, j \in 1..Len(queue) : queue[i] = queue[j] => i = j
    BY <1>2 DEF BridgeInv, Numbers, Bridge!IsInjective
  <1>6. sent + 1 \notin 1..sent
    BY <1>1
  <1> QED BY <1>1, <1>2, <1>3, <1>4, <1>5, <1>6

(* A queue without repetitions stays one.                                   *)
LEMMA AppendInjects ==
  ASSUME NEW S, NEW s \in Seq(S), NEW x \in S, Bridge!IsInjective(s), x \notin Bridge!ToSet(s)
  PROVE  Bridge!IsInjective(Append(s, x))
  <1> DEFINE a == Append(s, x)
  <1>1. DOMAIN s = 1..Len(s) /\ Len(s) \in Nat
    BY LenProperties
  <1>2. /\ a \in Seq(S) /\ Len(a) = Len(s) + 1 /\ a[Len(s) + 1] = x
        /\ \A i \in 1..Len(s) : a[i] = s[i]
    BY AppendProperties
  <1> HIDE DEF a
  <1>3. DOMAIN a = 1..(Len(s) + 1)
    BY <1>1, <1>2
  <1>4. \A i \in 1..Len(s) : s[i] # x
    BY <1>1 DEF Bridge!ToSet
  <1>5. \A i \in DOMAIN a : i \in 1..Len(s) \/ i = Len(s) + 1
    BY <1>1, <1>3
  <1>6. Bridge!IsInjective(a)
    BY <1>1, <1>2, <1>4, <1>5 DEF Bridge!IsInjective
  <1> QED BY <1>6 DEF a

LEMMA TailInjects ==
  ASSUME NEW S, NEW s \in Seq(S), s # <<>>, Bridge!IsInjective(s)
  PROVE  Bridge!IsInjective(Tail(s))
  <1> DEFINE u == Tail(s)
  <1>1. DOMAIN s = 1..Len(s) /\ Len(s) \in Nat
    BY LenProperties
  <1>2. /\ u \in Seq(S) /\ Len(u) = Len(s) - 1 /\ \A i \in 1..Len(u) : u[i] = s[i + 1]
    BY HeadTailProperties
  <1> HIDE DEF u
  <1>3. DOMAIN u = 1..Len(u) /\ Len(u) \in Nat
    BY <1>2, LenProperties
  <1>4. \A i \in 1..Len(u) : i + 1 \in DOMAIN s
    BY <1>1, <1>2, <1>3
  <1>5. \A i, j \in 1..Len(u) : u[i] = u[j] => i + 1 = j + 1
    BY <1>2, <1>4 DEF Bridge!IsInjective
  <1>6. \A i, j \in 1..Len(u) : u[i] = u[j] => i = j
    BY <1>3, <1>5
  <1>7. Bridge!IsInjective(u)
    BY <1>3, <1>6 DEF Bridge!IsInjective
  <1> QED BY <1>7 DEF u

(* Emissions are numbered within the bound, each number once in the queue.  *)
LEMMA NumbersStep ==
  ASSUME BridgeInv, NEW t \in Threads, Bridge!Step(t)
  PROVE  Numbers'
  <1>0. /\ at \in [Threads -> {"idle", "push", "functor", "test", "lock", "call", "done"}]
        /\ queue \in Seq(1..MaxEmits) /\ Len(queue) <= sent /\ Bridge!IsInjective(queue)
        /\ sent \in Nat /\ Len(queue) \in Nat
        /\ sent + Cardinality(Emitting) <= MaxEmits /\ Cardinality(Emitting) \in Nat
    BY Room, Counts DEF BridgeInv, Bridge!TypeOK, Bridge!Inside, Numbers, Threads
  <1>1. Bridge!IsInjective(<<>>) /\ Len(<<>>) = 0
    BY DEF Bridge!IsInjective
  <1> USE DEF Bridge!Goto
  <1>2. ASSUME UNCHANGED sent, at[t] # "push",
               \E place \in {"idle", "test", "lock", "call", "done"} : at' = [at EXCEPT ![t] = place],
               queue' \in {queue, <<>>} \/ (queue' = Tail(queue) /\ queue # <<>>)
        PROVE  Numbers'
    <2>1. Emitting' = Emitting
      BY <1>0, <1>2 DEF Emitting
    <2>2. Len(queue') <= sent' /\ Bridge!IsInjective(queue')
      <3>1. CASE queue' = queue
        BY <1>0, <1>2, <3>1
      <3>2. CASE queue' = <<>>
        BY <1>0, <1>1, <1>2, <3>2
      <3>3. CASE queue' = Tail(queue) /\ queue # <<>>
        <4>1. Len(Tail(queue)) = Len(queue) - 1
          BY <1>0, <3>3, HeadTailProperties
        <4>2. Bridge!IsInjective(Tail(queue))
          BY <1>0, <3>3, TailInjects
        <4>3. sent' = sent
          BY <1>2
        <4>4. Len(queue) - 1 <= sent
          BY <1>0
        <4> QED BY <3>3, <4>1, <4>2, <4>3, <4>4
      <3> QED BY <1>2, <3>1, <3>2, <3>3
    <2> QED BY <1>0, <1>2, <2>1, <2>2 DEF Numbers
  <1>3. CASE Bridge!Emit(t)
    <2>1. /\ Emitting' = Emitting \cup {t} /\ t \notin Emitting
          /\ UNCHANGED <<sent, queue>>
      BY <1>0, <1>3 DEF Bridge!Emit, Emitting
    <2>2. Cardinality(Emitting') = Cardinality(Emitting) + 1
      BY <2>1, Counts, FS_AddElement
    <2>3. sent + Cardinality(Emitting) + 1 <= MaxEmits
      BY <1>3, Room DEF Bridge!Emit
    <2> QED BY <1>0, <2>1, <2>2, <2>3 DEF Numbers
  <1>4. CASE Bridge!EmitDirectly(t)
    <2>1. sent' = sent + 1 /\ UNCHANGED <<queue, at>>
      BY <1>4 DEF Bridge!EmitDirectly
    <2>2. Emitting' = Emitting
      BY <2>1 DEF Emitting
    <2>3. sent + Cardinality(Emitting) + 1 <= MaxEmits
      BY <1>4, Room DEF Bridge!EmitDirectly
    <2> QED BY <1>0, <2>1, <2>2, <2>3 DEF Numbers
  <1>5. CASE Bridge!Push(t)
    <2>1. /\ Emitting' = Emitting \ {t} /\ t \in Emitting
          /\ sent' = sent + 1 /\ queue' = Append(queue, sent + 1)
      BY <1>0, <1>5 DEF Bridge!Push, Emitting
    <2>2. Cardinality(Emitting') = Cardinality(Emitting) - 1
      BY <2>1, Counts, FS_RemoveElement
    <2>3. sent + 1 \in 1..MaxEmits
      BY <1>0, <1>5, Room, BridgeAssumption DEF Bridge!Push
    <2>4. Len(queue') = Len(queue) + 1
      BY <1>0, <2>1, <2>3, AppendProperties
    <2>5. Bridge!IsInjective(queue')
      BY <1>0, <2>1, <2>3, QueueFacts, AppendInjects
    <2> QED BY <1>0, <2>1, <2>2, <2>4, <2>5 DEF Numbers
  <1>6. CASE Bridge!AskFunctor(t) \/ Bridge!Test(t)
             \/ \E op \in Bridge!Operations : Bridge!Invoke(t, op)
    BY <1>2, <1>6 DEF Bridge!AskFunctor, Bridge!Test, Bridge!Invoke
  <1>7. CASE Bridge!Lock(t) \/ Bridge!SlotThrows(t)
    BY <1>2, <1>7 DEF Bridge!Lock, Bridge!SlotThrows
  <1>8. CASE Bridge!Call(t)
    <2>1. at[t] = "call" /\ UNCHANGED <<sent, queue>>
          /\ \E place \in {"call", "done"} : at' = [at EXCEPT ![t] = place]
      BY <1>8, CallFacts
    <2> QED BY <1>2, <2>1
  <1>9. CASE Bridge!Finish(t)
    <2>1. /\ at[t] = "done" /\ UNCHANGED sent /\ at' = [at EXCEPT ![t] = "idle"]
          /\ queue' = <<>> \/ (queue' = Tail(queue) /\ queue # <<>>)
      BY <1>9, FinishFacts
    <2> QED BY <1>2, <2>1
  <1> QED BY <1>3, <1>4, <1>5, <1>6, <1>7, <1>8, <1>9 DEF Bridge!Step

(* What is accounted for: nothing is delivered that was not waiting, and    *)
(* what has been delivered is not waiting to be delivered again.            *)
LEMMA AccountStep ==
  ASSUME BridgeInv, NEW t \in Threads, Bridge!Step(t)
  PROVE  Bridge!Accounted' /\ Bridge!DeliveredOnce' /\ Progress'
  <1> DEFINE Q == Bridge!ToSet(queue)
             G == Bridge!ToSet(got)
  <1>0. /\ Bridge!Accounted /\ Bridge!DeliveredOnce /\ Progress /\ Holder
        /\ queue \in Seq(1..MaxEmits) /\ got \in Seq(1..MaxEmits)
        /\ sent \in Nat /\ Len(queue) \in Nat /\ MaxEmits \in Nat
        /\ at \in [Threads -> {"idle", "push", "functor", "test", "lock", "call", "done"}]
    BY Room, BridgeAssumption DEF BridgeInv, Bridge!TypeOK, Bridge!Inside, Threads
  <1>1. 1..sent = Q \cup G \cup dropped
    BY <1>0 DEF Bridge!Accounted
  <1>2. ASSUME queueLock' = None, queue' = queue, got' = got, dropped' = dropped, sent' = sent,
               threw' = threw, queueLock = None \/ threw'
        PROVE  Bridge!Accounted' /\ Bridge!DeliveredOnce' /\ Progress'
    BY <1>0, <1>2 DEF Bridge!Accounted, Bridge!DeliveredOnce, Progress, Handled
  <1>3. CASE OutsideStep(t) /\ ~Bridge!EmitDirectly(t)
    <2>1. UNCHANGED <<got, sent, queue, dropped, threw>>
      BY <1>3, Outside DEF OutsideStep, Bridge!Emit, Bridge!AskFunctor, Bridge!Test, Bridge!Invoke
    <2>2. \A i \in 1..Len(queue) : Handled(i)' <=> Handled(i)
      BY <1>3, Outside
    <2> QED BY <1>0, <2>1, <2>2 DEF Bridge!Accounted, Bridge!DeliveredOnce, Progress
  <1>4. CASE Bridge!EmitDirectly(t)
    <2>1. /\ got' = Append(got, sent + 1) /\ sent' = sent + 1 /\ UNCHANGED <<queue, dropped, threw>>
          /\ sent + 1 \in 1..MaxEmits
      BY <1>0, <1>4, Room DEF Bridge!EmitDirectly
    <2>2. \A i \in 1..Len(queue) : Handled(i)' <=> Handled(i)
      BY <1>4, Outside DEF OutsideStep
    <2>3. Bridge!ToSet(got') = G \cup {sent + 1}
      BY <1>0, <2>1, ToSetFacts
    <2>4. 1..sent' = 1..sent \cup {sent + 1}
      BY <1>0, <2>1
    <2>5. Bridge!Accounted'
      BY <1>1, <2>1, <2>3, <2>4 DEF Bridge!Accounted
    <2>6. Bridge!DeliveredOnce'
      BY <1>0, <2>1, QueueFacts, AppendInjects DEF Bridge!DeliveredOnce
    <2>7. Progress'
      <3>1. \A i \in 1..Len(queue) : queue[i] # sent + 1
        BY QueueFacts
      <3> QED BY <1>0, <2>1, <2>2, <2>3, <3>1 DEF Progress
    <2> QED BY <2>5, <2>6, <2>7
  <1>5. CASE Bridge!Push(t)
    <2>1. /\ queue' = Append(queue, sent + 1) /\ sent' = sent + 1
          /\ UNCHANGED <<got, dropped, threw, queueLock>> /\ queueLock = None
          /\ sent + 1 \in 1..MaxEmits
      BY <1>0, <1>5, Room DEF Bridge!Push
    <2>2. Bridge!ToSet(queue') = Q \cup {sent + 1}
      BY <1>0, <2>1, ToSetFacts
    <2>3. 1..sent' = 1..sent \cup {sent + 1}
      BY <1>0, <2>1
    <2>4. Bridge!Accounted'
      BY <1>1, <2>1, <2>2, <2>3 DEF Bridge!Accounted
    <2>5. Bridge!DeliveredOnce'
      BY <1>0, <2>1 DEF Bridge!DeliveredOnce
    <2>6. Progress'
      <3>1. /\ Len(queue') = Len(queue) + 1 /\ queue'[Len(queue) + 1] = sent + 1
            /\ \A i \in 1..Len(queue) : queue'[i] = queue[i]
        BY <1>0, <2>1, AppendProperties
      <3>2. sent + 1 \notin G
        BY QueueFacts
      <3>3. \A i \in 1..Len(queue') : ~Handled(i)' /\ (i \in 1..Len(queue) \/ i = Len(queue) + 1)
        BY <1>0, <2>1, <3>1 DEF Handled
      <3>4. \A i \in 1..Len(queue) : threw \/ queue[i] \notin G
        BY <1>0, <2>1 DEF Handled, Progress
      <3>5. \A i \in 1..Len(queue') : threw' \/ queue'[i] \notin Bridge!ToSet(got')
        BY <2>1, <3>1, <3>2, <3>3, <3>4
      <3> QED BY <3>3, <3>5 DEF Progress
    <2> QED BY <2>4, <2>5, <2>6
  <1>6. CASE Bridge!Lock(t)
    <2>1. queueLock = None /\ UNCHANGED <<got, sent, threw, doing>>
      BY <1>6 DEF Bridge!Lock
    <2>2. CASE queueLock' = None /\ queue' = queue /\ dropped' = dropped
      BY <1>2, <2>1, <2>2
    <2>3. CASE queue' = <<>> /\ dropped' = dropped \cup Q
      <3>1. Bridge!ToSet(<<>>) = {}
        BY DEF Bridge!ToSet
      <3>2. Bridge!Accounted'
        BY <1>1, <2>1, <2>3, <3>1 DEF Bridge!Accounted
      <3>3. Progress'
        BY <2>3 DEF Progress
      <3> QED BY <1>0, <2>1, <3>2, <3>3 DEF Bridge!DeliveredOnce
    <2>4. CASE /\ queueLock' = t /\ item' = 1 /\ queue' = queue /\ dropped' = dropped
               /\ at' = [at EXCEPT ![t] = "call"]
      <3>1. \A i \in 1..Len(queue) : ~Handled(i) /\ ~Handled(i)'
        <4>1. at'[t] = "call"
          BY <1>0, <2>4
        <4> QED BY <1>0, <2>1, <2>4, <4>1 DEF Handled
      <3> QED BY <1>0, <2>1, <2>4, <3>1 DEF Bridge!Accounted, Bridge!DeliveredOnce, Progress
    <2> QED BY <1>6, <2>1, <2>2, <2>3, <2>4 DEF Bridge!Lock, Bridge!Goto
  <1>7. CASE Bridge!Call(t)
    <2>1. PICK i \in 1..Len(queue) :
            /\ Bridge!Deliver(queue[i]) /\ ~Handled(i)
            /\ \A j \in 1..Len(queue) : Handled(j)' <=> Handled(j) \/ j = i
      BY <1>7, CallFacts
    <2>2. UNCHANGED <<queue, sent, threw>>
      BY <1>7, CallFacts
    <2>3. queue[i] \in Q /\ queue[i] \in 1..MaxEmits /\ \A j \in 1..Len(queue) : queue[j] = queue[i] => j = i
      BY <1>0, ToSetFacts, QueueFacts
    <2>4. threw \/ queue[i] \notin G
      BY <1>0, <2>1 DEF Progress
    <2>5. CASE got' = Append(got, queue[i]) /\ dropped' = dropped
      <3>1. Bridge!ToSet(got') = G \cup {queue[i]}
        BY <1>0, <2>5, ToSetFacts
      <3>2. Bridge!Accounted'
        BY <1>1, <2>2, <2>3, <2>5, <3>1 DEF Bridge!Accounted
      <3>3. Bridge!DeliveredOnce'
        BY <1>0, <2>2, <2>3, <2>4, <2>5, AppendInjects DEF Bridge!DeliveredOnce
      <3>4. Progress'
        BY <1>0, <2>1, <2>2, <2>3, <2>5, <3>1 DEF Progress
      <3> QED BY <3>2, <3>3, <3>4
    <2>6. CASE dropped' = dropped \cup {queue[i]} /\ got' = got
      <3>1. Bridge!Accounted'
        BY <1>1, <2>2, <2>3, <2>6 DEF Bridge!Accounted
      <3>2. Bridge!DeliveredOnce'
        BY <1>0, <2>2, <2>6 DEF Bridge!DeliveredOnce
      <3>3. Progress'
        BY <1>0, <2>1, <2>2, <2>3, <2>6 DEF Progress
      <3> QED BY <3>1, <3>2, <3>3
    <2> QED BY <2>1, <2>5, <2>6 DEF Bridge!Deliver
  <1>8. CASE Bridge!Finish(t)
    <2>1. /\ queueLock = t /\ queue # <<>> /\ at[t] = "done" /\ queueLock' = None
          /\ UNCHANGED <<sent, got, threw>>
      BY <1>8, FinishFacts
    <2>2. Bridge!DeliveredOnce'
      BY <1>0, <2>1 DEF Bridge!DeliveredOnce
    <2>3. CASE /\ queue' = Tail(queue) /\ dropped' = dropped /\ doing[t] = "next"
               /\ queue[1] \in G \cup dropped
      <3>1. Q = Bridge!ToSet(queue') \cup {queue[1]}
        BY <1>0, <2>1, <2>3, ToSetFacts
      <3>2. Bridge!Accounted'
        BY <1>1, <2>1, <2>3, <3>1 DEF Bridge!Accounted
      <3>3. /\ Len(queue') = Len(queue) - 1
            /\ \A i \in 1..Len(queue') : queue'[i] = queue[i + 1]
        BY <1>0, <2>1, <2>3, HeadTailProperties
      <3>4. \A i \in 1..Len(queue') : i + 1 \in 1..Len(queue) /\ i + 1 # 1
        BY <1>0, <3>3
      <3>5. \A i \in 1..Len(queue') : ~Handled(i + 1) /\ ~Handled(i)'
        BY <2>1, <2>3, <3>4 DEF Handled
      <3>6. \A i \in 1..Len(queue') : threw' \/ queue'[i] \notin Bridge!ToSet(got')
        BY <1>0, <2>1, <3>3, <3>4, <3>5 DEF Progress
      <3>7. Progress'
        BY <3>5, <3>6 DEF Progress
      <3> QED BY <2>2, <3>2, <3>7
    <2>4. CASE /\ queue' = <<>> /\ dropped' \in SUBSET (dropped \cup Q) /\ dropped \subseteq dropped'
               /\ Q \subseteq G \cup dropped'
      <3>1. Bridge!ToSet(<<>>) = {}
        BY DEF Bridge!ToSet
      <3>2. Bridge!Accounted'
        BY <1>1, <2>1, <2>4, <3>1 DEF Bridge!Accounted
      <3>3. Progress'
        BY <2>4 DEF Progress
      <3> QED BY <2>2, <3>2, <3>3
    <2> QED BY <1>8, <2>3, <2>4, FinishFacts
  <1>9. CASE Bridge!SlotThrows(t)
    <2>1. /\ queueLock' = None /\ threw' = TRUE
          /\ UNCHANGED <<queue, got, dropped, sent>>
      BY <1>9 DEF Bridge!SlotThrows
    <2> QED BY <1>0, <2>1 DEF Bridge!Accounted, Bridge!DeliveredOnce, Progress, Handled
  <1> QED BY <1>3, <1>4, <1>5, <1>6, <1>7, <1>8, <1>9 DEF Bridge!Step, OutsideStep

(* Without a functor whoever puts an emission in the queue becomes one of   *)
(* those who take one out, and leaves them only with one taken out or with  *)
(* a queue that was empty.                                                  *)
LEMMA EnoughStep ==
  ASSUME BridgeInv, NEW t \in Threads, Bridge!Step(t)
  PROVE  Enough'
  <1>0. /\ at \in [Threads -> {"idle", "push", "functor", "test", "lock", "call", "done"}]
        /\ doing \in [Threads -> Bridge!Operations]
        /\ queue \in Seq(1..MaxEmits) /\ sent \in Nat /\ Len(queue) \in Nat
        /\ queue = <<>> => Len(queue) = 0
        /\ Len(<<>>) = 0
        /\ Enough /\ IsFiniteSet(Popping) /\ Cardinality(Popping) \in Nat
    BY Room, Counts, EmptySeq DEF BridgeInv, Bridge!TypeOK, Bridge!Inside, Threads
  <1>1. IsFiniteSet(Popping') /\ Cardinality(Popping') \in Nat
    <2>1. Popping' \subseteq Threads
      BY DEF Popping, Threads
    <2> QED BY <2>1, ThreadsFinite, FS_Subset, FS_CardinalityType
  <1>2. functor' = functor /\ (threw => threw')
    BY DEF Bridge!Step, Bridge!Emit, Bridge!EmitDirectly, Bridge!Push, Bridge!AskFunctor, Bridge!Test,
           Bridge!Lock, Bridge!Call, Bridge!Finish, Bridge!SlotThrows, Bridge!Invoke
  <1>3. ASSUME Len(queue') = 0 PROVE Enough'
    BY <1>1, <1>3 DEF Enough
  <1>4. ASSUME queue' = queue, Popping \subseteq Popping' PROVE Enough'
    <2>1. Cardinality(Popping) <= Cardinality(Popping')
      BY <1>1, <1>4, FS_Subset
    <2> QED BY <1>0, <1>1, <1>2, <1>4, <2>1 DEF Enough
  <1> USE DEF Bridge!Goto
  <1>5. CASE Bridge!Emit(t) \/ Bridge!EmitDirectly(t)
    <2>1. queue' = queue /\ Popping' = Popping
      BY <1>0, <1>5 DEF Bridge!Emit, Bridge!EmitDirectly, Popping
    <2> QED BY <1>4, <2>1
  <1>6. CASE Bridge!Push(t)
    <2>1. /\ queue' = Append(queue, sent + 1) /\ sent + 1 \in 1..MaxEmits
          /\ Popping' = Popping \cup {t} /\ t \notin Popping
      BY <1>0, <1>6, Room, BridgeAssumption DEF Bridge!Push, Popping
    <2>2. Cardinality(Popping') = Cardinality(Popping) + 1
      BY <1>0, <2>1, FS_AddElement
    <2>3. Len(queue') = Len(queue) + 1
      BY <1>0, <2>1, AppendProperties
    <2> QED BY <1>0, <1>2, <2>2, <2>3 DEF Enough
  <1>7. CASE Bridge!AskFunctor(t)
    <2>1. CASE functor
      BY <1>2, <2>1 DEF Enough
    <2>2. CASE ~functor
      <3>1. queue' = queue /\ Popping \subseteq Popping'
        BY <1>0, <1>7, <2>2 DEF Bridge!AskFunctor, Popping
      <3> QED BY <1>4, <3>1
    <2> QED BY <2>1, <2>2
  <1>8. CASE \E op \in Bridge!Operations : Bridge!Invoke(t, op)
    <2>1. queue' = queue /\ Popping \subseteq Popping'
      BY <1>0, <1>8 DEF Bridge!Invoke, Popping
    <2> QED BY <1>4, <2>1
  <1>9. CASE Bridge!Test(t)
    <2>1. queue' = queue
      BY <1>9 DEF Bridge!Test
    <2>2. CASE queue = <<>>
      BY <1>0, <1>3, <2>1, <2>2
    <2>3. CASE queue # <<>>
      <3>1. Popping \subseteq Popping'
        BY <1>0, <1>9, <2>3 DEF Bridge!Test, Popping
      <3> QED BY <1>4, <2>1, <3>1
    <2> QED BY <2>2, <2>3
  <1>10. CASE Bridge!Lock(t)
    <2>1. CASE queue' = <<>>
      BY <1>0, <1>3, <2>1
    <2>2. CASE queue' # <<>>
      <3>1. queue' = queue /\ Popping \subseteq Popping'
        BY <1>0, <1>10, <2>2 DEF Bridge!Lock, Popping
      <3> QED BY <1>4, <3>1
    <2> QED BY <2>1, <2>2
  <1>11. CASE Bridge!Call(t)
    <2>1. /\ at[t] = "call" /\ queue' = queue /\ doing' = doing
          /\ \E place \in {"call", "done"} : at' = [at EXCEPT ![t] = place]
      BY <1>11, CallFacts
    <2>2. Popping \subseteq Popping'
      BY <1>0, <2>1 DEF Popping
    <2> QED BY <1>4, <2>1, <2>2
  <1>12. CASE Bridge!Finish(t)
    <2>1. /\ queue # <<>> /\ at[t] = "done" /\ at' = [at EXCEPT ![t] = "idle"]
          /\ doing' = doing /\ threw' = threw
      BY <1>12, FinishFacts
    <2>2. CASE queue' = <<>>
      BY <1>0, <1>3, <2>2
    <2>3. CASE queue' = Tail(queue) /\ doing[t] = "next"
      <3>1. Popping' = Popping \ {t} /\ t \in Popping
        BY <1>0, <2>1, <2>3 DEF Popping
      <3>2. Cardinality(Popping') = Cardinality(Popping) - 1
        BY <1>0, <3>1, FS_RemoveElement
      <3>3. Len(queue') = Len(queue) - 1
        BY <1>0, <2>1, <2>3, HeadTailProperties
      <3> QED BY <1>0, <1>2, <2>1, <3>2, <3>3 DEF Enough
    <2> QED BY <1>12, <2>2, <2>3, FinishFacts
  <1>13. CASE Bridge!SlotThrows(t)
    BY <1>13 DEF Bridge!SlotThrows, Enough
  <1> QED BY <1>5, <1>6, <1>7, <1>8, <1>9, <1>10, <1>11, <1>12, <1>13 DEF Bridge!Step

LEMMA BridgeInvariant ==
  ASSUME BridgeInv, [Next]_vars
  PROVE  BridgeInv'
  <1>1. CASE UNCHANGED bridgeVars
    <2>1. Bridge!TypeOK' /\ Bridge!LockProtectsQueue' /\ Bridge!Accounted' /\ Bridge!DeliveredOnce'
      BY <1>1 DEF bridgeVars, BridgeInv, Bridge!TypeOK, Bridge!LockProtectsQueue, Bridge!Accounted,
             Bridge!DeliveredOnce, Bridge!Inside
    <2>2. Emitting' = Emitting /\ Popping' = Popping /\ \A i : Handled(i)' <=> Handled(i)
      BY <1>1 DEF bridgeVars, Emitting, Popping, Handled
    <2>3. Numbers' /\ Holder' /\ Enough'
      BY <1>1, <2>2 DEF bridgeVars, BridgeInv, Numbers, Holder, Enough
    <2>4. Progress'
      BY <1>1, <2>2 DEF bridgeVars, BridgeInv, Progress
    <2> QED BY <2>1, <2>3, <2>4 DEF BridgeInv
  <1>2. ASSUME NEW t \in Threads, Bridge!Step(t) PROVE BridgeInv'
    BY <1>2, TypeStep, HolderStep, NumbersStep, AccountStep, EnoughStep DEF BridgeInv
  <1>3. ASSUME NEW b \in BOOLEAN, Bridge!SetBridgeEnabled(b) \/ Bridge!SetEnabled(b)
        PROVE  BridgeInv'
    <2>1. /\ UNCHANGED <<queue, queueLock, functor, at, doing, item, sent, got, dropped, threw>>
          /\ bridged' \in BOOLEAN /\ enabled' \in BOOLEAN
      BY <1>3 DEF Bridge!SetBridgeEnabled, Bridge!SetEnabled, BridgeInv, Bridge!TypeOK
    <2>2. Bridge!TypeOK' /\ Bridge!LockProtectsQueue' /\ Bridge!Accounted' /\ Bridge!DeliveredOnce'
      BY <2>1 DEF BridgeInv, Bridge!TypeOK, Bridge!LockProtectsQueue, Bridge!Accounted,
             Bridge!DeliveredOnce, Bridge!Inside
    <2>3. Emitting' = Emitting /\ Popping' = Popping /\ \A i : Handled(i)' <=> Handled(i)
      BY <2>1 DEF Emitting, Popping, Handled
    <2>4. Numbers' /\ Holder' /\ Enough'
      BY <2>1, <2>3 DEF BridgeInv, Numbers, Holder, Enough
    <2>5. Progress'
      BY <2>1, <2>3 DEF BridgeInv, Progress
    <2> QED BY <2>2, <2>4, <2>5 DEF BridgeInv
  <1> QED BY <1>1, <1>2, <1>3, Moves

(* The timer runs on its own but for the flag that its slot may set; while  *)
(* it emits, its thread is somewhere in the bridge.                         *)
LEMMA TimerInvariant ==
  ASSUME TimerInv, BridgeInv, [Next]_vars
  PROVE  TimerInv'
  <1> USE DEF TimerInv, Timer!TypeOK, Timer!Looping
  <1>0. /\ at \in [Threads -> {"idle", "push", "functor", "test", "lock", "call", "done"}]
        /\ TimerThread \in Threads /\ TimerThread \notin Pumps /\ MaxStarts \in Nat
    BY BridgeAssumption DEF BridgeInv, Bridge!TypeOK, Bridge!Inside, Threads
  <1>1. CASE TimerStep
    <2>1. at' = at
      BY <1>1 DEF TimerStep, bridgeVars
    <2>2. CASE Timer!StartTimer \/ Timer!SetArgs \/ Timer!JoinFormer \/ Timer!Spawn
      <3>1. CASE Timer!StartTimer
        <4>1. starts + 1 \in 0..MaxStarts
          BY <1>0, <3>1 DEF Timer!StartTimer
        <4>2. ~on /\ on' = TRUE /\ owner' = "args" /\ starts' = starts + 1 /\ UNCHANGED <<cancelled, thread>>
          BY <3>1 DEF Timer!StartTimer
        <4> QED BY <2>1, <4>1, <4>2
      <3>2. CASE Timer!SetArgs
        BY <2>1, <3>2 DEF Timer!SetArgs
      <3>3. CASE Timer!JoinFormer
        BY <2>1, <3>3 DEF Timer!JoinFormer
      <3>4. CASE Timer!Spawn
        BY <2>1, <3>4 DEF Timer!Spawn
      <3> QED BY <2>2, <3>1, <3>2, <3>3, <3>4
    <2>3. CASE Timer!Stopped \/ \E then \in {"stop", "destroy"} : Timer!StopTimer(then)
      BY <2>1, <2>3 DEF Timer!Stopped, Timer!StopTimer, Timer!Joinable
    <2>4. CASE Timer!Awake \/ Timer!Leave \/ Timer!Return
      BY <2>1, <2>4 DEF Timer!Awake, Timer!Leave, Timer!Return
    <2>5. CASE at[TimerThread] = "idle" /\ Timer!Emitted
      BY <2>1, <2>5 DEF Timer!Emitted
    <2> QED BY <1>1, <2>2, <2>3, <2>4, <2>5 DEF TimerStep
  <1>2. CASE TimerEmits
    BY <1>2 DEF TimerEmits, timerVars
  <1>3. CASE BridgeStep
    <2>1. at'[TimerThread] = at[TimerThread]
      <3>1. CASE \E b \in BOOLEAN : Bridge!SetBridgeEnabled(b) \/ Bridge!SetEnabled(b)
        BY <3>1 DEF Bridge!SetBridgeEnabled, Bridge!SetEnabled
      <3>2. ASSUME NEW t \in Pumps, Bridge!Step(t) PROVE at'[TimerThread] = at[TimerThread]
        <4>1. at' = at \/ \E place : at' = [at EXCEPT ![t] = place]
          BY <3>2 DEF Bridge!Step, Bridge!Emit, Bridge!EmitDirectly, Bridge!Push, Bridge!AskFunctor,
                 Bridge!Test, Bridge!Lock, Bridge!Call, Bridge!Finish, Bridge!SlotThrows,
                 Bridge!Invoke, Bridge!Goto
        <4> QED BY <1>0, <4>1
      <3> QED BY <1>3, <3>1, <3>2 DEF BridgeStep
    <2> QED BY <1>3, <2>1 DEF BridgeStep, timerVars
  <1>4. CASE SlotDisablesTimer
    BY <1>4 DEF SlotDisablesTimer, Timer!DisableFromSlot, bridgeVars
  <1>5. CASE UNCHANGED vars
    BY <1>5 DEF vars, bridgeVars, timerVars
  <1> QED BY <1>1, <1>2, <1>3, <1>4, <1>5 DEF Next

LEMMA Initially == Init => IInv
  <1> SUFFICES ASSUME Init PROVE IInv
    OBVIOUS
  <1> USE BridgeAssumption DEF Init, Bridge!Init, Timer!Init
  <1>1. Len(<<>>) = 0 /\ <<>> \in Seq(1..MaxEmits) /\ Bridge!ToSet(<<>>) = {} /\ 1..0 = {}
    BY DEF Bridge!ToSet
  <1>2. Bridge!TypeOK /\ Bridge!LockProtectsQueue
    <2>1. 0 \in 0..MaxEmits /\ 1 \in 1..(MaxEmits + 1)
      OBVIOUS
    <2>2. /\ at = [t \in Threads |-> "idle"] /\ doing = [t \in Threads |-> "next"]
          /\ None \notin Threads
      BY DEF Threads
    <2>3. Bridge!LockProtectsQueue
      BY <2>2 DEF Bridge!LockProtectsQueue, Bridge!Inside, Threads
    <2>4. /\ at \in [Threads -> {"idle", "push", "functor", "test", "lock"} \cup Bridge!Inside]
          /\ doing \in [Threads -> Bridge!Operations]
      BY <2>2 DEF Bridge!Operations
    <2> QED BY <1>1, <2>1, <2>3, <2>4 DEF Bridge!TypeOK, Threads
  <1>3. Bridge!Accounted /\ Bridge!DeliveredOnce
    BY <1>1 DEF Bridge!Accounted, Bridge!DeliveredOnce, Bridge!IsInjective
  <1>4. Numbers
    <2>1. Emitting = {}
      BY DEF Emitting, Threads
    <2>2. Cardinality(Emitting) = 0
      BY <2>1, FS_EmptySet
    <2> QED BY <1>1, <2>2 DEF Numbers, Bridge!IsInjective
  <1>5. Holder /\ Progress /\ Enough
    BY <1>1, Counts DEF Holder, Progress, Enough
  <1>6. TimerInv
    <2>1. at[TimerThread] = "idle" /\ 0 \in 0..MaxStarts
      OBVIOUS
    <2> QED BY <2>1 DEF TimerInv, Timer!TypeOK, Timer!Looping
  <1> QED BY <1>2, <1>3, <1>4, <1>5, <1>6 DEF IInv, BridgeInv
-----------------------------------------------------------------------------
(* What the results below rest on is preserved by every step of either     *)
(* part.                                                                   *)
THEOREM Invariance == Spec => []IInv
  <1>1. IInv /\ [Next]_vars => IInv'
    BY BridgeInvariant, TimerInvariant DEF IInv
  <1> QED BY <1>1, Initially, PTL DEF Spec

(* Every variable has its type, and the timer's thread is in the bridge     *)
(* only while its slots run.                                                *)
THEOREM BridgeTypeOK == Spec => []TypeOK
  <1>1. IInv => TypeOK
    BY DEF IInv, BridgeInv, TimerInv, TypeOK
  <1> QED BY <1>1, Invariance, PTL

(* An emission is delivered once, dropped on purpose or waiting; when there *)
(* is no functor to promise a pump, it does not wait for ever unattended.   *)
THEOREM BridgeLosesNothing == Spec => []BridgeKeepsPromise
  <1>1. ASSUME IInv PROVE BridgeKeepsPromise
    <2>1. Bridge!LockProtectsQueue /\ Bridge!Accounted /\ Bridge!DeliveredOnce
      BY <1>1 DEF IInv, BridgeInv
    <2>2. ASSUME ~functor, ~threw, \A t \in Threads : at[t] = "idle" PROVE queue = <<>>
      <3>1. Popping = {}
        BY <2>2 DEF Popping
      <3>2. Cardinality(Popping) = 0
        BY <3>1, FS_EmptySet
      <3>3. Len(queue) <= 0 /\ Len(queue) \in Nat /\ queue \in Seq(1..MaxEmits)
        BY <1>1, <2>2, <3>2, Room DEF IInv, BridgeInv, Enough, Bridge!TypeOK
      <3> QED BY <3>3, EmptySeq
    <2>3. Bridge!NothingLeftBehind
      BY <2>2 DEF Bridge!NothingLeftBehind, Threads
    <2> QED BY <2>1, <2>3 DEF BridgeKeepsPromise, Bridge!BridgeKeepsPromise
  <1> QED BY <1>1, Invariance, PTL

(* start_timer() writes the arguments without a lock, and the thread that   *)
(* read them has left the loop by then.                                     *)
THEOREM ArgumentsUnshared == Spec => []ArgsUnshared
  <1>1. IInv => ArgsUnshared
    BY DEF IInv, TimerInv, ArgsUnshared, Timer!ArgsUnshared, Timer!Looping
  <1> QED BY <1>1, Invariance, PTL

(* Each part does in the composition only what its own specification lets   *)
(* it do: what is shown of the bridge or of the timer alone holds here.     *)
THEOREM PartsKeepTheirSpecifications == Spec => Bridge!Spec /\ Timer!Spec
  <1>1. Init => Bridge!Init /\ Timer!Init
    BY DEF Init
  <1>2. [Next]_vars => [Bridge!Next]_(Bridge!bridgeVars)
    <2> SUFFICES ASSUME [Next]_vars PROVE Bridge!Next \/ UNCHANGED Bridge!bridgeVars
      OBVIOUS
    <2>1. CASE UNCHANGED bridgeVars
      BY <2>1 DEF bridgeVars, Bridge!bridgeVars
    <2>2. CASE \E t \in Threads : Bridge!Step(t)
      BY <2>2 DEF Bridge!Next, Threads
    <2>3. CASE \E b \in BOOLEAN : Bridge!SetBridgeEnabled(b) \/ Bridge!SetEnabled(b)
      BY <2>3 DEF Bridge!Next
    <2> QED BY <2>1, <2>2, <2>3, Moves
  <1>3. [Next]_vars => [Timer!Next]_(Timer!timerVars)
    <2> SUFFICES ASSUME [Next]_vars PROVE Timer!Next \/ UNCHANGED Timer!timerVars
      OBVIOUS
    <2>1. CASE UNCHANGED timerVars
      BY <2>1 DEF timerVars, Timer!timerVars
    <2>2. CASE TimerStep
      BY <2>2 DEF TimerStep, Timer!Next
    <2>3. CASE SlotDisablesTimer
      BY <2>3 DEF SlotDisablesTimer, Timer!Next
    <2> QED BY <2>1, <2>2, <2>3 DEF Next, TimerEmits, BridgeStep, vars
  <1> QED BY <1>1, <1>2, <1>3, PTL DEF Spec, Bridge!Spec, Timer!Spec
-----------------------------------------------------------------------------
(***************************************************************************)
(* The end of the timer, and of each of its runs.                          *)
(***************************************************************************)
Stopping == owner \in {"stop", "destroy", "dead"}

(* What stop_timer() sets stays set until the timer is started again, and   *)
(* a timer that is gone has no thread.                                      *)
StopIsKept == /\ Stopping => cancelled
              /\ owner = "dead" => thread = "none"

LEMMA StopIsKeptAlways == Spec => []StopIsKept
  <1>1. Init => StopIsKept
    BY DEF Init, Timer!Init, StopIsKept, Stopping
  <1>2. StopIsKept /\ [Next]_vars => StopIsKept'
    <2> SUFFICES ASSUME StopIsKept, [Next]_vars PROVE StopIsKept'
      OBVIOUS
    <2> USE DEF StopIsKept, Stopping
    <2>1. CASE UNCHANGED timerVars
      BY <2>1 DEF timerVars
    <2>2. CASE TimerStep
      BY <2>2 DEF TimerStep, Timer!StartTimer, Timer!SetArgs, Timer!JoinFormer, Timer!Spawn,
                  Timer!StopTimer, Timer!Stopped, Timer!Awake, Timer!Leave, Timer!Return,
                  Timer!Emitted
    <2>3. CASE SlotDisablesTimer
      BY <2>3 DEF SlotDisablesTimer, Timer!DisableFromSlot
    <2> QED BY <2>1, <2>2, <2>3 DEF Next, TimerEmits, BridgeStep, vars
  <1> QED BY <1>1, <1>2, PTL DEF Spec

(* From the call of stop_timer() on, and of the destructor, no emission of  *)
(* the timer begins: at most the one that its slots are in comes to its     *)
(* end, however many there are threads that emit and pump the bridge.       *)
THEOREM TimerEmitsNoMore ==
    Spec => [][Stopping /\ thread' = "emit" => thread = "emit"]_vars
  <1>1. StopIsKept /\ [Next]_vars => [Stopping /\ thread' = "emit" => thread = "emit"]_vars
    <2> SUFFICES ASSUME StopIsKept, Next, Stopping, thread' = "emit" PROVE thread = "emit"
      OBVIOUS
    <2> USE DEF StopIsKept, Stopping
    <2>1. CASE UNCHANGED timerVars
      BY <2>1 DEF timerVars
    <2>2. CASE TimerStep
      BY <2>2 DEF TimerStep, Timer!StartTimer, Timer!SetArgs, Timer!JoinFormer, Timer!Spawn,
                  Timer!StopTimer, Timer!Stopped, Timer!Awake, Timer!Leave, Timer!Return,
                  Timer!Emitted
    <2>3. CASE SlotDisablesTimer
      BY <2>3 DEF SlotDisablesTimer, Timer!DisableFromSlot
    <2> QED BY <2>1, <2>2, <2>3 DEF Next, TimerEmits, BridgeStep
  <1> QED BY <1>1, StopIsKeptAlways, PTL DEF Spec

(* Who stops the timer joins a thread that will find the stop, and that     *)
(* waits, if at all, for the lock of a bridge whose owner is another thread *)
(* in the middle of its work; of a timer that is gone there is no thread.   *)
StopCanEnd ==
  /\ owner \in {"stop", "destroy"} =>
       /\ cancelled
       /\ at[TimerThread] \in {"push", "lock"} /\ queueLock # None =>
            queueLock \in Pumps /\ at[queueLock] \in Bridge!Inside
  /\ owner = "dead" => thread = "none" /\ at[TimerThread] = "idle"

(* The part of TimerStops that needs no fairness.                           *)
THEOREM EveryStopCanEnd == Spec => []StopCanEnd
  <1>1. IInv /\ StopIsKept => StopCanEnd
    <2> SUFFICES ASSUME IInv, StopIsKept PROVE StopCanEnd
      OBVIOUS
    <2>1. /\ queueLock \in Pumps \cup {TimerThread, None}
          /\ \A t \in Threads : at[t] \in Bridge!Inside <=> queueLock = t
      BY DEF IInv, BridgeInv, Bridge!TypeOK, Bridge!LockProtectsQueue, Threads
    <2>2. TimerThread \in Threads /\ Pumps \subseteq Threads
      BY DEF Threads
    <2>3. "push" \notin Bridge!Inside /\ "lock" \notin Bridge!Inside
      BY DEF Bridge!Inside
    <2>4. at[TimerThread] # "idle" => thread = "emit"
      BY DEF IInv, TimerInv
    <2> QED BY <2>1, <2>2, <2>3, <2>4 DEF StopIsKept, Stopping, StopCanEnd
  <1> QED BY <1>1, StopIsKeptAlways, Invariance, PTL
=============================================================================

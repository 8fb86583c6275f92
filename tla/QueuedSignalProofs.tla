-------------------------- MODULE QueuedSignalProofs --------------------------
(***************************************************************************)
(* For any number of threads, signals and emissions: no entry of the       *)
(* shared queue points at a signal that was to deliver it and is gone, a   *)
(* destructor leaves nothing undelivered, and each of the signals that     *)
(* share the dispatcher implements AsyncDelivery for itself.               *)
(*                                                                         *)
(* The invariant has three parts: who owns the two locks, who is inside    *)
(* which signal, and what the queue holds for each signal that is alive.   *)
(***************************************************************************)
EXTENDS QueuedSignal, TLAPS, SequenceTheorems

(* A thread inside a function of a signal is alone there, and keeps it      *)
(* alive.                                                                   *)
Visits == /\ \A t \in Threads : this[t] = None <=> pc[t] = "idle"
          /\ \A t \in Threads : this[t] # None => this[t] \in alive
          /\ \A t, u \in Threads : this[t] = this[u] /\ this[t] # None => t = u

Hand == TypeOK /\ LockOwner /\ Visits

(* How many emissions of s have left the queue; the one in delivery has not. *)
Gone(s) == IF disp = "call" /\ queue[1].sig = s THEN Len(got[s]) - 1 ELSE Len(got[s])

InDelivery == disp = "call" => queue # <<>>

(* The entries of one signal are in the order of their emissions.           *)
Ordered == \A i, j \in 1..Len(queue) :
             i < j /\ queue[i].sig = queue[j].sig => queue[i].n < queue[j].n

(* The queue holds, of each signal that is alive, what has not left it.     *)
Pending(s) ==
  /\ Gone(s) \in Nat /\ Gone(s) <= sent[s]
  /\ \A i \in 1..Len(queue) :
       queue[i].sig = s => Gone(s) < queue[i].n /\ queue[i].n <= sent[s]
  /\ \A k \in 1..sent[s] :
       Gone(s) < k => \E i \in 1..Len(queue) : queue[i].sig = s /\ queue[i].n = k

Counts(s) == \A k \in 1..Len(got[s]) : got[s][k] = k

Flow == /\ InDelivery /\ Ordered
        /\ \A s \in alive : Pending(s)
        /\ \A s \in Signals : Counts(s)

IInv == Hand /\ Flow /\ NoDanglingSignal /\ DestroyDeliversAll

Record == [sig : Signals, n : 1..MaxEmits]
-----------------------------------------------------------------------------
LEMMA AppendFacts ==
  ASSUME NEW S, NEW q \in Seq(S), NEW x \in S
  PROVE  /\ Append(q, x) \in Seq(S) /\ Len(Append(q, x)) = Len(q) + 1
         /\ \A i \in 1..Len(q) : Append(q, x)[i] = q[i]
         /\ Append(q, x)[Len(q) + 1] = x
  OBVIOUS

(* What is left of a queue without its entry i.                             *)
LEMMA WithoutFacts ==
  ASSUME queue \in Seq(Record), NEW i \in 1..Len(queue)
  PROVE  /\ Without(i) \in Seq(Record) /\ Len(Without(i)) = Len(queue) - 1
         /\ \A j \in 1..(Len(queue) - 1) :
              Without(i)[j] = queue[IF j < i THEN j ELSE j + 1]
  <1>1. Len(queue) \in Nat /\ i \in Int /\ Len(queue) - 1 \in Nat
    BY LenProperties
  <1>2. \A j \in 1..(Len(queue) - 1) : (IF j < i THEN j ELSE j + 1) \in 1..Len(queue)
    BY <1>1
  <1>3. \A j \in 1..Len(queue) : queue[j] \in Record
    BY ElementOfSeq
  <1>4. Without(i) \in [1..(Len(queue) - 1) -> Record]
    BY <1>2, <1>3 DEF Without
  <1>5. Without(i) \in Seq(Record) /\ Len(Without(i)) = Len(queue) - 1
    BY <1>1, <1>4, SeqDef, LenProperties
  <1> QED BY <1>5 DEF Without

(* Tail is the case of the first entry.                                     *)
LEMMA TailFacts ==
  ASSUME queue \in Seq(Record), queue # <<>>
  PROVE  /\ 1 \in 1..Len(queue) /\ Tail(queue) \in Seq(Record)
         /\ Len(Tail(queue)) = Len(queue) - 1
         /\ \A j \in 1..(Len(queue) - 1) : Tail(queue)[j] = queue[j + 1]
  <1>1. Len(queue) \in Nat \ {0}
    BY EmptySeq, LenProperties
  <1> QED BY <1>1, HeadTailProperties

(* The first entry of a signal is the emission that is next to go.          *)
LEMMA FirstIsNext ==
  ASSUME TypeOK, Ordered, NEW s \in alive, Pending(s),
         NEW i \in 1..Len(queue), queue[i].sig = s,
         \A j \in 1..Len(queue) : queue[j].sig = s => i <= j
  PROVE  queue[i].n = Gone(s) + 1 /\ Gone(s) < sent[s]
  <1>1. /\ queue \in Seq(Record) /\ Len(queue) \in Nat /\ sent[s] \in Nat
        /\ \A j \in 1..Len(queue) : queue[j].n \in Int
    <2>1. queue \in Seq(Record) /\ s \in Signals /\ sent \in [Signals -> 0..MaxEmits]
      BY DEF TypeOK, Record
    <2>2. \A j \in 1..Len(queue) : queue[j] \in Record
      BY <2>1, ElementOfSeq
    <2>3. Len(queue) \in Nat
      BY <2>1, LenProperties
    <2> QED BY <2>1, <2>2, <2>3, QueuedAssumption DEF QueuedAssumption, Record
  <1>2. Gone(s) \in Nat /\ Gone(s) < queue[i].n /\ queue[i].n <= sent[s]
    BY DEF Pending
  <1>3. Gone(s) + 1 \in 1..sent[s] /\ Gone(s) < Gone(s) + 1
    BY <1>1, <1>2
  <1>4. PICK j \in 1..Len(queue) : queue[j].sig = s /\ queue[j].n = Gone(s) + 1
    BY <1>3 DEF Pending
  <1>5. CASE i = j
    BY <1>1, <1>2, <1>4, <1>5
  <1>6. CASE i # j
    <2>1. i < j
      BY <1>1, <1>4, <1>6
    <2>2. queue[i].n < Gone(s) + 1
      BY <1>4, <2>1 DEF Ordered
    <2> QED BY <1>1, <1>2, <2>2
  <1> QED BY <1>5, <1>6
-----------------------------------------------------------------------------
LEMMA TypeNext == Hand /\ Flow /\ [Next]_vars => TypeOK'
  <1> SUFFICES ASSUME Hand, Flow, [Next]_vars PROVE TypeOK'
    OBVIOUS
  <1> USE QueuedAssumption DEF QueuedAssumption, TypeOK, Hand, Working
  <1>1. /\ queue \in Seq(Record) /\ Len(queue) \in Nat
        /\ \A i \in 1..Len(queue) : queue[i] \in Record
    BY LenProperties, ElementOfSeq DEF Record
  <1>2. ASSUME NEW t \in Threads, NEW s \in Signals, Emit(t, s) PROVE TypeOK'
    <2>1. sent[s] + 1 \in 1..MaxEmits
      BY <1>2 DEF Emit
    <2>2. queue' \in Seq(Record)
      <3>1. Entry(s, sent[s] + 1) \in Record
        BY <2>1 DEF Entry, Record
      <3> QED BY <1>1, <1>2, <3>1, AppendFacts DEF Emit, Pushed
    <2>3. sent' \in [Signals -> 0..MaxEmits]
      BY <1>2, <2>1 DEF Emit
    <2>4. emitLock' \in Threads \cup {None, "dispatcher"} /\ running' \in BOOLEAN
      BY <1>2 DEF Emit
    <2>5. /\ pc' \in [Threads -> {"idle", "join", "destroy", "drain"}]
          /\ this' \in [Threads -> Signals \cup {None}]
      BY <1>2 DEF Emit
    <2> QED BY <1>2, <2>2, <2>3, <2>4, <2>5 DEF Emit, Record
  <1>3. ASSUME NEW t \in Threads, Started(t) PROVE TypeOK'
    BY <1>3 DEF Started, Leave
  <1>4. ASSUME NEW b \in BOOLEAN, SetDispatchAll(b) PROVE TypeOK'
    BY <1>4 DEF SetDispatchAll
  <1>5. CASE Take
    <2>1. got' \in [Signals -> Seq(1..MaxEmits)]
      <3>1. CASE queue # <<>> /\ Head(queue).sig \in alive
        <4>1. Head(queue) \in Record
          BY <1>1, <3>1, HeadTailProperties
        <4>2. /\ Head(queue).sig \in Signals /\ Head(queue).n \in 1..MaxEmits
              /\ got[Head(queue).sig] \in Seq(1..MaxEmits)
          BY <4>1 DEF Record
        <4>3. Append(got[Head(queue).sig], Head(queue).n) \in Seq(1..MaxEmits)
          BY <4>2, AppendFacts
        <4> QED BY <1>5, <3>1, <4>2, <4>3 DEF Take
      <3> QED BY <1>5, <3>1 DEF Take
    <2> QED BY <1>5, <2>1 DEF Take
  <1>6. CASE Pop
    <2>1. queue' \in Seq(Record)
      BY <1>1, <1>6, TailFacts DEF Pop, Flow, InDelivery
    <2> QED BY <1>6, <2>1 DEF Pop, Record
  <1>7. CASE Announce \/ Return
    BY <1>7 DEF Announce, Return
  <1>8. ASSUME NEW t \in Threads, NEW s \in Signals, Destroy(t, s) PROVE TypeOK'
    BY <1>8 DEF Destroy
  <1>9. ASSUME NEW t \in Threads, DestroyLock(t) PROVE TypeOK'
    BY <1>9 DEF DestroyLock
  <1>10. ASSUME NEW t \in Threads, Drain(t) PROVE TypeOK'
    <2>1. PICK i \in Own(this[t]) :
            /\ got' = [got EXCEPT ![this[t]] = Append(@, queue[i].n)]
            /\ queue' = Without(i)
      BY <1>10 DEF Drain
    <2>2. i \in 1..Len(queue) /\ queue[i] \in Record /\ queue[i].sig = this[t]
      BY <1>1, <2>1, LenProperties DEF Own
    <2>3. queue' \in Seq(Record)
      BY <1>1, <2>1, <2>2, WithoutFacts
    <2>4. this[t] \in Signals /\ queue[i].n \in 1..MaxEmits
      BY <2>2 DEF Record
    <2>5. Append(got[this[t]], queue[i].n) \in Seq(1..MaxEmits)
      BY <2>4, AppendFacts
    <2>6. got' \in [Signals -> Seq(1..MaxEmits)]
      BY <2>1, <2>4, <2>5
    <2> QED BY <1>10, <2>3, <2>6 DEF Drain, Record
  <1>11. ASSUME NEW t \in Threads, Destroyed(t) PROVE TypeOK'
    BY <1>11 DEF Destroyed, Leave
  <1>12. CASE UNCHANGED vars
    BY <1>12 DEF vars
  <1> QED BY <1>2, <1>3, <1>4, <1>5, <1>6, <1>7, <1>8, <1>9, <1>10, <1>11, <1>12 DEF Next

(* The locks, and who is inside.                                            *)
LEMMA HandNext == Hand /\ Flow /\ [Next]_vars => Hand'
  <1> SUFFICES ASSUME Hand, Flow, [Next]_vars PROVE Hand'
    OBVIOUS
  <1>0. TypeOK'
    BY TypeNext
  <1> SUFFICES LockOwner' /\ Visits'
    BY <1>0 DEF Hand
  <1>1. /\ pc \in [Threads -> {"idle", "join", "destroy", "drain"}]
        /\ this \in [Threads -> Signals \cup {None}]
        /\ alive \subseteq Signals
        /\ LockOwner /\ Visits
    BY DEF Hand, TypeOK
  <1> USE <1>1, QueuedAssumption DEF QueuedAssumption, LockOwner, Visits
  <1>2. ASSUME NEW t \in Threads, NEW s \in Signals, Emit(t, s) PROVE LockOwner' /\ Visits'
    <2>1. CASE running
      BY <1>2, <2>1 DEF Emit
    <2>2. CASE ~running
      <3>1. /\ \A u \in Threads : pc'[u] = IF u = t THEN "join" ELSE pc[u]
            /\ \A u \in Threads : this'[u] = IF u = t THEN s ELSE this[u]
            /\ emitLock = None /\ emitLock' = t /\ UNCHANGED <<destructLock, disp, alive>>
            /\ pc[t] = "idle" /\ s \in alive /\ \A u \in Threads : this[u] # s
        BY <1>2, <2>2 DEF Emit, Enter
      <3>2. LockOwner'
        BY <3>1
      <3>3. Visits'
        BY <3>1
      <3> QED BY <3>2, <3>3
    <2> QED BY <2>1, <2>2
  <1>3. ASSUME NEW t \in Threads, Started(t) PROVE LockOwner' /\ Visits'
    <2>1. /\ \A u \in Threads : pc'[u] = IF u = t THEN "idle" ELSE pc[u]
          /\ \A u \in Threads : this'[u] = IF u = t THEN None ELSE this[u]
          /\ pc[t] = "join" /\ emitLock' = None /\ UNCHANGED <<destructLock, alive>>
          /\ disp \notin {"call", "crashed"} /\ disp' = "lock"
      BY <1>3 DEF Started, Leave
    <2>2. LockOwner'
      BY <2>1
    <2>3. Visits'
      BY <2>1
    <2> QED BY <2>2, <2>3
  <1>4. ASSUME NEW b \in BOOLEAN, SetDispatchAll(b) PROVE LockOwner' /\ Visits'
    BY <1>4 DEF SetDispatchAll
  <1>5. CASE Take
    BY <1>5 DEF Take
  <1>6. CASE Pop \/ Announce \/ Return
    BY <1>6 DEF Pop, Announce, Return
  <1>7. ASSUME NEW t \in Threads, NEW s \in Signals, Destroy(t, s) PROVE LockOwner' /\ Visits'
    <2>1. /\ pc[t] = "idle" /\ s \in alive /\ \A u \in Threads : this[u] # s
          /\ UNCHANGED <<emitLock, disp>>
      BY <1>7 DEF Destroy, Enter
    <2>2. CASE dispatchAll
      <3>1. /\ \A u \in Threads : pc'[u] = IF u = t THEN "destroy" ELSE pc[u]
            /\ \A u \in Threads : this'[u] = IF u = t THEN s ELSE this[u]
            /\ destructLock = None /\ destructLock' = t /\ UNCHANGED alive
        BY <1>7, <2>2 DEF Destroy
      <3>2. LockOwner'
        BY <2>1, <3>1
      <3>3. Visits'
        BY <2>1, <3>1
      <3> QED BY <3>2, <3>3
    <2>3. CASE ~dispatchAll
      <3>1. UNCHANGED <<pc, this, destructLock>> /\ alive' = alive \ {s}
        BY <1>7, <2>3 DEF Destroy
      <3> QED BY <2>1, <3>1
    <2> QED BY <2>2, <2>3
  <1>8. ASSUME NEW t \in Threads, DestroyLock(t) PROVE LockOwner' /\ Visits'
    <2>1. /\ \A u \in Threads : pc'[u] = IF u = t THEN "drain" ELSE pc[u]
          /\ pc[t] = "destroy" /\ emitLock = None /\ emitLock' = t
          /\ UNCHANGED <<this, destructLock, disp, alive>>
      BY <1>8 DEF DestroyLock
    <2>2. LockOwner'
      BY <2>1
    <2>3. Visits'
      BY <2>1
    <2> QED BY <2>2, <2>3
  <1>9. ASSUME NEW t \in Threads, Drain(t) PROVE LockOwner' /\ Visits'
    BY <1>9 DEF Drain
  <1>10. ASSUME NEW t \in Threads, Destroyed(t) PROVE LockOwner' /\ Visits'
    <2>1. /\ \A u \in Threads : pc'[u] = IF u = t THEN "idle" ELSE pc[u]
          /\ \A u \in Threads : this'[u] = IF u = t THEN None ELSE this[u]
          /\ pc[t] = "drain" /\ emitLock' = None /\ destructLock' = None
          /\ alive' = alive \ {this[t]} /\ UNCHANGED disp
      BY <1>10 DEF Destroyed, Leave
    <2>2. LockOwner'
      BY <2>1
    <2>3. Visits'
      BY <2>1
    <2> QED BY <2>2, <2>3
  <1>11. CASE UNCHANGED vars
    BY <1>11 DEF vars
  <1> QED BY <1>2, <1>3, <1>4, <1>5, <1>6, <1>7, <1>8, <1>9, <1>10, <1>11 DEF Next
-----------------------------------------------------------------------------
(* Facts about the queue that the proofs of the steps start from.           *)
LEMMA Facts ==
  ASSUME TypeOK
  PROVE  /\ queue \in Seq(Record) /\ Len(queue) \in Nat
         /\ \A i \in 1..Len(queue) : queue[i] \in Record /\ queue[i].n \in Int
         /\ \A s \in Signals : /\ sent[s] \in Nat /\ Len(got[s]) \in Nat
                               /\ got[s] \in Seq(1..MaxEmits)
  <1>1. queue \in Seq(Record) /\ sent \in [Signals -> 0..MaxEmits]
        /\ got \in [Signals -> Seq(1..MaxEmits)]
    BY DEF TypeOK, Record
  <1>2. \A i \in 1..Len(queue) : queue[i] \in Record
    BY <1>1, ElementOfSeq
  <1>3. Len(queue) \in Nat /\ \A s \in Signals : Len(got[s]) \in Nat
    BY <1>1, LenProperties
  <1> QED BY <1>1, <1>2, <1>3, QueuedAssumption DEF QueuedAssumption, Record

(* An emission goes to the end of the queue.                                *)
LEMMA EmitKeeps ==
  ASSUME TypeOK, TypeOK', InDelivery, Ordered, \A s \in alive : Pending(s),
         NEW t \in Threads, NEW s \in alive, Emit(t, s)
  PROVE  InDelivery' /\ Ordered' /\ \A r \in alive : Pending(r)'
  <1> DEFINE last == Len(queue) + 1
  <1>1. /\ alive \subseteq Signals /\ s \in Signals
        /\ UNCHANGED <<disp, got, alive>>
        /\ queue' = Append(queue, Entry(s, sent[s] + 1))
        /\ \A r \in Signals : sent'[r] = IF r = s THEN sent[s] + 1 ELSE sent[r]
    BY DEF Emit, Pushed, TypeOK
  <1>2. Entry(s, sent[s] + 1) \in Record /\ queue \in Seq(Record)
    <2>1. sent[s] \in Nat /\ sent[s] < MaxEmits
      BY <1>1, Facts DEF Emit
    <2> QED BY <1>1, <2>1, Facts, QueuedAssumption DEF Entry, Record, QueuedAssumption
  <1>3. /\ Len(queue') = last /\ Len(queue) \in Nat
        /\ \A i \in 1..Len(queue) : queue'[i] = queue[i]
        /\ queue'[last].sig = s /\ queue'[last].n = sent[s] + 1
    BY <1>1, <1>2, AppendFacts, Facts DEF Entry
  <1>4. InDelivery'
    BY <1>3, EmptySeq DEF InDelivery
  <1>5. \A i \in 1..Len(queue) : queue[i].n \in Int /\ (queue[i].sig = s => queue[i].n <= sent[s])
    BY Facts DEF Pending
  <1>6. Ordered'
    <2> SUFFICES ASSUME NEW i \in 1..Len(queue'), NEW j \in 1..Len(queue'),
                        i < j, queue'[i].sig = queue'[j].sig
                 PROVE  queue'[i].n < queue'[j].n
      BY DEF Ordered
    <2>1. i \in 1..Len(queue)
      BY <1>3
    <2>2. CASE j = last
      BY <1>1, <1>3, <1>5, <2>1, <2>2, Facts
    <2>3. CASE j # last
      BY <1>3, <2>1, <2>3 DEF Ordered
    <2> QED BY <2>2, <2>3
  <1>7. ASSUME NEW r \in alive PROVE Pending(r)'
    <2>1. Gone(r)' = Gone(r)
      <3>1. disp = "call" => queue'[1] = queue[1]
        BY <1>3, Facts, EmptySeq DEF InDelivery
      <3> QED BY <1>1, <3>1 DEF Gone
    <2>2. sent'[r] \in Nat /\ sent[r] \in Nat /\ sent[r] <= sent'[r]
      BY <1>1, Facts
    <2>3. Gone(r) \in Nat /\ Gone(r) <= sent[r]
      BY DEF Pending
    <2>4. ASSUME NEW i \in 1..Len(queue'), queue'[i].sig = r
          PROVE  Gone(r) < queue'[i].n /\ queue'[i].n <= sent'[r]
      <3>1. CASE i = last
        BY <1>1, <1>3, <2>2, <2>3, <2>4, <3>1
      <3>2. CASE i # last
        BY <1>3, <1>5, <2>2, <2>3, <2>4, <3>2 DEF Pending
      <3> QED BY <3>1, <3>2
    <2>5. ASSUME NEW k \in 1..sent'[r], Gone(r) < k
          PROVE  \E i \in 1..Len(queue') : queue'[i].sig = r /\ queue'[i].n = k
      <3>1. CASE k <= sent[r]
        <4>1. PICK i \in 1..Len(queue) : queue[i].sig = r /\ queue[i].n = k
          BY <2>2, <2>5, <3>1 DEF Pending
        <4>2. i \in 1..Len(queue') /\ queue'[i] = queue[i]
          BY <1>3
        <4> QED BY <4>1, <4>2
      <3>2. CASE ~(k <= sent[r])
        <4>1. r = s /\ k = sent[s] + 1
          BY <1>1, <2>2, <3>2
        <4>2. last \in 1..Len(queue')
          BY <1>3
        <4> QED BY <1>3, <4>1, <4>2
      <3> QED BY <3>1, <3>2
    <2> QED BY <2>1, <2>2, <2>3, <2>4, <2>5 DEF Pending
  <1> QED BY <1>4, <1>6, <1>7

(* The first entry of a signal leaves the queue.                            *)
LEMMA RemoveKeeps ==
  ASSUME TypeOK, Ordered, NEW i \in 1..Len(queue),
         \A j \in 1..Len(queue) : queue[j].sig = queue[i].sig => i <= j,
         Len(queue') = Len(queue) - 1,
         \A j \in 1..(Len(queue) - 1) : queue'[j] = queue[IF j < i THEN j ELSE j + 1],
         UNCHANGED sent
  PROVE  /\ Ordered'
         /\ \A s \in alive :
              /\ Pending(s)
              /\ Gone(s)' = IF s = queue[i].sig THEN Gone(s) + 1 ELSE Gone(s)
              => Pending(s)'
  <1> DEFINE Old(j) == IF j < i THEN j ELSE j + 1
  <1>1. Len(queue) \in Nat /\ \A j \in 1..Len(queue) : queue[j].n \in Int
    BY Facts
  <1>2. \A j \in 1..Len(queue') : Old(j) \in 1..Len(queue) /\ Old(j) # i
                                /\ queue'[j] = queue[Old(j)]
    BY <1>1
  <1>3. Ordered'
    <2> SUFFICES ASSUME NEW j \in 1..Len(queue'), NEW k \in 1..Len(queue'),
                        j < k, queue'[j].sig = queue'[k].sig
                 PROVE  queue'[j].n < queue'[k].n
      BY DEF Ordered
    <2>1. Old(j) < Old(k)
      BY <1>1
    <2> HIDE DEF Old
    <2> QED BY <1>2, <2>1 DEF Ordered
  <1>4. \A j \in 1..Len(queue) : j # i => \E k \in 1..Len(queue') : Old(k) = j
    <2> SUFFICES ASSUME NEW j \in 1..Len(queue), j # i
                 PROVE  \E k \in 1..Len(queue') : Old(k) = j
      OBVIOUS
    <2>1. CASE j < i
      BY <1>1, <2>1
    <2>2. CASE j > i
      <3>1. j - 1 \in 1..Len(queue') /\ Old(j - 1) = j
        BY <1>1, <2>2
      <3> QED BY <3>1
    <2> QED BY <1>1, <2>1, <2>2
  <1>5. ASSUME NEW s \in alive, Pending(s),
               Gone(s)' = IF s = queue[i].sig THEN Gone(s) + 1 ELSE Gone(s)
        PROVE  Pending(s)'
    <2> HIDE DEF Old
    <2>1. Gone(s) \in Nat /\ sent[s] \in Nat /\ Gone(s) <= sent[s]
      BY <1>5, Facts DEF Pending, TypeOK
    <2>2. queue[i].sig = s => queue[i].n = Gone(s) + 1 /\ Gone(s) < sent[s]
      BY <1>5, FirstIsNext
    <2>3. Gone(s)' \in Nat /\ Gone(s)' <= sent'[s]
      BY <1>5, <2>1, <2>2
    <2>4. ASSUME NEW j \in 1..Len(queue'), queue'[j].sig = s
          PROVE  Gone(s)' < queue'[j].n /\ queue'[j].n <= sent'[s]
      <3>1. /\ Old(j) \in 1..Len(queue) /\ Old(j) # i /\ queue'[j] = queue[Old(j)]
            /\ queue[Old(j)].n \in Int
        BY <1>1, <1>2
      <3>2. Gone(s) < queue[Old(j)].n /\ queue[Old(j)].n <= sent[s]
        BY <1>5, <2>4, <3>1 DEF Pending
      <3>3. CASE s = queue[i].sig
        <4>1. i < Old(j)
          BY <2>4, <3>1, <3>3
        <4>2. queue[i].n < queue[Old(j)].n
          BY <2>4, <3>1, <3>3, <4>1 DEF Ordered
        <4> QED BY <1>1, <1>5, <2>1, <2>2, <3>1, <3>2, <3>3, <4>2
      <3>4. CASE s # queue[i].sig
        BY <1>5, <3>1, <3>2, <3>4
      <3> QED BY <3>3, <3>4
    <2>5. ASSUME NEW k \in 1..sent'[s], Gone(s)' < k
          PROVE  \E j \in 1..Len(queue') : queue'[j].sig = s /\ queue'[j].n = k
      <3>1. Gone(s) < k /\ k \in 1..sent[s]
        BY <1>5, <2>1, <2>5
      <3>2. PICK j \in 1..Len(queue) : queue[j].sig = s /\ queue[j].n = k
        BY <1>5, <3>1 DEF Pending
      <3>3. j # i
        BY <1>5, <2>1, <2>2, <2>5, <3>2
      <3>4. PICK l \in 1..Len(queue') : Old(l) = j
        BY <1>4, <3>3
      <3> QED BY <1>2, <3>2, <3>4
    <2> QED BY <2>3, <2>4, <2>5 DEF Pending
  <1> QED BY <1>3, <1>5
-----------------------------------------------------------------------------
(* What is delivered next, by whichever thread, is next in the count.       *)
LEMMA DeliverNext ==
  ASSUME TypeOK, Ordered, NEW s \in alive, Pending(s), Counts(s), disp # "call",
         NEW i \in 1..Len(queue), queue[i].sig = s,
         \A j \in 1..Len(queue) : queue[j].sig = s => i <= j,
         got' = [got EXCEPT ![s] = Append(@, queue[i].n)]
  PROVE  /\ queue[i].n = Len(got[s]) + 1 /\ Len(got[s]) < sent[s]
         /\ Len(got'[s]) = Len(got[s]) + 1
         /\ \A r \in Signals : r # s => got'[r] = got[r]
         /\ Counts(s)'
  <1>1. s \in Signals /\ got \in [Signals -> Seq(1..MaxEmits)] /\ Gone(s) = Len(got[s])
    BY DEF TypeOK, Gone
  <1>2. queue[i].n = Len(got[s]) + 1 /\ Len(got[s]) < sent[s]
    BY <1>1, FirstIsNext
  <1>3. got'[s] = Append(got[s], Len(got[s]) + 1)
    BY <1>1, <1>2
  <1>4. /\ Len(got[s]) \in Nat /\ got[s] \in Seq(1..MaxEmits)
        /\ Len(got[s]) + 1 \in 1..MaxEmits
    BY <1>1, <1>2, Facts DEF Record
  <1>5. /\ Len(got'[s]) = Len(got[s]) + 1
        /\ \A k \in 1..Len(got[s]) : got'[s][k] = got[s][k]
        /\ got'[s][Len(got[s]) + 1] = Len(got[s]) + 1
    BY <1>3, <1>4, AppendFacts
  <1>6. Counts(s)'
    <2> SUFFICES ASSUME NEW k \in 1..Len(got'[s]) PROVE got'[s][k] = k
      BY DEF Counts
    <2>1. CASE k = Len(got[s]) + 1
      BY <1>5, <2>1
    <2>2. CASE k # Len(got[s]) + 1
      BY <1>4, <1>5, <2>2 DEF Counts
    <2> QED BY <2>1, <2>2
  <1> QED BY <1>1, <1>2, <1>5, <1>6

(* The head of the queue of a signal that is alive is its first entry.      *)
LEMMA HeadIsFirst ==
  ASSUME TypeOK, queue # <<>>
  PROVE  /\ 1 \in 1..Len(queue) /\ Head(queue) = queue[1] /\ queue[1] \in Record
         /\ \A j \in 1..Len(queue) : 1 <= j
  <1>1. queue \in Seq(Record) /\ Len(queue) \in Nat
    BY Facts
  <1>2. Head(queue) = queue[1] /\ Len(queue) # 0
    BY <1>1, EmptySeq
  <1> QED BY <1>1, <1>2, ElementOfSeq

LEMMA TakeKeeps ==
  ASSUME Hand, Flow, Take PROVE Flow'
  <1> USE DEF Hand
  <1>1. /\ disp # "call" /\ UNCHANGED <<queue, sent, alive>> /\ alive \subseteq Signals
        /\ InDelivery' /\ Ordered'
    BY DEF Take, Flow, Ordered, InDelivery, TypeOK
  <1>2. CASE queue = <<>> \/ Head(queue).sig \notin alive
    <2>1. UNCHANGED got /\ (disp' = "call" => queue # <<>>)
      BY <1>2 DEF Take
    <2>2. ASSUME NEW s \in alive PROVE Gone(s)' = Gone(s)
      BY <1>1, <1>2, <2>1, HeadIsFirst DEF Gone
    <2>3. ASSUME NEW s \in alive PROVE Pending(s)'
      BY <1>1, <2>2, <2>3 DEF Pending, Flow
    <2> QED BY <1>1, <2>1, <2>3 DEF Flow, Counts
  <1>3. CASE queue # <<>> /\ Head(queue).sig \in alive
    <2>0. PICK s \in alive : s = queue[1].sig
      BY <1>3, HeadIsFirst
    <2>1. /\ 1 \in 1..Len(queue) /\ \A j \in 1..Len(queue) : 1 <= j
          /\ disp' = "call"
          /\ got' = [got EXCEPT ![s] = Append(@, queue[1].n)]
      BY <1>3, <2>0, HeadIsFirst DEF Take
    <2>2. /\ Len(got'[s]) = Len(got[s]) + 1 /\ Counts(s)'
          /\ \A r \in Signals : r # s => got'[r] = got[r]
      BY <1>1, <2>0, <2>1, DeliverNext DEF Flow
    <2>3. ASSUME NEW r \in alive PROVE Gone(r)' = Gone(r)
      <3>1. Len(got[s]) \in Nat
        BY <1>1, Facts
      <3> QED BY <1>1, <2>0, <2>1, <2>2, <3>1 DEF Gone
    <2>4. ASSUME NEW r \in alive PROVE Pending(r)'
      BY <1>1, <2>3 DEF Pending, Flow
    <2>5. ASSUME NEW r \in Signals PROVE Counts(r)'
      BY <2>2 DEF Flow, Counts
    <2> QED BY <1>1, <2>4, <2>5 DEF Flow
  <1> QED BY <1>2, <1>3

LEMMA PopKeeps ==
  ASSUME Hand, Flow, Pop PROVE Flow'
  <1>1. /\ TypeOK /\ queue # <<>> /\ disp = "call" /\ disp' # "call"
        /\ queue' = Tail(queue) /\ UNCHANGED <<sent, got, alive>> /\ alive \subseteq Signals
    BY DEF Pop, Hand, Flow, InDelivery, TypeOK
  <1>2. /\ 1 \in 1..Len(queue) /\ Len(queue') = Len(queue) - 1
        /\ \A j \in 1..Len(queue) : 1 <= j
        /\ \A j \in 1..(Len(queue) - 1) : queue'[j] = queue[IF j < 1 THEN j ELSE j + 1]
    BY <1>1, Facts, TailFacts
  <1>3. ASSUME NEW s \in alive
        PROVE  Gone(s)' = IF s = queue[1].sig THEN Gone(s) + 1 ELSE Gone(s)
    BY <1>1, Facts DEF Gone
  <1>4. Ordered' /\ \A s \in alive : Pending(s)'
    BY <1>1, <1>2, <1>3, RemoveKeeps DEF Flow
  <1> QED BY <1>1, <1>4 DEF Flow, Counts, InDelivery

LEMMA DrainKeeps ==
  ASSUME Hand, Flow, NEW t \in Threads, Drain(t)
  PROVE  /\ Flow' /\ this[t] \in alive
         /\ Len(got[this[t]]) < sent[this[t]]
         /\ got' = [got EXCEPT ![this[t]] = Append(@, Len(@) + 1)]
         /\ UNCHANGED <<sent, alive, abandoned>>
  <1>0. PICK s \in alive : s = this[t]
    BY QueuedAssumption DEF Drain, Hand, Visits, TypeOK, QueuedAssumption
  <1>1. /\ TypeOK /\ s = this[t] /\ alive \subseteq Signals
        /\ disp # "call" /\ UNCHANGED <<sent, disp, alive, abandoned>>
    BY <1>0, QueuedAssumption DEF Drain, Hand, LockOwner, TypeOK, QueuedAssumption
  <1>2. PICK i \in Own(s) : /\ \A j \in Own(s) : i <= j
                            /\ got' = [got EXCEPT ![s] = Append(@, queue[i].n)]
                            /\ queue' = Without(i)
    BY <1>0 DEF Drain
  <1>3. /\ i \in 1..Len(queue) /\ queue[i].sig = s
        /\ \A j \in 1..Len(queue) : queue[j].sig = s => i <= j
    <2>1. DOMAIN queue = 1..Len(queue)
      BY <1>1, Facts, LenProperties
    <2> QED BY <1>2, <2>1 DEF Own
  <1>4. /\ Len(queue') = Len(queue) - 1
        /\ \A j \in 1..(Len(queue) - 1) : queue'[j] = queue[IF j < i THEN j ELSE j + 1]
    BY <1>1, <1>2, <1>3, Facts, WithoutFacts
  <1>5. /\ queue[i].n = Len(got[s]) + 1 /\ Len(got[s]) < sent[s]
        /\ Len(got'[s]) = Len(got[s]) + 1 /\ Counts(s)'
        /\ \A r \in Signals : r # s => got'[r] = got[r]
    BY <1>1, <1>2, <1>3, DeliverNext DEF Flow
  <1>6. ASSUME NEW r \in alive
        PROVE  Gone(r)' = IF r = queue[i].sig THEN Gone(r) + 1 ELSE Gone(r)
    BY <1>1, <1>3, <1>5 DEF Gone
  <1>7. Ordered' /\ \A r \in alive : Pending(r)'
    BY <1>1, <1>3, <1>4, <1>6, RemoveKeeps DEF Flow
  <1>8. Flow'
    BY <1>1, <1>5, <1>7 DEF Flow, Counts, InDelivery
  <1> QED BY <1>1, <1>2, <1>5, <1>8

(* What the queue holds, step by step.                                      *)
LEMMA FlowNext == Hand /\ Flow /\ [Next]_vars => Flow'
  <1> SUFFICES ASSUME Hand, Flow, [Next]_vars PROVE Flow'
    OBVIOUS
  <1>0. TypeOK /\ TypeOK'
    BY TypeNext DEF Hand
  (* the queue is left alone, and signals may only cease to be alive *)
  <1>1. ASSUME UNCHANGED <<queue, sent, got>>, alive' \subseteq alive,
               disp' = "call" <=> disp = "call"
        PROVE  Flow'
    <2>1. ASSUME NEW s \in alive' PROVE Pending(s)'
      <3>1. Gone(s)' = Gone(s) /\ s \in alive
        BY <1>1 DEF Gone
      <3> QED BY <1>1, <3>1 DEF Flow, Pending
    <2> QED BY <1>1, <2>1 DEF Flow, InDelivery, Ordered, Counts
  <1>2. ASSUME NEW t \in Threads, NEW s \in Signals, Emit(t, s) PROVE Flow'
    <2>1. s \in alive /\ UNCHANGED <<got, alive>>
      BY <1>2 DEF Emit, Enter
    <2>2. InDelivery' /\ Ordered' /\ \A r \in alive : Pending(r)'
      BY <1>0, <1>2, <2>1, EmitKeeps DEF Flow
    <2> QED BY <2>1, <2>2 DEF Flow, Counts
  <1>3. CASE Take
    BY <1>3, TakeKeeps
  <1>4. CASE Pop
    BY <1>4, PopKeeps
  <1>5. ASSUME NEW t \in Threads, Drain(t) PROVE Flow'
    BY <1>5, DrainKeeps
  <1>6. ASSUME NEW t \in Threads, Started(t) \/ DestroyLock(t) \/ Destroyed(t) PROVE Flow'
    BY <1>1, <1>6 DEF Started, DestroyLock, Destroyed
  <1>7. ASSUME NEW t \in Threads, NEW s \in Signals, Destroy(t, s) PROVE Flow'
    BY <1>1, <1>7 DEF Destroy
  <1>8. CASE (\E b \in BOOLEAN : SetDispatchAll(b)) \/ Announce \/ Return \/ UNCHANGED vars
    BY <1>1, <1>8 DEF SetDispatchAll, Announce, Return, vars
  <1> QED BY <1>2, <1>3, <1>4, <1>5, <1>6, <1>7, <1>8 DEF Next

(* No entry is left behind: only Emit adds one, of a signal that is alive,  *)
(* and a signal ceases to be alive with none in the queue or abandoned.     *)
LEMMA DanglingNext == Hand /\ Flow /\ NoDanglingSignal /\ [Next]_vars => NoDanglingSignal'
  <1> SUFFICES ASSUME Hand, Flow, NoDanglingSignal, [Next]_vars PROVE NoDanglingSignal'
    OBVIOUS
  <1> DEFINE Safe(q, living) == \A i \in 1..Len(q) : q[i].sig \in living
  <1>0. /\ TypeOK /\ queue \in Seq(Record) /\ Len(queue) \in Nat
        /\ NoDanglingSignal <=> Safe(queue, alive \cup abandoned)
    BY Facts, LenProperties DEF Hand, NoDanglingSignal
  <1>1. NoDanglingSignal' <=> Safe(queue', alive' \cup abandoned')
    BY TypeNext, LenProperties DEF NoDanglingSignal, TypeOK
  <1> SUFFICES Safe(queue', alive' \cup abandoned')
    BY <1>1
  <1>2. ASSUME UNCHANGED queue, alive \cup abandoned \subseteq alive' \cup abandoned'
        PROVE  Safe(queue', alive' \cup abandoned')
    BY <1>0, <1>2
  <1>3. ASSUME NEW i \in 1..Len(queue), Len(queue') = Len(queue) - 1,
               \A j \in 1..(Len(queue) - 1) : queue'[j] = queue[IF j < i THEN j ELSE j + 1],
               UNCHANGED <<alive, abandoned>>
        PROVE  Safe(queue', alive' \cup abandoned')
    BY <1>0, <1>3
  <1>4. ASSUME NEW t \in Threads, NEW s \in Signals, Emit(t, s)
        PROVE  Safe(queue', alive' \cup abandoned')
    <2>1. /\ queue' = Append(queue, Entry(s, sent[s] + 1)) /\ s \in alive
          /\ UNCHANGED <<alive, abandoned>> /\ sent[s] < MaxEmits /\ sent[s] \in Nat
      BY <1>0, <1>4, Facts DEF Emit, Enter, Pushed
    <2>2. Entry(s, sent[s] + 1) \in Record
      BY <2>1, QueuedAssumption DEF Entry, Record, QueuedAssumption
    <2>3. /\ Len(queue') = Len(queue) + 1 /\ queue'[Len(queue) + 1].sig = s
          /\ \A i \in 1..Len(queue) : queue'[i] = queue[i]
      BY <1>0, <2>1, <2>2, AppendFacts DEF Entry
    <2> QED BY <1>0, <2>1, <2>3
  <1>5. CASE Pop
    <2>1. queue # <<>>
      BY <1>5 DEF Pop, Flow, InDelivery
    <2> QED BY <1>0, <1>3, <1>5, <2>1, TailFacts DEF Pop
  <1>6. ASSUME NEW t \in Threads, Drain(t) PROVE Safe(queue', alive' \cup abandoned')
    <2>1. PICK i \in Own(this[t]) : queue' = Without(i)
      BY <1>6 DEF Drain
    <2>2. i \in 1..Len(queue)
      BY <1>0, <2>1, LenProperties DEF Own
    <2> QED BY <1>0, <1>3, <1>6, <2>1, <2>2, WithoutFacts DEF Drain
  <1>7. ASSUME NEW t \in Threads, Destroyed(t) PROVE Safe(queue', alive' \cup abandoned')
    <2>1. \A i \in 1..Len(queue) : queue[i].sig # this[t]
      BY <1>0, <1>7, LenProperties DEF Destroyed, Own
    <2> QED BY <1>0, <1>7, <2>1 DEF Destroyed
  <1>8. ASSUME NEW t \in Threads, NEW s \in Signals, Destroy(t, s)
        PROVE  Safe(queue', alive' \cup abandoned')
    BY <1>2, <1>8 DEF Destroy
  <1>9. ASSUME NEW t \in Threads, Started(t) \/ DestroyLock(t)
        PROVE  Safe(queue', alive' \cup abandoned')
    BY <1>2, <1>9 DEF Started, DestroyLock
  <1>10. CASE \/ \E b \in BOOLEAN : SetDispatchAll(b)
              \/ Take \/ Announce \/ Return \/ UNCHANGED vars
    BY <1>2, <1>10 DEF SetDispatchAll, Take, Announce, Return, vars
  <1> QED BY <1>4, <1>5, <1>6, <1>7, <1>8, <1>9, <1>10 DEF Next

(* The accounts of a signal that is gone are closed.                        *)
LEMMA ClosedNext == Hand /\ Flow /\ DestroyDeliversAll /\ [Next]_vars => DestroyDeliversAll'
  <1> SUFFICES ASSUME Hand, Flow, DestroyDeliversAll, [Next]_vars,
                      NEW s \in Signals, s \notin alive', s \notin abandoned'
               PROVE  Len(got'[s]) = sent'[s]
    BY DEF DestroyDeliversAll
  <1>0. TypeOK /\ alive \subseteq Signals
    BY DEF Hand, TypeOK
  <1>1. ASSUME s \notin alive, s \notin abandoned, got'[s] = got[s], sent'[s] = sent[s]
        PROVE  Len(got'[s]) = sent'[s]
    BY <1>1 DEF DestroyDeliversAll
  <1>2. ASSUME NEW t \in Threads, NEW r \in Signals, Emit(t, r) PROVE Len(got'[s]) = sent'[s]
    BY <1>0, <1>1, <1>2 DEF Emit, Enter, TypeOK
  <1>3. CASE Take
    <2>1. s \notin alive /\ s \notin abandoned /\ sent'[s] = sent[s]
      BY <1>3 DEF Take
    <2>2. got'[s] = got[s]
      BY <1>0, <1>3, <2>1 DEF Take, TypeOK
    <2> QED BY <1>1, <2>1, <2>2
  <1>4. ASSUME NEW t \in Threads, Drain(t) PROVE Len(got'[s]) = sent'[s]
    <2>1. /\ this[t] \in alive /\ UNCHANGED <<sent, alive, abandoned>>
          /\ got' = [got EXCEPT ![this[t]] = Append(@, Len(@) + 1)]
      BY <1>4, DrainKeeps
    <2> QED BY <1>0, <1>1, <2>1 DEF TypeOK
  <1>5. ASSUME NEW t \in Threads, Destroyed(t) PROVE Len(got'[s]) = sent'[s]
    <2>1. UNCHANGED <<got, sent, abandoned>> /\ alive' = alive \ {this[t]}
      BY <1>5 DEF Destroyed
    <2>2. CASE s \notin alive
      BY <1>1, <2>1, <2>2
    <2>3. CASE s \in alive
      <3>1. s = this[t] /\ disp # "call"
        BY <1>5, <2>1, <2>3, QueuedAssumption
           DEF Destroyed, Hand, LockOwner, QueuedAssumption
      <3>2. \A i \in 1..Len(queue) : queue[i].sig # s
        BY <1>0, <1>5, <3>1, Facts, LenProperties DEF Destroyed, Own
      <3>3. /\ Gone(s) = Len(got[s]) /\ Gone(s) \in Nat /\ Gone(s) <= sent[s]
            /\ sent[s] \in Nat
            /\ ~ \E k \in 1..sent[s] : Gone(s) < k
        BY <1>0, <2>3, <3>1, <3>2, Facts DEF Flow, Pending, Gone
      <3>4. ~(Gone(s) < sent[s])
        BY <3>3
      <3> QED BY <2>1, <3>3, <3>4
    <2> QED BY <2>2, <2>3
  <1>6. ASSUME NEW t \in Threads, NEW r \in Signals, Destroy(t, r)
        PROVE  Len(got'[s]) = sent'[s]
    BY <1>1, <1>6 DEF Destroy
  <1>7. ASSUME NEW t \in Threads, Started(t) \/ DestroyLock(t) PROVE Len(got'[s]) = sent'[s]
    BY <1>1, <1>7 DEF Started, DestroyLock
  <1>8. CASE \/ \E b \in BOOLEAN : SetDispatchAll(b)
             \/ Pop \/ Announce \/ Return \/ UNCHANGED vars
    BY <1>1, <1>8 DEF SetDispatchAll, Pop, Announce, Return, vars
  <1> QED BY <1>2, <1>3, <1>4, <1>5, <1>6, <1>7, <1>8 DEF Next
-----------------------------------------------------------------------------
LEMMA IInvInit == Init => IInv
  <1> SUFFICES ASSUME Init PROVE IInv
    OBVIOUS
  <1>1. Len(<<>>) = 0 /\ <<>> \in Seq(Record) /\ <<>> \in Seq(1..MaxEmits)
    BY EmptySeq
  <1>2. TypeOK
    <2>1. 0 \in 0..MaxEmits
      BY QueuedAssumption DEF QueuedAssumption
    <2> QED BY <1>1, <2>1 DEF Init, TypeOK, Record, Working
  <1>3. LockOwner /\ Visits
    BY QueuedAssumption DEF Init, LockOwner, Visits, QueuedAssumption
  <1>4. Flow
    BY <1>1 DEF Init, Flow, InDelivery, Ordered, Pending, Gone, Counts
  <1>5. NoDanglingSignal /\ DestroyDeliversAll
    BY <1>1 DEF Init, NoDanglingSignal, DestroyDeliversAll
  <1> QED BY <1>2, <1>3, <1>4, <1>5 DEF IInv, Hand

LEMMA IInvAlways == Spec => []IInv
  <1>1. IInv /\ [Next]_vars => IInv'
    BY HandNext, FlowNext, DanglingNext, ClosedNext DEF IInv
  <1> QED BY IInvInit, <1>1, PTL DEF Spec

(* Every variable keeps its type, in every run.                             *)
THEOREM QueuedTypeOK == Spec => []TypeOK
  <1>1. IInv => TypeOK
    BY DEF IInv, Hand
  <1> QED BY <1>1, IInvAlways, PTL

(* Each lock belongs to the one thread that is inside the section it        *)
(* guards: an emission that starts a thread, the delivery of an entry, or a *)
(* destructor.                                                              *)
THEOREM LocksHaveOneOwner == Spec => []LockOwner
  <1>1. IInv => LockOwner
    BY DEF IInv, Hand
  <1> QED BY <1>1, IInvAlways, PTL

(* The shared queue never points at a signal that is gone, unless it was    *)
(* destroyed with dispatching switched off.                                 *)
THEOREM NobodyDangles == Spec => []NoDanglingSignal
  <1>1. IInv => NoDanglingSignal
    BY DEF IInv
  <1> QED BY <1>1, IInvAlways, PTL

(* A destructor that was to dispatch has left nothing undelivered, whatever *)
(* the dispatcher and the other signals were doing.                         *)
THEOREM DestructorsLoseNothing == Spec => []DestroyDeliversAll
  <1>1. IInv => DestroyDeliversAll
    BY DEF IInv
  <1> QED BY <1>1, IInvAlways, PTL

(* The signals that share a queue implement AsyncDelivery: each emission of *)
(* each is delivered at most once and in order, by the dispatchers or by    *)
(* its destructor.                                                          *)
THEOREM QueuedImplementsDelivery == Spec => DeliversInOrder
  <1>1. Init => Delivery!Init
    BY DEF Init, Delivery!Init
  <1>2. IInv /\ [Next]_vars => [Delivery!Next]_<<sent, got>>
    <2> SUFFICES ASSUME IInv, [Next]_vars PROVE Delivery!Next \/ UNCHANGED <<sent, got>>
      OBVIOUS
    <2>0. TypeOK /\ alive \subseteq Signals
      BY DEF IInv, Hand, TypeOK
    <2>1. ASSUME NEW t \in Threads, NEW s \in Signals, Emit(t, s) PROVE Delivery!Emit(s)
      BY <2>1 DEF Emit, Delivery!Emit
    <2>2. CASE Take
      <3>1. CASE queue = <<>> \/ Head(queue).sig \notin alive
        BY <2>2, <3>1 DEF Take
      <3>2. CASE queue # <<>> /\ Head(queue).sig \in alive
        <4>1. PICK s \in alive : s = queue[1].sig
          BY <2>0, <3>2, HeadIsFirst
        <4>2. /\ 1 \in 1..Len(queue) /\ \A j \in 1..Len(queue) : 1 <= j
              /\ disp # "call" /\ UNCHANGED sent
              /\ got' = [got EXCEPT ![s] = Append(@, queue[1].n)]
          BY <2>0, <2>2, <3>2, <4>1, HeadIsFirst DEF Take
        <4>3. queue[1].n = Len(got[s]) + 1 /\ Len(got[s]) < sent[s]
          BY <2>0, <4>1, <4>2, DeliverNext DEF IInv, Flow
        <4>4. Delivery!Deliver(s)
          BY <2>0, <4>2, <4>3 DEF Delivery!Deliver, TypeOK
        <4> QED BY <2>0, <4>4 DEF Delivery!Next
      <3> QED BY <3>1, <3>2
    <2>3. ASSUME NEW t \in Threads, Drain(t) PROVE Delivery!Next
      <3>1. /\ this[t] \in Signals /\ Len(got[this[t]]) < sent[this[t]] /\ UNCHANGED sent
            /\ got' = [got EXCEPT ![this[t]] = Append(@, Len(@) + 1)]
        BY <2>0, <2>3, DrainKeeps DEF IInv
      <3> QED BY <3>1 DEF Delivery!Next, Delivery!Deliver
    <2>4. CASE \/ \E b \in BOOLEAN : SetDispatchAll(b)
               \/ Pop \/ Announce \/ Return \/ UNCHANGED vars
               \/ \E t \in Threads : Started(t) \/ DestroyLock(t) \/ Destroyed(t)
               \/ \E t \in Threads, s \in Signals : Destroy(t, s)
      BY <2>4 DEF SetDispatchAll, Pop, Announce, Return, vars, Started, DestroyLock,
                  Destroyed, Destroy
    <2> QED BY <2>1, <2>2, <2>3, <2>4 DEF Next, Delivery!Next
  <1> QED BY <1>1, <1>2, IInvAlways, PTL DEF Spec, DeliversInOrder, Delivery!Spec
-----------------------------------------------------------------------------
(***************************************************************************)
(* EveryEmitReturns does not hold: an ending dispatcher clears the flag a  *)
(* second time, without the lock.  The following says when exactly that    *)
(* does harm, and that the harm is then final.                             *)
(***************************************************************************)
Joiner == \E t \in Threads : pc[t] = "join"

(* No emission starts a dispatcher while the one before stands between the  *)
(* two places where it clears the flag.                                     *)
StartsOutside == \A t \in Threads, s \in Signals : Emit(t, s) /\ ~running => disp # "exit"

(* Nor does any other emission come after the end of the loop.              *)
EmitsOutside == \A t \in Threads, s \in Signals : Emit(t, s) => disp # "exit"

(* An emission that waits, with the lock, for a thread that wants the lock. *)
Stuck == Joiner /\ disp = "lock"

(* Who joins the former dispatcher joins one that takes no lock any more.   *)
JoinsFinished == Joiner => disp \in {"none", "returning", "done"}

(* The flag is set while a dispatcher works, or is about to be started.     *)
FlagSet == disp \in Working \cup {"crashed"} \/ Joiner => running

(* What is in the queue has a dispatcher at work, or one about to start.    *)
Attended == queue # <<>> => disp \in Working \cup {"crashed"} \/ Joiner

LEMMA JoinerHasTheLock == Hand /\ Joiner => emitLock \notin {None, "dispatcher"}
  BY QueuedAssumption DEF Hand, LockOwner, Joiner, QueuedAssumption

LEMMA JoinsNext ==
    Hand /\ JoinsFinished /\ FlagSet /\ [Next]_vars /\ [StartsOutside]_vars
      => JoinsFinished' /\ FlagSet'
  <1> SUFFICES ASSUME Hand, JoinsFinished, FlagSet, [Next]_vars, [StartsOutside]_vars
               PROVE  JoinsFinished' /\ FlagSet'
    OBVIOUS
  <1> USE DEF JoinsFinished, FlagSet, Working
  <1>0. /\ Joiner => emitLock \notin {None, "dispatcher"}
        /\ disp \in {"call", "crashed"} <=> emitLock = "dispatcher"
        /\ disp \in {"lock", "call", "none", "exit", "returning", "done", "crashed"}
        /\ pc \in [Threads -> {"idle", "join", "destroy", "drain"}] /\ running \in BOOLEAN
        /\ None # "dispatcher"
    BY JoinerHasTheLock, QueuedAssumption DEF Hand, LockOwner, TypeOK, QueuedAssumption
  <1>1. ASSUME NEW t \in Threads, NEW s \in Signals, Emit(t, s)
        PROVE  JoinsFinished' /\ FlagSet'
    <2>1. emitLock = None /\ disp' = disp /\ running' = TRUE
      BY <1>1 DEF Emit
    <2>2. CASE running
      <3>1. pc' = pc
        BY <1>1, <2>2 DEF Emit
      <3> QED BY <1>0, <2>1, <3>1 DEF Joiner
    <2>3. CASE ~running
      <3>1. disp # "exit"
        BY <1>1, <2>1, <2>3 DEF StartsOutside, vars
      <3> QED BY <1>0, <2>1, <2>3, <3>1
    <2> QED BY <2>2, <2>3
  <1>2. ASSUME NEW t \in Threads, Started(t) PROVE JoinsFinished' /\ FlagSet'
    <2>1. /\ \A u \in Threads : pc'[u] = IF u = t THEN "idle" ELSE pc[u]
          /\ pc[t] = "join" /\ disp' = "lock" /\ running' = running
      BY <1>0, <1>2 DEF Started, Leave
    <2>2. \A u \in Threads : pc[u] = "join" => u = t
      BY <2>1 DEF Hand, LockOwner
    <2> QED BY <2>1, <2>2 DEF Joiner
  <1>3. CASE Take \/ Pop \/ Announce \/ Return
    <2>1. Joiner' <=> Joiner
      BY <1>3 DEF Take, Pop, Announce, Return, Joiner
    <2> QED BY <1>0, <1>3, <2>1 DEF Take, Pop, Announce, Return
  <1>4. ASSUME NEW t \in Threads, \/ DestroyLock(t) \/ Drain(t) \/ Destroyed(t)
                                  \/ \E s \in Signals : Destroy(t, s)
        PROVE  JoinsFinished' /\ FlagSet'
    <2>1. UNCHANGED <<disp, running>> /\ (Joiner' => Joiner) /\ (Joiner => Joiner')
      BY <1>0, <1>4 DEF DestroyLock, Drain, Destroyed, Destroy, Enter, Leave, Joiner
    <2> QED BY <2>1
  <1>5. CASE (\E b \in BOOLEAN : SetDispatchAll(b)) \/ UNCHANGED vars
    BY <1>5 DEF SetDispatchAll, vars, Joiner
  <1> QED BY <1>1, <1>2, <1>3, <1>4, <1>5 DEF Next

LEMMA JoinsInit == Init => JoinsFinished /\ FlagSet
  BY DEF Init, JoinsFinished, FlagSet, Joiner, Working

(* As long as no emission comes between the two places where a dispatcher   *)
(* clears the flag and finds it cleared, no emission joins a thread that    *)
(* waits for the lock of that emission.                                     *)
THEOREM OnlyThisDeadlock == Spec /\ [][StartsOutside]_vars => []JoinsFinished
  <1>1. IInv => Hand
    BY DEF IInv
  <1> QED BY <1>1, JoinsInit, JoinsNext, IInvAlways, PTL DEF Spec

(* Once an emission waits for a dispatcher that wants its lock, nothing is  *)
(* queued or delivered any more, for any of the signals that share them.    *)
THEOREM TheDeadlockIsFinal ==
    Spec => [][Stuck => UNCHANGED <<queue, emitLock, running, disp, sent, got>>]_vars
  <1>1. IInv /\ [Next]_vars
          => [Stuck => UNCHANGED <<queue, emitLock, running, disp, sent, got>>]_vars
    <2> SUFFICES ASSUME Hand, Stuck, Next
                 PROVE  UNCHANGED <<queue, emitLock, running, disp, sent, got>>
      BY DEF IInv
    <2>1. emitLock # None /\ disp = "lock"
      BY JoinerHasTheLock DEF Stuck
    <2>2. \A t \in Threads : pc[t] # "drain"
      BY DEF Hand, LockOwner, Stuck, Joiner
    <2>3. ASSUME NEW t \in Threads,
                 \/ Started(t) \/ DestroyLock(t) \/ Drain(t) \/ Destroyed(t)
                 \/ \E s \in Signals : Emit(t, s)
          PROVE  FALSE
      BY <2>1, <2>2, <2>3 DEF Started, DestroyLock, Drain, Destroyed, Emit
    <2>4. ~Take /\ ~Pop /\ ~Announce /\ ~Return
      BY <2>1 DEF Take, Pop, Announce, Return
    <2>5. ASSUME NEW t \in Threads, NEW s \in Signals, Destroy(t, s)
          PROVE  UNCHANGED <<queue, emitLock, running, disp, sent, got>>
      BY <2>5 DEF Destroy
    <2>6. ASSUME NEW b \in BOOLEAN, SetDispatchAll(b)
          PROVE  UNCHANGED <<queue, emitLock, running, disp, sent, got>>
      BY <2>6 DEF SetDispatchAll
    <2> QED BY <2>3, <2>4, <2>5, <2>6 DEF Next
  <1> QED BY <1>1, IInvAlways, PTL DEF Spec

(* A flag that is set has a dispatcher behind it, at work or ending.        *)
FlagSound == running => disp \in Working \cup {"exit", "crashed"} \/ Joiner

LEMMA AttendedNext ==
    Hand /\ Attended /\ FlagSound /\ [Next]_vars /\ [EmitsOutside]_vars
      => Attended' /\ FlagSound'
  <1> SUFFICES ASSUME Hand, Attended, FlagSound, [Next]_vars, [EmitsOutside]_vars
               PROVE  Attended' /\ FlagSound'
    OBVIOUS
  <1> USE DEF Attended, FlagSound, Working
  <1>0. /\ Joiner => emitLock \notin {None, "dispatcher"}
        /\ disp \in {"call", "crashed"} <=> emitLock = "dispatcher"
        /\ disp \in {"lock", "call", "none", "exit", "returning", "done", "crashed"}
        /\ pc \in [Threads -> {"idle", "join", "destroy", "drain"}] /\ running \in BOOLEAN
        /\ queue \in Seq(Record) /\ None # "dispatcher"
    BY JoinerHasTheLock, QueuedAssumption
       DEF Hand, LockOwner, TypeOK, QueuedAssumption, Record
  <1>1. ASSUME NEW t \in Threads, NEW s \in Signals, Emit(t, s) PROVE Attended' /\ FlagSound'
    <2>1. emitLock = None /\ disp' = disp /\ running' = TRUE
      BY <1>1 DEF Emit
    <2>2. CASE running
      <3>1. disp # "exit"
        <4>1. queue' # queue
          <5>1. Len(queue') = Len(queue) + 1 /\ Len(queue) \in Nat
            <6>1. Entry(s, sent[s] + 1) \in Record
              BY <1>1, QueuedAssumption DEF Emit, Entry, Record, Hand, TypeOK, QueuedAssumption
            <6> QED BY <1>0, <1>1, <6>1, AppendFacts, LenProperties DEF Emit, Pushed
          <5> QED BY <5>1
        <4> QED BY <1>1, <4>1 DEF EmitsOutside, vars
      <3> QED BY <1>0, <2>1, <2>2, <3>1
    <2>3. CASE ~running
      <3>1. Joiner'
        BY <1>0, <1>1, <2>3 DEF Emit, Joiner
      <3> QED BY <3>1
    <2> QED BY <2>2, <2>3
  <1>2. ASSUME NEW t \in Threads, Started(t) PROVE Attended' /\ FlagSound'
    BY <1>2 DEF Started
  <1>3. CASE Take \/ Pop \/ Announce \/ Return
    <2>1. Joiner' <=> Joiner
      BY <1>3 DEF Take, Pop, Announce, Return, Joiner
    <2> QED BY <1>0, <1>3, <2>1 DEF Take, Pop, Announce, Return
  <1>4. ASSUME NEW t \in Threads, \/ DestroyLock(t) \/ Drain(t) \/ Destroyed(t)
                                  \/ \E s \in Signals : Destroy(t, s)
        PROVE  Attended' /\ FlagSound'
    <2>1. UNCHANGED <<disp, running>> /\ (Joiner => Joiner')
      BY <1>0, <1>4 DEF DestroyLock, Drain, Destroyed, Destroy, Enter, Leave, Joiner
    <2>2. queue' # <<>> => queue # <<>>
      <3>1. CASE Drain(t)
        <4>1. PICK i \in Own(this[t]) : TRUE
          BY <3>1 DEF Drain
        <4>2. i \in 1..Len(queue)
          BY <1>0, <4>1, LenProperties DEF Own
        <4> QED BY <1>0, <4>2, EmptySeq
      <3>2. CASE ~Drain(t)
        BY <1>4, <3>2 DEF DestroyLock, Destroyed, Destroy
      <3> QED BY <3>1, <3>2
    <2> QED BY <2>1, <2>2
  <1>5. CASE (\E b \in BOOLEAN : SetDispatchAll(b)) \/ UNCHANGED vars
    BY <1>5 DEF SetDispatchAll, vars, Joiner
  <1> QED BY <1>1, <1>2, <1>3, <1>4, <1>5 DEF Next

(* As long as no emission at all comes there, nothing that was emitted      *)
(* waits in the queue without a dispatcher at work or about to start.       *)
THEOREM NothingWaitsUnattended == Spec /\ [][EmitsOutside]_vars => []Attended
  <1>1. Init => Attended /\ FlagSound
    BY DEF Init, Attended, FlagSound
  <1>2. IInv => Hand
    BY DEF IInv
  <1> QED BY <1>1, <1>2, AttendedNext, IInvAlways, PTL DEF Spec
=============================================================================

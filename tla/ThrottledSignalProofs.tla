------------------------- MODULE ThrottledSignalProofs -------------------------
(***************************************************************************)
(* For any number of emitting threads and of emissions: an emission joins  *)
(* only a dispatcher that needs the lock no more, the flag is never set    *)
(* without a thread behind it, and the throttled signal implements         *)
(* AsyncDelivery, through all its dispatchers and its destructor.          *)
(*                                                                         *)
(* The invariant has three parts: who owns the lock, what the flag says    *)
(* about the thread, and how far the queue is behind the emissions.        *)
(***************************************************************************)
EXTENDS ThrottledSignal, TLAPS, SequenceTheorems

(* An emission that is about to start a thread has set the flag already,    *)
(* and nobody is inside emit() once the destructor has begun.               *)
FlagOfJoiner == \A e \in Emitters : pc[e] = "join" => running

NobodyInside == life # "alive" => \A e \in Emitters : pc[e] = "idle"

(* The thread is announced until it has announced its end.                  *)
FlagUntilExit == disp \in Working \cup {"exit"} => running

Hand == /\ TypeOK /\ LockOwner /\ NobodyInside
        /\ FlagUntilExit /\ FlagOfJoiner /\ JoinsFinishedThread /\ FlagHasDispatcher

(* What was delivered is 1, 2, ... and the queue holds the rest of what was *)
(* sent; its first item may be in delivery already.                         *)
InDelivery == IF disp = "call" THEN 1 ELSE 0

Flow == /\ Len(got) + Len(queue) = sent + InDelivery
        /\ \A i \in 1..Len(got) : got[i] = i
        /\ \A i \in 1..Len(queue) : queue[i] = sent - Len(queue) + i
        /\ disp = "call" => queue # <<>>

(* Destruction that delivers everything has nothing left after its loop.    *)
NothingLeft == life \in {"stop", "join", "dead"} /\ dispatchAll => queue = <<>>

(* The thread is over when the object is.                                   *)
ThreadOver == life = "dead" => disp \in {"none", "done"}

-----------------------------------------------------------------------------
LEMMA AppendFacts ==
  ASSUME NEW S, NEW q \in Seq(S), NEW x \in S
  PROVE  /\ Append(q, x) \in Seq(S) /\ Len(Append(q, x)) = Len(q) + 1
         /\ \A i \in 1..Len(q) : Append(q, x)[i] = q[i]
         /\ Append(q, x)[Len(q) + 1] = x
  OBVIOUS

(* A sequence that counts from 1 still does with the next number appended. *)
LEMMA CountingOn ==
  ASSUME NEW q \in Seq(Int), \A i \in 1..Len(q) : q[i] = i
  PROVE  LET r == Append(q, Len(q) + 1)
         IN  Len(r) = Len(q) + 1 /\ \A i \in 1..Len(r) : r[i] = i
  <1> DEFINE r == Append(q, Len(q) + 1)
  <1>1. Len(q) \in Nat
    BY LenProperties
  <1>2. Len(r) = Len(q) + 1 /\ r[Len(q) + 1] = Len(q) + 1
    BY <1>1, AppendFacts
  <1>3. \A i \in 1..Len(q) : r[i] = i
    BY <1>1, AppendFacts
  <1> HIDE DEF r
  <1>4. ASSUME NEW i \in 1..Len(r) PROVE r[i] = i
    <2>1. CASE i = Len(q) + 1
      BY <2>1, <1>2
    <2>2. CASE i # Len(q) + 1
      BY <1>1, <1>2, <1>3, <2>2
    <2> QED BY <2>1, <2>2
  <1> QED BY <1>2, <1>4 DEF r

LEMMA HandInit == ThrottledAssumption /\ Init => Hand
  <1> SUFFICES ASSUME ThrottledAssumption, Init PROVE Hand
    OBVIOUS
  <1>1. TypeOK
    <2>1. <<>> \in Seq(1..MaxEmits)
      BY EmptySeq
    <2>2. pc \in [Emitters -> {"idle", "join"}] /\ sent \in 0..MaxEmits
      BY DEF ThrottledAssumption, Init
    <2> QED BY <2>1, <2>2 DEF Init, TypeOK
  <1>2. LockOwner
    BY DEF ThrottledAssumption, Init, LockOwner
  <1>3. /\ NobodyInside /\ FlagUntilExit /\ FlagOfJoiner
        /\ JoinsFinishedThread /\ FlagHasDispatcher
    BY DEF Init, NobodyInside, FlagUntilExit, FlagOfJoiner, JoinsFinishedThread,
           FlagHasDispatcher, Working
  <1> QED BY <1>1, <1>2, <1>3 DEF Hand

(* The types, step by step. *)
LEMMA TypeNext == ThrottledAssumption /\ TypeOK /\ Flow /\ [Next]_vars => TypeOK'
  <1> SUFFICES ASSUME ThrottledAssumption, TypeOK, Flow, [Next]_vars PROVE TypeOK'
    OBVIOUS
  <1> USE DEF ThrottledAssumption, TypeOK, Working
  <1>1. ASSUME NEW e \in Emitters, Emit(e) PROVE TypeOK'
    BY <1>1 DEF Emit, Pushed
  <1>2. ASSUME NEW e \in Emitters, Started(e) PROVE TypeOK'
    BY <1>2 DEF Started
  <1>3. ASSUME NEW b \in BOOLEAN, SetDispatchAll(b) PROVE TypeOK'
    BY <1>3 DEF SetDispatchAll
  <1>4. CASE LoopTest
    BY <1>4 DEF LoopTest
  <1>5. CASE Take
    <2>1. CASE Nothing
      BY <1>5, <2>1 DEF Take
    <2>2. CASE ~Nothing
      <3>1. Head(queue) \in 1..MaxEmits
        BY <2>2, HeadTailProperties DEF Nothing
      <3>2. got' \in Seq(1..MaxEmits)
        <4>1. got' = Append(got, Head(queue))
          BY <1>5, <2>2 DEF Take
        <4> QED BY <3>1, <4>1, AppendFacts
      <3> QED BY <1>5, <2>2, <3>2 DEF Take
    <2> QED BY <2>1, <2>2
  <1>6. CASE Pop
    <2>1. queue # <<>>
      BY <1>6 DEF Pop, Flow
    <2> QED BY <1>6, <2>1 DEF Pop
  <1>7. CASE Wake
    BY <1>7 DEF Wake
  <1>8. CASE Announce
    BY <1>8 DEF Announce
  <1>9. CASE Return
    BY <1>9 DEF Return
  <1>10. CASE Destroy
    BY <1>10 DEF Destroy
  <1>11. CASE Drain
    BY <1>11 DEF Drain
  <1>12. CASE Drained
    BY <1>12 DEF Drained
  <1>13. CASE RequestStop
    BY <1>13 DEF RequestStop
  <1>14. CASE Destroyed
    BY <1>14 DEF Destroyed
  <1>15. CASE UNCHANGED vars
    BY <1>15 DEF vars
  <1> QED BY <1>1, <1>2, <1>3, <1>4, <1>5, <1>6, <1>7, <1>8, <1>9, <1>10, <1>11,
             <1>12, <1>13, <1>14, <1>15 DEF Next

(* The lock, the flag and the thread. *)
LEMMA HandNext == ThrottledAssumption /\ Hand /\ Flow /\ [Next]_vars => Hand'
  <1> SUFFICES ASSUME ThrottledAssumption, Hand, Flow, [Next]_vars PROVE Hand'
    OBVIOUS
  <1>0. TypeOK'
    BY TypeNext DEF Hand
  <1> SUFFICES /\ LockOwner' /\ NobodyInside' /\ FlagUntilExit' /\ FlagOfJoiner'
               /\ JoinsFinishedThread' /\ FlagHasDispatcher'
    BY <1>0 DEF Hand
  <1> DEFINE Goal == /\ LockOwner' /\ NobodyInside' /\ FlagUntilExit' /\ FlagOfJoiner'
                     /\ JoinsFinishedThread' /\ FlagHasDispatcher'
  <1> USE DEF ThrottledAssumption, Hand, TypeOK, LockOwner, NobodyInside, FlagUntilExit,
              FlagOfJoiner, JoinsFinishedThread, FlagHasDispatcher, Working
  <1>1. ASSUME NEW e \in Emitters, Emit(e) PROVE Goal
    BY <1>1 DEF Emit
  <1>2. ASSUME NEW e \in Emitters, Started(e) PROVE Goal
    BY <1>2 DEF Started
  <1>3. ASSUME NEW b \in BOOLEAN, SetDispatchAll(b) PROVE Goal
    BY <1>3 DEF SetDispatchAll
  <1>4. CASE LoopTest
    BY <1>4 DEF LoopTest
  <1>5. CASE Take
    BY <1>5 DEF Take
  <1>6. CASE Pop
    BY <1>6 DEF Pop
  <1>7. CASE Wake
    BY <1>7 DEF Wake
  <1>8. CASE Announce
    BY <1>8 DEF Announce
  <1>9. CASE Return
    BY <1>9 DEF Return
  <1>10. CASE Destroy
    BY <1>10 DEF Destroy
  <1>11. CASE Drain
    BY <1>11 DEF Drain
  <1>12. CASE Drained
    BY <1>12 DEF Drained
  <1>13. CASE RequestStop
    BY <1>13 DEF RequestStop
  <1>14. CASE Destroyed
    BY <1>14 DEF Destroyed
  <1>15. CASE UNCHANGED vars
    BY <1>15 DEF vars
  <1> QED BY <1>1, <1>2, <1>3, <1>4, <1>5, <1>6, <1>7, <1>8, <1>9, <1>10, <1>11,
             <1>12, <1>13, <1>14, <1>15 DEF Next

(* The accounts: what is in the queue is what was sent and not delivered.   *)
LEMMA FlowNext == ThrottledAssumption /\ Hand /\ Flow /\ [Next]_vars => Flow'
  <1> SUFFICES ASSUME ThrottledAssumption, Hand, Flow, [Next]_vars PROVE Flow'
    OBVIOUS
  <1>1. /\ queue \in Seq(Int) /\ got \in Seq(Int) /\ sent \in Int
        /\ Len(queue) \in Nat /\ Len(got) \in Nat
    BY LenProperties DEF Hand, TypeOK, ThrottledAssumption
  <1>2. disp # "call" => Len(got) + Len(queue) = sent
    BY <1>1 DEF Flow, InDelivery
  <1>3. /\ \A i \in 1..Len(got) : got[i] = i
        /\ \A i \in 1..Len(queue) : queue[i] = sent - Len(queue) + i
    BY DEF Flow
  <1>4. ASSUME disp # "call", queue # <<>> PROVE Head(queue) = Len(got) + 1
    <2>1. Len(queue) \in Nat \ {0} /\ Head(queue) = queue[1]
      BY <1>1, <1>4, EmptySeq
    <2>2. queue[1] = sent - Len(queue) + 1
      BY <1>3, <2>1
    <2> QED BY <1>1, <1>2, <1>4, <2>1, <2>2
  (* an item is delivered: the sequence got goes on counting *)
  <1>5. ASSUME disp # "call", queue # <<>>, got' = Append(got, Head(queue))
        PROVE  Len(got') = Len(got) + 1 /\ \A i \in 1..Len(got') : got'[i] = i
    BY <1>1, <1>3, <1>4, <1>5, CountingOn
  (* an item is taken off: the rest of the queue is still what follows *)
  <1>6. ASSUME queue # <<>>, queue' = Tail(queue), UNCHANGED sent
        PROVE  /\ Len(queue') = Len(queue) - 1
               /\ \A i \in 1..Len(queue') : queue'[i] = sent' - Len(queue') + i
    <2>1. /\ Len(queue') = Len(queue) - 1
          /\ \A i \in 1..Len(queue') : queue'[i] = queue[i + 1]
      BY <1>1, <1>6, HeadTailProperties
    <2>2. ASSUME NEW i \in 1..Len(queue') PROVE queue'[i] = sent' - Len(queue') + i
      <3>1. i + 1 \in 1..Len(queue) /\ queue'[i] = queue[i + 1]
        BY <1>1, <2>1
      <3>2. queue[i + 1] = sent - Len(queue) + (i + 1)
        BY <1>3, <3>1
      <3> QED BY <1>1, <1>6, <2>1, <3>1, <3>2
    <2> QED BY <2>1, <2>2
  <1>7. ASSUME NEW e \in Emitters, Emit(e) PROVE Flow'
    <2>1. queue' = Append(queue, sent + 1) /\ sent' = sent + 1
          /\ UNCHANGED <<got, disp>>
      BY <1>7 DEF Emit, Pushed
    <2>2. /\ Len(queue') = Len(queue) + 1
          /\ \A i \in 1..Len(queue) : queue'[i] = queue[i]
          /\ queue'[Len(queue) + 1] = sent + 1
      BY <1>1, <2>1, AppendFacts
    <2> QED BY <1>1, <2>1, <2>2 DEF Flow, InDelivery
  <1>8. CASE Take
    <2>1. CASE Nothing
      BY <1>8, <2>1 DEF Take, Flow, InDelivery
    <2>2. CASE ~Nothing
      <3>1. /\ disp # "call" /\ disp' = "call" /\ queue # <<>>
            /\ got' = Append(got, Head(queue)) /\ UNCHANGED <<queue, sent>>
        BY <1>8, <2>2 DEF Take, Nothing
      <3>2. Len(got') = Len(got) + 1 /\ \A i \in 1..Len(got') : got'[i] = i
        BY <1>5, <3>1
      <3>3. Len(got') + Len(queue') = sent' + InDelivery'
        <4>1. Len(got) + Len(queue) = sent /\ Len(queue') = Len(queue) /\ sent' = sent
          BY <1>2, <3>1
        <4>2. InDelivery' = 1
          BY <3>1 DEF InDelivery
        <4>3. Len(got') = Len(got) + 1
          BY <3>2
        <4> HIDE <3>2
        <4> QED BY <1>1, <4>1, <4>2, <4>3
      <3>4. \A i \in 1..Len(queue') : queue'[i] = sent' - Len(queue') + i
        BY <1>3, <3>1
      <3> QED BY <3>1, <3>2, <3>3, <3>4 DEF Flow
    <2> QED BY <2>1, <2>2
  <1>9. CASE Pop
    <2>1. /\ disp = "call" /\ disp' # "call" /\ queue # <<>>
          /\ queue' = Tail(queue) /\ UNCHANGED <<got, sent>>
      BY <1>9 DEF Pop, Flow
    <2>2. Len(got) + Len(queue) = sent + 1
      BY <2>1 DEF Flow, InDelivery
    <2>3. Len(got') + Len(queue') = sent' + InDelivery'
      BY <1>1, <1>6, <2>1, <2>2 DEF InDelivery
    <2> QED BY <1>3, <1>6, <2>1, <2>3 DEF Flow
  <1>10. CASE Drain
    <2>1. /\ disp # "call" /\ queue # <<>> /\ disp' = disp /\ UNCHANGED sent
          /\ got' = Append(got, Head(queue)) /\ queue' = Tail(queue)
      BY <1>10 DEF Drain, Hand, LockOwner
    <2>2. Len(got') + Len(queue') = sent' + InDelivery'
      <3>1. Len(got) + Len(queue) = sent /\ sent' = sent /\ InDelivery' = 0
        BY <1>2, <2>1 DEF InDelivery
      <3>2. Len(got') = Len(got) + 1 /\ Len(queue') = Len(queue) - 1
        BY <1>5, <1>6, <2>1
      <3> QED BY <1>1, <3>1, <3>2, Z3
    <2> QED BY <1>5, <1>6, <2>1, <2>2 DEF Flow
  <1>11. CASE \/ \E e \in Emitters : Started(e)
              \/ \E b \in BOOLEAN : SetDispatchAll(b)
              \/ LoopTest \/ Wake \/ Announce \/ Return
              \/ Destroy \/ Drained \/ RequestStop \/ Destroyed \/ UNCHANGED vars
    BY <1>11 DEF Started, SetDispatchAll, LoopTest, Wake, Announce, Return, Destroy,
                 Drained, RequestStop, Destroyed, vars, Flow, InDelivery
  <1> QED BY <1>7, <1>8, <1>9, <1>10, <1>11 DEF Next

(* The end. *)
LEMMA EndNext ==
    ThrottledAssumption /\ Hand /\ Flow /\ NothingLeft /\ ThreadOver /\ [Next]_vars
      => NothingLeft' /\ ThreadOver'
  <1> SUFFICES ASSUME ThrottledAssumption, Hand, Flow, NothingLeft, ThreadOver, [Next]_vars
               PROVE  NothingLeft' /\ ThreadOver'
    OBVIOUS
  <1> USE DEF NothingLeft, ThreadOver, Hand, NobodyInside
  <1>1. ASSUME NEW e \in Emitters, Emit(e) \/ Started(e) PROVE NothingLeft' /\ ThreadOver'
    BY <1>1 DEF Emit, Started
  <1>2. ASSUME NEW b \in BOOLEAN, SetDispatchAll(b) PROVE NothingLeft' /\ ThreadOver'
    BY <1>2 DEF SetDispatchAll
  <1>3. CASE LoopTest \/ Take \/ Wake \/ Announce \/ Return
    BY <1>3 DEF LoopTest, Take, Nothing, Wake, Announce, Return
  <1>4. CASE Pop
    BY <1>4 DEF Pop, Flow
  <1>5. CASE Destroy \/ Drain \/ Drained \/ RequestStop \/ Destroyed
    BY <1>5 DEF Destroy, Drain, Drained, RequestStop, Destroyed
  <1>6. CASE UNCHANGED vars
    BY <1>6 DEF vars
  <1> QED BY <1>1, <1>2, <1>3, <1>4, <1>5, <1>6 DEF Next
-----------------------------------------------------------------------------
IInv == Hand /\ Flow /\ NothingLeft /\ ThreadOver

LEMMA IInvAlways == Spec => []IInv
  <1>1. Init => IInv
    <2>1. Init => Flow
      BY EmptySeq DEF Init, Flow, InDelivery
    <2> QED BY <2>1, ThrottledAssumption, HandInit DEF Init, IInv, NothingLeft, ThreadOver
  <1>2. IInv /\ [Next]_vars => IInv'
    BY ThrottledAssumption, HandNext, FlowNext, EndNext DEF IInv
  <1> QED BY <1>1, <1>2, PTL DEF Spec

(* Every variable keeps its type, in every run. *)
THEOREM ThrottledTypeOK == Spec => []TypeOK
  <1>1. IInv => TypeOK
    BY DEF IInv, Hand
  <1> QED BY <1>1, IInvAlways, PTL

(* _emit_lock belongs to the one thread that is inside the section it       *)
(* guards: an emission that starts a thread, the delivery of an item, or    *)
(* the loop of the destructor.                                              *)
THEOREM LockHasOneOwner == Spec => []LockOwner
  <1>1. IInv => LockOwner
    BY DEF IInv, Hand
  <1> QED BY <1>1, IInvAlways, PTL

(* An emission that joins the thread before, with the lock held, joins one  *)
(* that has left its loop: it never waits for a thread that waits for it.   *)
THEOREM EmissionsJoinTheFinished == Spec => []JoinsFinishedThread
  <1>1. IInv => JoinsFinishedThread
    BY DEF IInv, Hand
  <1> QED BY <1>1, IInvAlways, PTL

(* A flag that is set has a thread behind it, at work or ending.            *)
THEOREM TheFlagHasAThread == Spec => []FlagHasDispatcher
  <1>1. IInv => FlagHasDispatcher
    BY DEF IInv, Hand
  <1> QED BY <1>1, IInvAlways, PTL

(* When _dispatch_all_on_destroy is set, all that was emitted has been      *)
(* delivered when the destructor has returned.                              *)
THEOREM DestructionLosesNothing == Spec => []DestroyDeliversAll
  <1>1. IInv => DestroyDeliversAll
    <2> SUFFICES ASSUME IInv, life = "dead", dispatchAll PROVE Len(got) = sent
      BY DEF DestroyDeliversAll
    <2>1. queue = <<>> /\ disp # "call"
      BY DEF IInv, NothingLeft, ThreadOver
    <2>2. Len(queue) = 0 /\ Len(got) \in Nat /\ sent \in Nat
      BY <2>1, LenProperties, EmptySeq DEF IInv, Hand, TypeOK
    <2> QED BY <2>1, <2>2 DEF IInv, Flow, InDelivery
  <1> QED BY <1>1, IInvAlways, PTL
-----------------------------------------------------------------------------
(***************************************************************************)
(* The end of the signal.  ~jthread requests the stop of the dispatcher    *)
(* and waits for it, without the lock.                                     *)
(***************************************************************************)
Ending == life \in {"join", "dead"}

StopRequested == Ending => stop

LEMMA StopNext == Hand /\ StopRequested /\ [Next]_vars => StopRequested'
  <1> SUFFICES ASSUME Hand, StopRequested, [Next]_vars PROVE StopRequested'
    OBVIOUS
  <1> USE DEF StopRequested, Ending
  <1>1. ASSUME NEW e \in Emitters, Emit(e) \/ Started(e) PROVE StopRequested'
    BY <1>1 DEF Emit, Started, Hand, NobodyInside
  <1>2. CASE \/ \E b \in BOOLEAN : SetDispatchAll(b)
             \/ LoopTest \/ Take \/ Pop \/ Wake \/ Announce \/ Return
             \/ Destroy \/ Drain \/ Drained \/ RequestStop \/ Destroyed \/ UNCHANGED vars
    BY <1>2 DEF SetDispatchAll, LoopTest, Take, Pop, Wake, Announce, Return, Destroy,
                Drain, Drained, RequestStop, Destroyed, vars
  <1> QED BY <1>1, <1>2 DEF Next

LEMMA StopAlways == Spec => []StopRequested
  <1>1. Init => StopRequested
    BY DEF Init, StopRequested, Ending
  <1>2. IInv => Hand
    BY DEF IInv
  <1> QED BY <1>1, <1>2, StopNext, IInvAlways, PTL DEF Spec

(* Who joins the dispatcher does not wait for a thread that waits for him:  *)
(* an emission, which has the lock, joins one that takes the lock no more;  *)
(* the destructor has given the lock back, nobody else is left that could   *)
(* take it, and the stop it has requested ends the loop at its next test.   *)
NobodyJoinsInVain ==
  /\ \A e \in Emitters : pc[e] = "join" => disp \in {"none", "returning", "done"}
  /\ life = "join" => /\ stop /\ emitLock \in {None, "dispatcher"}
                      /\ \A e \in Emitters : pc[e] = "idle"

(* Every join is of a thread that can end; that it does end is CallsReturn, *)
(* with the fairness the run assumes.                                       *)
THEOREM EveryJoinCanEnd == Spec => []NobodyJoinsInVain
  <1>1. IInv /\ StopRequested => NobodyJoinsInVain
    BY DEF IInv, Hand, JoinsFinishedThread, LockOwner, NobodyInside, TypeOK, StopRequested,
           Ending, NobodyJoinsInVain
  <1> QED BY <1>1, StopAlways, IInvAlways, PTL

(* Once the stop is requested no further item is delivered, also when the   *)
(* queue is not empty: at most the delivery that has begun comes to its end. *)
THEOREM SilentOnceStopped ==
    Spec => [][Ending => UNCHANGED <<sent, got>>]_vars
  <1>1. IInv /\ StopRequested /\ [Next]_vars
          => [Ending => UNCHANGED <<sent, got>>]_vars
    <2> SUFFICES ASSUME StopRequested, Hand, Ending, Next PROVE UNCHANGED <<sent, got>>
      BY DEF IInv, vars
    <2> USE DEF StopRequested, Ending
    <2>1. ASSUME NEW e \in Emitters, Emit(e) \/ Started(e) PROVE UNCHANGED <<sent, got>>
      BY <2>1 DEF Emit, Started
    <2>2. ASSUME ~\E e \in Emitters : Emit(e) \/ Started(e) PROVE UNCHANGED <<sent, got>>
      BY <2>2 DEF Next, SetDispatchAll, LoopTest, Take, Nothing, Pop, Wake, Announce, Return,
                  Destroy, Drain, Drained, RequestStop, Destroyed
    <2> QED BY <2>1, <2>2
  <1> QED BY <1>1, StopAlways, IInvAlways, PTL DEF Spec

(* When the destructor has returned, no thread of the signal touches it.    *)
THEOREM NoStepWhenDead == Spec => [][life # "dead"]_vars
  <1>1. IInv /\ [Next]_vars => [life # "dead"]_vars
    <2> SUFFICES ASSUME Hand, ThreadOver, life = "dead", Next PROVE FALSE
      BY DEF IInv
    <2> USE DEF Hand, NobodyInside, ThreadOver
    <2>1. ASSUME NEW e \in Emitters, Emit(e) \/ Started(e) PROVE FALSE
      BY <2>1 DEF Emit, Started
    <2>2. ASSUME ~\E e \in Emitters : Emit(e) \/ Started(e) PROVE FALSE
      BY <2>2 DEF Next, SetDispatchAll, LoopTest, Take, Pop, Wake, Announce, Return, Destroy,
                  Drain, Drained, RequestStop, Destroyed
    <2> QED BY <2>1, <2>2
  <1> QED BY <1>1, IInvAlways, PTL DEF Spec
-----------------------------------------------------------------------------
(***************************************************************************)
(* EverythingDelivered does not hold: the dispatcher finds its queue empty *)
(* under the lock and clears the flag after it has let go of it.           *)
(***************************************************************************)

(* No emission comes in between. *)
EmitsOutside == \A e \in Emitters : Emit(e) => disp # "exit"

(* What was emitted has a dispatcher at work, or one that is being started. *)
Attended == life = "alive" /\ queue # <<>> =>
              disp \in Working \/ \E e \in Emitters : pc[e] = "join"

NotStopped == stop => Ending

LEMMA NotStoppedNext == NotStopped /\ [Next]_vars => NotStopped'
  BY DEF NotStopped, Ending, Next, Emit, Started, SetDispatchAll, LoopTest, Take, Pop, Wake,
         Announce, Return, Destroy, Drain, Drained, RequestStop, Destroyed, vars

LEMMA AttendedNext ==
    Hand /\ NotStopped /\ Attended /\ [Next]_vars /\ [EmitsOutside]_vars => Attended'
  <1> SUFFICES ASSUME Hand, NotStopped, Attended, [Next]_vars, [EmitsOutside]_vars
               PROVE  Attended'
    OBVIOUS
  <1> USE DEF Attended, Working
  <1>1. ASSUME NEW e \in Emitters, Emit(e) PROVE Attended'
    <2>1. CASE running
      <3>1. queue' # queue
        <4>1. /\ queue \in Seq(Nat) /\ sent + 1 \in Nat
              /\ queue' = Append(queue, sent + 1)
          BY <1>1, ThrottledAssumption
             DEF Emit, Pushed, Hand, TypeOK, ThrottledAssumption
        <4>2. Len(queue') = Len(queue) + 1 /\ Len(queue) \in Nat
          BY <4>1, AppendFacts, LenProperties
        <4> QED BY <4>2
      <3>2. disp # "exit" /\ UNCHANGED <<disp, pc>>
        BY <1>1, <2>1, <3>1 DEF EmitsOutside, Emit, vars
      <3> QED BY <2>1, <3>2 DEF Hand, FlagHasDispatcher
    <2>2. CASE ~running
      BY <1>1, <2>2 DEF Emit, Hand, TypeOK
    <2> QED BY <2>1, <2>2
  <1>2. ASSUME NEW e \in Emitters, Started(e) PROVE Attended'
    BY <1>2 DEF Started
  <1>3. CASE LoopTest \/ Take \/ Wake \/ Announce \/ Return
    BY <1>3 DEF LoopTest, Take, Nothing, Wake, Announce, Return, NotStopped, Ending
  <1>4. CASE Pop
    BY <1>4 DEF Pop
  <1>5. CASE \/ Destroy \/ Drain \/ Drained \/ RequestStop \/ Destroyed
             \/ (\E b \in BOOLEAN : SetDispatchAll(b)) \/ UNCHANGED vars
    BY <1>5 DEF Destroy, Drain, Drained, RequestStop, Destroyed, SetDispatchAll, vars
  <1> QED BY <1>1, <1>2, <1>3, <1>4, <1>5 DEF Next

(* As long as no emission comes between the end of the loop and the store   *)
(* that announces it, no item waits in the queue of a live signal without a *)
(* dispatcher; there is no other way for an emission to be forgotten.       *)
THEOREM NothingWaitsUnattended == Spec /\ [][EmitsOutside]_vars => []Attended
  <1>1. Init => NotStopped /\ Attended
    BY DEF Init, NotStopped, Attended
  <1>2. IInv => Hand
    BY DEF IInv
  <1> QED BY <1>1, <1>2, NotStoppedNext, AttendedNext, IInvAlways, PTL DEF Spec
-----------------------------------------------------------------------------
(* A step that delivers the head of the queue is a delivery of AsyncDelivery. *)
LEMMA HeadIsNext ==
  ASSUME IInv, queue # <<>>, disp # "call", got' = Append(got, Head(queue)), UNCHANGED sent
  PROVE  Delivery!Deliver("this")
  <1>1. /\ queue \in Seq(Int) /\ got \in Seq(1..MaxEmits) /\ sent \in Int
        /\ Len(queue) \in Nat \ {0} /\ Len(got) \in Nat
    <2>1. /\ queue \in Seq(1..MaxEmits) /\ got \in Seq(1..MaxEmits) /\ sent \in 0..MaxEmits
      BY DEF IInv, Hand, TypeOK
    <2>2. Len(queue) \in Nat \ {0} /\ Len(got) \in Nat
      BY <2>1, LenProperties, EmptySeq
    <2>3. queue \in Seq(Int) /\ sent \in Int
      BY <2>1, ThrottledAssumption DEF ThrottledAssumption
    <2> QED BY <2>1, <2>2, <2>3
  <1>2. Head(queue) = Len(got) + 1 /\ Len(got) < sent
    BY <1>1 DEF IInv, Flow, InDelivery
  <1> QED BY <1>1, <1>2 DEF Delivery!Deliver

(* The throttled signal implements AsyncDelivery: each emission is          *)
(* delivered at most once, in the order in which they were made, by         *)
(* whichever thread.                                                        *)
THEOREM ThrottledImplementsDelivery == Spec => DeliversInOrder
  <1>1. Init => Delivery!Init
    BY DEF Init, Delivery!Init
  <1>2. IInv /\ [Next]_vars
          => [Delivery!Next]_<<[s \in {"this"} |-> sent], [s \in {"this"} |-> got]>>
    <2> SUFFICES ASSUME IInv, [Next]_vars
                 PROVE  \/ Delivery!Emit("this") \/ Delivery!Deliver("this")
                        \/ UNCHANGED <<sent, got>>
      BY DEF Delivery!Next
    <2>1. ASSUME NEW e \in Emitters, Emit(e) PROVE Delivery!Emit("this")
      BY <2>1 DEF Emit, Delivery!Emit
    <2>2. CASE Take
      <3>1. CASE Nothing
        BY <2>2, <3>1 DEF Take
      <3>2. CASE ~Nothing
        BY <2>2, <3>2, HeadIsNext DEF Take, Nothing
      <3> QED BY <3>1, <3>2
    <2>3. CASE Drain
      BY <2>3, HeadIsNext DEF Drain, IInv, Hand, LockOwner
    <2>4. CASE \/ \E e \in Emitters : Started(e)
               \/ \E b \in BOOLEAN : SetDispatchAll(b)
               \/ LoopTest \/ Pop \/ Wake \/ Announce \/ Return
               \/ Destroy \/ Drained \/ RequestStop \/ Destroyed \/ UNCHANGED vars
      BY <2>4 DEF Started, SetDispatchAll, LoopTest, Pop, Wake, Announce, Return,
                  Destroy, Drained, RequestStop, Destroyed, vars
    <2> QED BY <2>1, <2>2, <2>3, <2>4 DEF Next
  <1> QED BY <1>1, <1>2, IInvAlways, PTL DEF Spec, DeliversInOrder, Delivery!Spec
=============================================================================

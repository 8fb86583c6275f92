--------------------------- MODULE ThreadPoolProofs ---------------------------
(***************************************************************************)
(* For any number of workers, clients and tasks: no notification is lost,  *)
(* no worker leaves work behind, and both pools implement TaskPool.        *)
(*                                                                         *)
(* The numbers 1, 2, ... of the accepted tasks are split at one point: up  *)
(* to it they were started, beyond it they are in the queue, in order.     *)
(***************************************************************************)
EXTENDS ThreadPool, TLAPS, SequenceTheorems

(* A worker that is about to notify is inside a task; a client is inside    *)
(* enqueue() only as long as the pool is alive.                             *)
NotifiersInside ==
    /\ \A w \in Workers : w \in notifying => at[w] = "task"
    /\ life # "alive" => notifying \cap Clients = {}

(* The two flags follow the destructor. *)
FlagsFollow == /\ cancelled <=> life # "alive"
               /\ life = "dead" => \A w \in Workers : at[w] = "exited"

(* The point at which the numbers are split, as long as the queue exists.   *)
Begun == accepted - Len(queue)

Split == /\ Begun \in Nat
         /\ \A i \in 1..Len(queue) : queue[i] = Begun + i
         /\ InHands \cup Ready = 1..Begun
         /\ InHands \cap Ready = {}
         /\ \A v, w \in Workers : task[v] = task[w] /\ at[v] = "task" => v = w

Account == life # "dead" => Split

Control == /\ TypeOK /\ NotifiersInside /\ FlagsFollow
           /\ NoSleepOverWork /\ LeavesNoWork
-----------------------------------------------------------------------------
LEMMA AppendFacts ==
  ASSUME NEW S, NEW q \in Seq(S), NEW x \in S
  PROVE  /\ Append(q, x) \in Seq(S) /\ Len(Append(q, x)) = Len(q) + 1
         /\ \A i \in 1..Len(q) : Append(q, x)[i] = q[i]
         /\ Append(q, x)[Len(q) + 1] = x
         /\ Append(q, x) # <<>>
  OBVIOUS

LEMMA TypeInit == PoolAssumption /\ Init => TypeOK
  <1> SUFFICES ASSUME PoolAssumption, Init PROVE TypeOK
    OBVIOUS
  <1> USE DEF PoolAssumption, Init, Tasks
  <1>1. queue \in Seq(Tasks)
    BY EmptySeq
  <1>2. /\ accepted \in 0..MaxTasks
        /\ future \in [Tasks -> {"none", "pending", "ready", "broken"}]
    OBVIOUS
  <1>3. /\ at \in [Workers -> {"test", "fetch", "asleep", "task", "exited"}]
        /\ task \in [Workers -> Tasks \cup {None}]
        /\ \A w \in Workers : task[w] = None <=> at[w] # "task"
    OBVIOUS
  <1> QED BY <1>1, <1>2, <1>3 DEF TypeOK

(* What enqueue() puts into the queue. *)
LEMMA PushTypes ==
  ASSUME PoolAssumption, TypeOK, accepted < MaxTasks, Push
  PROVE  /\ accepted' \in 0..MaxTasks /\ queue' \in Seq(Tasks)
         /\ future' \in [Tasks -> {"none", "pending", "ready", "broken"}]
  <1>1. accepted' = accepted + 1 /\ accepted' \in Tasks
    BY DEF PoolAssumption, TypeOK, Push, Tasks
  <1>2. queue' \in Seq(Tasks)
    BY <1>1, AppendFacts DEF TypeOK, Push
  <1> QED BY <1>1, <1>2 DEF TypeOK, Push, Tasks

(* What a worker takes out of it. *)
LEMMA PopTypes ==
  ASSUME PoolAssumption, TypeOK, NEW w \in Workers, queue # <<>>, Pop(w),
         at[w] # "task", UNCHANGED <<kind, cancelled, valid, notifying, life, accepted, future>>
  PROVE  TypeOK'
  <1>1. Head(queue) \in Tasks /\ Tail(queue) \in Seq(Tasks)
    BY HeadTailProperties DEF TypeOK
  <1>2. None \notin Tasks
    BY DEF PoolAssumption, Tasks
  <1> QED BY <1>1, <1>2 DEF TypeOK, Pop

LEMMA TypeNext == PoolAssumption /\ TypeOK /\ NotifiersInside /\ [Next]_vars => TypeOK'
  <1> SUFFICES ASSUME PoolAssumption, TypeOK, NotifiersInside, [Next]_vars PROVE TypeOK'
    OBVIOUS
  <1>1. ASSUME NEW t \in Workers \cup Clients, LiteEnqueue(t) \/ PoolEnqueue(t) PROVE TypeOK'
    <2>1. /\ accepted' \in 0..MaxTasks /\ queue' \in Seq(Tasks)
          /\ future' \in [Tasks -> {"none", "pending", "ready", "broken"}]
      BY <1>1, PushTypes DEF LiteEnqueue, PoolEnqueue, MayEnqueue
    <2>2. CASE LiteEnqueue(t)
      BY <2>1, <2>2 DEF LiteEnqueue, TypeOK
    <2>3. CASE PoolEnqueue(t)
      BY <2>1, <2>3 DEF PoolEnqueue, NotifyOne, Woken, Asleep, TypeOK
    <2> QED BY <1>1, <2>2, <2>3
  <1>2. ASSUME NEW t \in Workers \cup Clients, LiteNotify(t) PROVE TypeOK'
    BY <1>2 DEF LiteNotify, NotifyOne, Woken, Asleep, TypeOK
  <1>3. ASSUME NEW w \in Workers, SpuriousWake(w) PROVE TypeOK'
    BY <1>3 DEF SpuriousWake, Woken, TypeOK
  <1>4. ASSUME NEW w \in Workers, LiteFetch(w) PROVE TypeOK'
    <2>1. CASE queue # <<>>
      BY <1>4, <2>1, PopTypes DEF LiteFetch, TypeOK
    <2>2. CASE queue = <<>>
      BY <1>4, <2>2 DEF LiteFetch, Goto, TypeOK
    <2> QED BY <2>1, <2>2
  <1>5. ASSUME NEW w \in Workers, PoolTest(w) PROVE TypeOK'
    BY <1>5 DEF PoolTest, Goto, TypeOK
  <1>6. ASSUME NEW w \in Workers, WaitPop(w) PROVE TypeOK'
    <2>1. CASE valid /\ queue # <<>>
      BY <1>6, <2>1, PopTypes DEF WaitPop, TypeOK
    <2>2. CASE ~(valid /\ queue # <<>>)
      BY <1>6, <2>2 DEF WaitPop, Goto, TypeOK
    <2> QED BY <2>1, <2>2
  <1>7. ASSUME NEW w \in Workers, Finish(w) PROVE TypeOK'
    <2>1. task[w] \in Tasks
      BY <1>7 DEF Finish, TypeOK
    <2> QED BY <1>7, <2>1 DEF Finish, TypeOK
  <1>8. CASE Cancel \/ LiteNotifyAll \/ Invalidate
    BY <1>8 DEF Cancel, LiteNotifyAll, Invalidate, NotifyAll, Woken, Asleep, TypeOK
  <1>9. CASE Join
    <2>1. queue' \in Seq(Tasks)
      BY <1>9, EmptySeq DEF Join
    <2> QED BY <1>9, <2>1 DEF Join, TypeOK
  <1>10. CASE UNCHANGED vars
    BY <1>10 DEF vars, TypeOK
  <1> QED BY <1>1, <1>2, <1>3, <1>4, <1>5, <1>6, <1>7, <1>8, <1>9, <1>10 DEF Next

LEMMA ControlInit == PoolAssumption /\ Init => Control
  BY TypeInit DEF Init, Control, NotifiersInside, FlagsFollow, NoSleepOverWork, LeavesNoWork

LEMMA ControlNext == PoolAssumption /\ Control /\ [Next]_vars => Control'
  <1> SUFFICES ASSUME PoolAssumption, Control, [Next]_vars PROVE Control'
    OBVIOUS
  <1>0. TypeOK'
    BY TypeNext DEF Control
  <1> DEFINE Rest == NotifiersInside /\ FlagsFollow /\ NoSleepOverWork /\ LeavesNoWork
  <1> SUFFICES Rest'
    BY <1>0 DEF Control
  <1> USE DEF PoolAssumption, Control, TypeOK, NotifiersInside, FlagsFollow,
              NoSleepOverWork, LeavesNoWork, Asleep
  <1>1. ASSUME NEW t \in Workers \cup Clients, LiteEnqueue(t) PROVE Rest'
    BY <1>1 DEF LiteEnqueue, MayEnqueue
  <1>2. ASSUME NEW t \in Workers \cup Clients, PoolEnqueue(t) PROVE Rest'
    BY <1>2 DEF PoolEnqueue, MayEnqueue, NotifyOne, Woken
  <1>3. ASSUME NEW t \in Workers \cup Clients, LiteNotify(t) PROVE Rest'
    BY <1>3 DEF LiteNotify, NotifyOne, Woken
  <1>4. ASSUME NEW w \in Workers, SpuriousWake(w) PROVE Rest'
    BY <1>4 DEF SpuriousWake, Woken
  <1>5. ASSUME NEW w \in Workers, LiteFetch(w) PROVE Rest'
    BY <1>5 DEF LiteFetch, Pop, Goto
  <1>6. ASSUME NEW w \in Workers, PoolTest(w) PROVE Rest'
    BY <1>6 DEF PoolTest, Goto
  <1>7. ASSUME NEW w \in Workers, WaitPop(w) PROVE Rest'
    BY <1>7 DEF WaitPop, Pop, Goto
  <1>8. ASSUME NEW w \in Workers, Finish(w) PROVE Rest'
    BY <1>8 DEF Finish
  <1>9. CASE Cancel
    BY <1>9 DEF Cancel
  <1>10. CASE LiteNotifyAll
    BY <1>10 DEF LiteNotifyAll, NotifyAll, Woken
  <1>11. CASE Invalidate
    BY <1>11 DEF Invalidate, NotifyAll, Woken
  <1>12. CASE Join
    BY <1>12 DEF Join
  <1>13. CASE UNCHANGED vars
    BY <1>13 DEF vars
  <1> QED BY <1>1, <1>2, <1>3, <1>4, <1>5, <1>6, <1>7, <1>8, <1>9, <1>10, <1>11,
             <1>12, <1>13 DEF Next
-----------------------------------------------------------------------------
(* Facts about the types that the accounts need again and again. *)
LEMMA TypeFacts ==
  ASSUME PoolAssumption, TypeOK
  PROVE  /\ queue \in Seq(Int) /\ Len(queue) \in Nat /\ accepted \in Nat
         /\ None \notin Tasks
         /\ \A w \in Workers : at[w] = "task" => task[w] \in Tasks
         /\ queue # <<>> => Len(queue) > 0
  <1>1. queue \in Seq(Tasks) /\ queue \in Seq(Int)
    BY DEF TypeOK, Tasks
  <1>2. Len(queue) \in Nat /\ (queue # <<>> => Len(queue) > 0)
    BY <1>1, LenProperties, EmptySeq
  <1>3. accepted \in Nat /\ None \notin Tasks
    BY DEF PoolAssumption, TypeOK, Tasks
  <1>4. \A w \in Workers : at[w] = "task" => task[w] \in Tasks
    BY DEF TypeOK
  <1> QED BY <1>1, <1>2, <1>3, <1>4

(* A task that is taken is the next one. *)
LEMMA PopSplit ==
  ASSUME PoolAssumption, TypeOK, Split, NEW w \in Workers, at[w] # "task",
         queue # <<>>, Pop(w), UNCHANGED <<accepted, future>>
  PROVE  /\ Split' /\ InHands' = InHands \cup {Begun + 1}
         /\ Ready' = Ready /\ Begun + 1 <= accepted
  <1>1. /\ queue \in Seq(Int) /\ Len(queue) \in Nat /\ accepted \in Nat /\ Len(queue) > 0
        /\ None \notin Tasks
    BY TypeFacts
  <1>2. Head(queue) = queue[1] /\ queue[1] = Begun + 1
    BY <1>1 DEF Split
  <1>3. Begun + 1 \in Tasks /\ Begun + 1 <= accepted
    BY <1>1 DEF Begun, Split, TypeOK, PoolAssumption, Tasks
  <1>4. /\ task' = [task EXCEPT ![w] = Begun + 1] /\ at' = [at EXCEPT ![w] = "task"]
        /\ task[w] = None /\ queue' = Tail(queue)
    BY <1>2 DEF Pop, TypeOK
  <1>5. InHands' = InHands \cup {Begun + 1}
    BY <1>1, <1>3, <1>4 DEF InHands, TypeOK
  <1>6. Ready' = Ready
    BY DEF Ready
  <1>7. Len(queue') = Len(queue) - 1 /\ \A i \in 1..Len(queue') : queue'[i] = queue[i + 1]
    BY <1>1, <1>4, HeadTailProperties
  <1>8. Begun' = Begun + 1 /\ Begun' \in Nat
    BY <1>1, <1>7 DEF Begun, Split
  <1>9. ASSUME NEW i \in 1..Len(queue') PROVE queue'[i] = Begun' + i
    <2>1. i + 1 \in 1..Len(queue) /\ queue'[i] = queue[i + 1]
      BY <1>1, <1>7
    <2>2. queue[i + 1] = Begun + (i + 1)
      BY <2>1 DEF Split
    <2> QED BY <1>8, <2>1, <2>2 DEF Split
  <1>10. /\ InHands' \cup Ready' = 1..Begun' /\ InHands' \cap Ready' = {}
    BY <1>5, <1>6, <1>8 DEF Split
  <1>11. ASSUME NEW u \in Workers, NEW v \in Workers, task'[u] = task'[v], at'[u] = "task"
         PROVE  u = v
    <2>1. Begun + 1 \notin InHands
      BY DEF Split
    <2>2. \A x \in Workers : task[x] # Begun + 1
      BY <1>3, <2>1 DEF InHands
    <2> QED BY <1>4, <1>11, <2>2 DEF Split, TypeOK
  <1> QED BY <1>3, <1>5, <1>6, <1>8, <1>9, <1>10, <1>11 DEF Split

(* A task that is accepted goes behind all others. *)
LEMMA PushSplit ==
  ASSUME PoolAssumption, TypeOK, Split, accepted < MaxTasks, Push, UNCHANGED task,
         \A w \in Workers : at'[w] = "task" <=> at[w] = "task"
  PROVE  Split' /\ InHands' = InHands /\ Ready' = Ready
  <1>1. /\ queue \in Seq(Int) /\ Len(queue) \in Nat /\ accepted \in Nat
    BY TypeFacts
  <1>2. accepted' = accepted + 1 /\ queue' = Append(queue, accepted + 1)
        /\ future' = [future EXCEPT ![accepted + 1] = "pending"]
    BY DEF Push
  <1>3. /\ Len(queue') = Len(queue) + 1
        /\ \A i \in 1..Len(queue) : queue'[i] = queue[i]
        /\ queue'[Len(queue) + 1] = accepted + 1
    BY <1>1, <1>2, AppendFacts
  <1>4. Begun' = Begun /\ Begun \in Nat
    BY <1>1, <1>2, <1>3 DEF Begun, Split
  <1>5. ASSUME NEW i \in 1..Len(queue') PROVE queue'[i] = Begun' + i
    <2>1. CASE i = Len(queue) + 1
      BY <1>1, <1>3, <1>4, <2>1 DEF Begun
    <2>2. CASE i # Len(queue) + 1
      <3>1. i \in 1..Len(queue)
        BY <1>1, <1>3, <2>2
      <3> QED BY <1>3, <1>4, <3>1 DEF Split
    <2> QED BY <2>1, <2>2
  <1>6. InHands' = InHands
    BY DEF InHands
  <1>7. Ready' = Ready
    <2>1. accepted + 1 \notin Ready
      <3>1. Ready \subseteq 1..Begun /\ Begun <= accepted
        BY <1>1 DEF Split, Begun
      <3> QED BY <1>1, <1>4, <3>1
    <2>2. accepted + 1 \in Tasks
      BY <1>1 DEF Tasks, PoolAssumption
    <2> QED BY <1>2, <2>1, <2>2 DEF Ready, TypeOK
  <1> QED BY <1>4, <1>5, <1>6, <1>7 DEF Split

(* A task that ends goes from the hands of its one worker to those ready.   *)
LEMMA FinishSplit ==
  ASSUME PoolAssumption, TypeOK, Split, NEW w \in Workers, Finish(w)
  PROVE  /\ Split' /\ task[w] \in InHands
         /\ InHands' = InHands \ {task[w]} /\ Ready' = Ready \cup {task[w]}
  <1>1. task[w] \in Tasks /\ None \notin Tasks /\ at[w] = "task"
    BY TypeFacts DEF Finish
  <1>2. /\ task' = [task EXCEPT ![w] = None] /\ UNCHANGED <<queue, accepted>>
        /\ future' = [future EXCEPT ![task[w]] = "ready"]
        /\ \A v \in Workers : at'[v] = "task" => v # w /\ at[v] = "task"
    BY DEF Finish, TypeOK
  <1>3. task[w] \in InHands
    BY <1>1 DEF InHands
  <1>4. \A v \in Workers : task[v] = task[w] => v = w
    BY <1>1 DEF Split
  <1>5. InHands' = InHands \ {task[w]}
    BY <1>1, <1>2, <1>4 DEF InHands, TypeOK
  <1>6. Ready' = Ready \cup {task[w]}
    BY <1>1, <1>2 DEF Ready, TypeOK
  <1>7. Begun' = Begun
    BY <1>2 DEF Begun
  <1>8. InHands' \cup Ready' = 1..Begun' /\ InHands' \cap Ready' = {}
    BY <1>3, <1>5, <1>6, <1>7 DEF Split
  <1>9. \A u, v \in Workers : task'[u] = task'[v] /\ at'[u] = "task" => u = v
    BY <1>1, <1>2 DEF Split, TypeOK
  <1> QED BY <1>2, <1>3, <1>5, <1>6, <1>7, <1>8, <1>9 DEF Split

LEMMA AccountInit == PoolAssumption /\ Init => Account
  <1> SUFFICES ASSUME PoolAssumption, Init PROVE Split
    BY DEF Account
  <1>1. Len(queue) = 0 /\ accepted = 0
    BY EmptySeq DEF Init
  <1>2. InHands = {} /\ Ready = {}
    BY DEF Init, PoolAssumption, InHands, Ready, Tasks
  <1> QED BY <1>1, <1>2 DEF Init, Split, Begun

LEMMA AccountNext == PoolAssumption /\ Control /\ Account /\ [Next]_vars => Account'
  <1> SUFFICES ASSUME PoolAssumption, Control, Account, [Next]_vars, life' # "dead"
               PROVE  Split'
    BY DEF Account
  <1> USE DEF Control
  <1>0. Split
    <2>1. life # "dead"
      BY DEF Next, LiteEnqueue, LiteNotify, PoolEnqueue, SpuriousWake, LiteFetch, PoolTest,
             WaitPop, Finish, Cancel, LiteNotifyAll, Invalidate, Join, vars
    <2> QED BY <2>1 DEF Account
  <1>1. ASSUME NEW t \in Workers \cup Clients, LiteEnqueue(t) PROVE Split'
    BY <1>0, <1>1, PushSplit DEF LiteEnqueue, MayEnqueue
  <1>2. ASSUME NEW t \in Workers \cup Clients, PoolEnqueue(t) PROVE Split'
    <2>1. \A w \in Workers : at'[w] = "task" <=> at[w] = "task"
      BY <1>2 DEF PoolEnqueue, NotifyOne, Woken, Asleep, TypeOK
    <2> QED BY <1>0, <1>2, <2>1, PushSplit DEF PoolEnqueue, MayEnqueue
  <1>3. ASSUME NEW w \in Workers, LiteFetch(w) \/ WaitPop(w), Pop(w) PROVE Split'
    <2>1. queue # <<>>
      <3>1. CASE LiteFetch(w)
        BY <1>3, <3>1 DEF LiteFetch, Goto, Pop, TypeOK
      <3>2. CASE WaitPop(w)
        BY <1>3, <3>2 DEF WaitPop, Goto, Pop, TypeOK
      <3> QED BY <1>3, <3>1, <3>2
    <2> QED BY <1>0, <1>3, <2>1, PopSplit DEF LiteFetch, WaitPop
  <1>4. ASSUME NEW w \in Workers, Finish(w) PROVE Split'
    BY <1>0, <1>4, FinishSplit
  <1>5. ASSUME UNCHANGED <<queue, accepted, task, future>>,
               \A w \in Workers : at'[w] = "task" => at[w] = "task"
        PROVE  Split'
    BY <1>0, <1>5 DEF Split, Begun, InHands, Ready
  <1>6. ASSUME NEW w \in Workers, LiteFetch(w) \/ WaitPop(w), ~Pop(w) PROVE Split'
    BY <1>5, <1>6 DEF LiteFetch, WaitPop, Goto, TypeOK
  <1>7. CASE \/ \E t \in Workers \cup Clients : LiteNotify(t)
             \/ \E w \in Workers : SpuriousWake(w)
             \/ Cancel \/ LiteNotifyAll \/ Invalidate \/ UNCHANGED vars
    BY <1>5, <1>7 DEF LiteNotify, NotifyOne, SpuriousWake, Cancel, LiteNotifyAll,
                      Invalidate, NotifyAll, Woken, Asleep, vars, TypeOK
  <1>8. CASE Join
    BY <1>8 DEF Join
  <1>9. ASSUME NEW w \in Workers, PoolTest(w) PROVE Split'
    BY <1>5, <1>9 DEF PoolTest, Goto, TypeOK
  <1> QED BY <1>1, <1>2, <1>3, <1>4, <1>6, <1>7, <1>8, <1>9 DEF Next
-----------------------------------------------------------------------------
IInv == Control /\ Account

LEMMA IInvAlways == Spec => []IInv
  <1>1. Init => IInv
    BY PoolAssumption, ControlInit, AccountInit DEF IInv
  <1>2. IInv /\ [Next]_vars => IInv'
    BY PoolAssumption, ControlNext, AccountNext DEF IInv
  <1> QED BY <1>1, <1>2, PTL DEF Spec

(* Every variable keeps its type, in either pool. *)
THEOREM PoolTypeOK == Spec => []TypeOK
  <1>1. IInv => TypeOK
    BY DEF IInv, Control
  <1> QED BY <1>1, IInvAlways, PTL

(* Work never waits while all workers sleep, unless somebody is about to    *)
(* notify one of them.                                                      *)
THEOREM NoNotificationIsLost == Spec => []NoSleepOverWork
  <1>1. IInv => NoSleepOverWork
    BY DEF IInv, Control
  <1> QED BY <1>1, IInvAlways, PTL

(* A worker leaves only a cancelled pool, and a thread_pool_lite only when  *)
(* there is and will be nothing to do.                                      *)
THEOREM WorkersLeaveNothing == Spec => []LeavesNoWork
  <1>1. IInv => LeavesNoWork
    BY DEF IInv, Control
  <1> QED BY <1>1, IInvAlways, PTL
-----------------------------------------------------------------------------
(* Both pools implement TaskPool: tasks start in the order in which they    *)
(* were accepted, each on one worker, and thread_pool_lite is not gone      *)
(* before all of them have ended.                                           *)
THEOREM PoolsImplementTaskPool == Spec => KeepsPromise
  <1>1. Init => Promise!Init
    <2> SUFFICES ASSUME Init PROVE Promise!Init
      OBVIOUS
    <2>1. InHands = {} /\ Ready = {}
      BY PoolAssumption DEF PoolAssumption, Init, InHands, Ready, Tasks
    <2> QED BY <2>1 DEF Init, Promise!Init
  <1>2. IInv /\ [Next]_vars => [Promise!Next]_<<accepted, InHands, Ready, kind = "pool", life = "dead">>
    <2> SUFFICES ASSUME IInv, [Next]_vars
                 PROVE  Promise!Next \/ UNCHANGED <<accepted, InHands, Ready, kind = "pool", life = "dead">>
      OBVIOUS
    <2> USE PoolAssumption DEF IInv, Control
    <2>0. life # "dead" => Split
      BY DEF Account
    <2>1. ASSUME NEW t \in Workers \cup Clients, LiteEnqueue(t) \/ PoolEnqueue(t)
          PROVE  Promise!Accept
      <3>1. life # "dead" /\ life' # "dead"
        BY <2>1 DEF LiteEnqueue, PoolEnqueue, MayEnqueue, FlagsFollow
      <3>2. \A w \in Workers : at'[w] = "task" <=> at[w] = "task"
        BY <2>1 DEF LiteEnqueue, PoolEnqueue, NotifyOne, Woken, Asleep, TypeOK
      <3>3. InHands' = InHands /\ Ready' = Ready
        BY <2>0, <2>1, <3>1, <3>2, PushSplit DEF LiteEnqueue, PoolEnqueue, MayEnqueue
      <3> QED BY <2>1, <3>1, <3>3 DEF Promise!Accept, LiteEnqueue, PoolEnqueue, Push
    <2>2. ASSUME NEW w \in Workers, LiteFetch(w) \/ WaitPop(w), Pop(w), queue # <<>>
          PROVE  Promise!Start
      <3>1. life # "dead" /\ life' # "dead" /\ at[w] # "task"
            /\ UNCHANGED <<accepted, future, kind>>
        BY <2>2 DEF LiteFetch, WaitPop, FlagsFollow
      <3>2. /\ InHands' = InHands \cup {Begun + 1}
            /\ Ready' = Ready /\ Begun + 1 <= accepted
        BY <2>0, <2>2, <3>1, PopSplit
      <3>3. Begun + 1 \in 1..accepted
        BY <2>0, <3>1, <3>2, TypeFacts DEF Split
      <3>4. InHands \cup Ready = 1..((Begun + 1) - 1)
        BY <2>0, <3>1 DEF Split
      <3>5. ((kind = "pool") <=> (kind = "pool")') /\ ~(life = "dead") /\ ~(life = "dead")'
        BY <3>1
      <3> QED BY <3>1, <3>2, <3>3, <3>4, <3>5 DEF Promise!Start
    <2>3. ASSUME NEW w \in Workers, Finish(w) PROVE Promise!Finish
      <3>1. life # "dead"
        BY <2>3 DEF Finish, FlagsFollow
      <3>2. /\ task[w] \in InHands
            /\ InHands' = InHands \ {task[w]} /\ Ready' = Ready \cup {task[w]}
        BY <2>0, <2>3, <3>1, FinishSplit
      <3> QED BY <2>3, <3>2 DEF Promise!Finish, Finish
    <2>4. CASE Join
      <3>1. life # "dead" /\ life' = "dead" /\ Split /\ \A w \in Workers : at[w] = "exited"
        BY <2>0, <2>4 DEF Join
      <3>2. InHands = {}
        BY <3>1, TypeFacts DEF InHands, TypeOK
      <3>3. InHands' = InHands
        BY <2>4 DEF Join, InHands
      <3>4. Ready' = Ready
        <4>1. ASSUME NEW i \in DOMAIN queue PROVE queue[i] \notin Ready
          <5>1. /\ i \in 1..Len(queue) /\ Len(queue) \in Nat
            BY TypeFacts, LenProperties
          <5>2. queue[i] = Begun + i
            BY <3>1, <5>1 DEF Split
          <5> QED BY <3>1, <5>1, <5>2 DEF Split
        <4> QED BY <2>4, <4>1 DEF Join, Ready, TypeOK
      <3>5. kind = "pool" \/ Ready = 1..accepted
        <4>1. CASE kind = "lite"
          <5>1. queue = <<>>
            BY <3>1, <4>1 DEF LeavesNoWork, PoolAssumption
          <5>2. Begun = accepted
            BY <5>1, TypeFacts, EmptySeq DEF Begun
          <5> QED BY <3>1, <3>2, <5>2 DEF Split
        <4> QED BY <4>1 DEF TypeOK
      <3>6. UNCHANGED <<kind, accepted>>
        BY <2>4 DEF Join
      <3> QED BY <3>1, <3>2, <3>3, <3>4, <3>5, <3>6 DEF Promise!Vanish, Promise!Next
    <2>5. ASSUME NEW w \in Workers, LiteFetch(w) \/ WaitPop(w), queue = <<>> \/ ~Pop(w)
          PROVE  UNCHANGED <<accepted, InHands, Ready, kind, life>>
      BY <2>5 DEF LiteFetch, WaitPop, Goto, InHands, Ready
    <2>6. CASE \/ \E t \in Workers \cup Clients : LiteNotify(t)
               \/ \E w \in Workers : SpuriousWake(w)
               \/ Cancel \/ LiteNotifyAll \/ Invalidate \/ UNCHANGED vars
      BY <2>6 DEF LiteNotify, SpuriousWake, Cancel, LiteNotifyAll, Invalidate, vars,
                  InHands, Ready
    <2>7. ASSUME NEW w \in Workers, PoolTest(w)
          PROVE  UNCHANGED <<accepted, InHands, Ready, kind, life>>
      BY <2>7 DEF PoolTest, Goto, InHands, Ready
    <2> QED BY <2>1, <2>2, <2>3, <2>4, <2>5, <2>6, <2>7 DEF Next, Promise!Next
  <1> QED BY <1>1, <1>2, IInvAlways, PTL DEF Spec, KeepsPromise, Promise!Spec, Promise!vars
-----------------------------------------------------------------------------
(* A worker goes to sleep in a pool that nobody has begun to destroy, and   *)
(* the destructor wakes all of them.                                        *)
SleepsAlive ==
    /\ life \in {"join", "dead"} => Asleep = {}
    /\ kind = "pool" /\ life \in {"join", "dead"} => ~valid

Busy == {w \in Workers : at[w] \in {"test", "fetch", "task"}}

(* Where there is work that will be done, or a destructor that joins, there *)
(* is a worker that can go on, or a thread that is about to notify one.     *)
PoolGetsOn ==
    /\ queue # <<>> /\ (kind = "lite" \/ life = "alive") => Busy \cup notifying # {}
    /\ life = "join" /\ (\E w \in Workers : at[w] # "exited") => Busy # {}

(* The future of a task is pending from its acceptance until the task has   *)
(* run; only thread_pool breaks a promise, and only when it is gone.        *)
FuturesFollow ==
    /\ \A k \in Tasks : future[k] = "none" <=> k > accepted
    /\ life # "dead" \/ kind = "lite" => \A k \in Tasks : future[k] # "broken"

(* Nobody who holds a future of a pool that is gone waits for it.           *)
NoFutureIsForgotten ==
    life = "dead" => \A k \in 1..accepted :
                       future[k] = "ready" \/ (kind = "pool" /\ future[k] = "broken")

LEMMA SleepsAliveNext == IInv /\ SleepsAlive /\ [Next]_vars => SleepsAlive'
  <1> SUFFICES ASSUME IInv, SleepsAlive, [Next]_vars PROVE SleepsAlive'
    OBVIOUS
  <1> USE PoolAssumption DEF IInv, Control, TypeOK, FlagsFollow, SleepsAlive, Asleep
  <1>1. ASSUME NEW t \in Workers \cup Clients, LiteEnqueue(t) \/ LiteNotify(t) \/ PoolEnqueue(t)
        PROVE  SleepsAlive'
    BY <1>1 DEF LiteEnqueue, LiteNotify, PoolEnqueue, NotifyOne, Woken
  <1>2. ASSUME NEW w \in Workers, SpuriousWake(w) \/ PoolTest(w) \/ Finish(w)
        PROVE  SleepsAlive'
    BY <1>2 DEF SpuriousWake, Woken, PoolTest, Goto, Finish
  <1>3. ASSUME NEW w \in Workers, LiteFetch(w) PROVE SleepsAlive'
    BY <1>3 DEF LiteFetch, Pop, Goto
  <1>4. ASSUME NEW w \in Workers, WaitPop(w) PROVE SleepsAlive'
    BY <1>4 DEF WaitPop, Pop, Goto
  <1>5. CASE Cancel \/ Join \/ UNCHANGED vars
    BY <1>5 DEF Cancel, Join, vars
  <1>6. CASE LiteNotifyAll \/ Invalidate
    BY <1>6 DEF LiteNotifyAll, Invalidate, NotifyAll, Woken
  <1> QED BY <1>1, <1>2, <1>3, <1>4, <1>5, <1>6 DEF Next

LEMMA FuturesFollowNext == IInv /\ FuturesFollow /\ [Next]_vars => FuturesFollow'
  <1> SUFFICES ASSUME IInv, FuturesFollow, [Next]_vars PROVE FuturesFollow'
    OBVIOUS
  <1> USE PoolAssumption DEF IInv, Control, FuturesFollow
  <1>0. accepted \in Nat /\ future \in [Tasks -> {"none", "pending", "ready", "broken"}]
    BY DEF TypeOK
  <1>1. ASSUME NEW t \in Workers \cup Clients, LiteEnqueue(t) \/ PoolEnqueue(t)
        PROVE  FuturesFollow'
    <2>1. /\ accepted' = accepted + 1 /\ UNCHANGED <<kind, life>>
          /\ future' = [future EXCEPT ![accepted + 1] = "pending"]
      BY <1>1 DEF LiteEnqueue, PoolEnqueue, Push
    <2> QED BY <1>0, <2>1 DEF Tasks
  <1>2. ASSUME NEW w \in Workers, Finish(w) PROVE FuturesFollow'
    <2>1. task[w] \in 1..accepted
      <3>1. life # "dead"
        BY <1>2 DEF Finish, FlagsFollow
      <3>2. task[w] \in InHands
        BY <1>2, <3>1, FinishSplit DEF Account
      <3>3. Begun \in Nat /\ InHands \subseteq 1..Begun
        BY <3>1 DEF Account, Split
      <3>4. Begun <= accepted
        BY <1>0, TypeFacts DEF Begun
      <3>5. task[w] \in 1..Begun
        BY <3>2, <3>3
      <3> QED BY <1>0, <3>3, <3>4, <3>5
    <2>2. future' = [future EXCEPT ![task[w]] = "ready"] /\ UNCHANGED <<kind, life, accepted>>
      BY <1>2 DEF Finish
    <2> QED BY <1>0, <2>1, <2>2 DEF Tasks
  <1>3. CASE Join
    <2>1. kind = "lite" => queue = <<>>
      BY <1>3 DEF Join, LeavesNoWork, PoolAssumption
    <2>2. \A i \in DOMAIN queue : queue[i] \in 1..accepted
      <3>1. ASSUME NEW i \in DOMAIN queue PROVE queue[i] \in 1..accepted
        <4>1. i \in 1..Len(queue) /\ Len(queue) \in Nat /\ accepted \in Nat
          BY TypeFacts, LenProperties
        <4>2. Begun \in Nat /\ queue[i] = Begun + i
          BY <1>3, <4>1 DEF Join, Account, Split
        <4> QED BY <4>1, <4>2 DEF Begun
      <3> QED BY <3>1
    <2>3. \A k \in Tasks : \/ future'[k] = future[k]
                            \/ (future'[k] = "broken" /\ kind # "lite" /\ k \in 1..accepted)
      BY <1>0, <1>3, <2>1, <2>2 DEF Join
    <2>4. accepted' = accepted /\ life' = "dead" /\ life = "join" /\ kind' = kind
      BY <1>3 DEF Join
    <2> QED BY <1>0, <2>3, <2>4 DEF Tasks
  <1>4. ASSUME UNCHANGED <<kind, accepted, future>>, life = "dead" => life' = "dead"
        PROVE  FuturesFollow'
    BY <1>4
  <1>5. ASSUME NEW w \in Workers, SpuriousWake(w) \/ LiteFetch(w) \/ PoolTest(w) \/ WaitPop(w)
        PROVE  FuturesFollow'
    BY <1>4, <1>5 DEF SpuriousWake, LiteFetch, PoolTest, WaitPop
  <1>6. CASE \/ \E t \in Workers \cup Clients : LiteNotify(t)
             \/ Cancel \/ LiteNotifyAll \/ Invalidate \/ UNCHANGED vars
    BY <1>4, <1>6 DEF LiteNotify, Cancel, LiteNotifyAll, Invalidate, vars
  <1> QED BY <1>1, <1>2, <1>3, <1>5, <1>6 DEF Next

LEMMA ForgottenNext ==
  IInv /\ FuturesFollow /\ NoFutureIsForgotten /\ [Next]_vars => NoFutureIsForgotten'
  <1> SUFFICES ASSUME IInv, FuturesFollow, NoFutureIsForgotten, [Next]_vars, life' = "dead",
                      NEW k \in 1..accepted'
               PROVE  future'[k] = "ready" \/ (kind' = "pool" /\ future'[k] = "broken")
    BY DEF NoFutureIsForgotten
  <1> USE PoolAssumption DEF IInv, Control
  <1>1. CASE Join
    <2>1. life # "dead" /\ Split /\ \A w \in Workers : at[w] = "exited"
      BY <1>1 DEF Join, Account
    <2>2. /\ k \in Tasks /\ k \in 1..accepted /\ accepted \in Nat /\ Len(queue) \in Nat
          /\ accepted <= MaxTasks
      BY <1>1, TypeFacts DEF Join, TypeOK, Tasks, PoolAssumption
    <2>3. InHands = {}
      BY <2>1, TypeFacts DEF InHands, TypeOK
    <2>4. CASE k \in Ready
      <3>1. ASSUME NEW i \in DOMAIN queue PROVE queue[i] # k
        <4>1. i \in 1..Len(queue)
          BY TypeFacts, LenProperties
        <4>2. queue[i] = Begun + i /\ k \in 1..Begun /\ Begun \in Nat
          BY <2>1, <2>4, <4>1 DEF Split
        <4> QED BY <4>1, <4>2
      <3> QED BY <1>1, <2>2, <2>4, <3>1 DEF Join, Ready, TypeOK
    <2>5. CASE k \notin Ready
      <3>1. k \notin 1..Begun /\ Begun \in Nat
        BY <2>1, <2>3, <2>5 DEF Split
      <3>2. k - Begun \in 1..Len(queue)
        BY <2>2, <3>1 DEF Begun
      <3>3. k - Begun \in DOMAIN queue /\ queue[k - Begun] = Begun + (k - Begun)
        BY <2>1, <3>2, TypeFacts, LenProperties DEF Split
      <3>4. queue[k - Begun] = k
        BY <2>2, <3>1, <3>3
      <3>5. future'[k] = "broken"
        BY <1>1, <2>2, <3>3, <3>4 DEF Join
      <3>6. kind = "pool"
        <4>1. CASE kind = "lite"
          <5>1. queue = <<>>
            BY <2>1, <4>1 DEF LeavesNoWork, PoolAssumption
          <5> QED BY <3>2, <5>1, EmptySeq
        <4> QED BY <4>1 DEF TypeOK
      <3> QED BY <1>1, <3>5, <3>6 DEF Join
    <2> QED BY <2>4, <2>5
  <1>2. CASE life = "dead"
    <2>1. \A w \in Workers : at[w] = "exited"
      BY <1>2 DEF FlagsFollow
    <2>2. UNCHANGED <<kind, accepted, future>>
      <3>1. ASSUME NEW t \in Workers \cup Clients, LiteEnqueue(t) \/ PoolEnqueue(t) PROVE FALSE
        BY <1>2, <2>1, <3>1 DEF LiteEnqueue, PoolEnqueue, MayEnqueue
      <3>2. ASSUME NEW w \in Workers, Finish(w) PROVE FALSE
        BY <2>1, <3>2 DEF Finish
      <3>3. CASE Cancel \/ LiteNotifyAll \/ Invalidate \/ Join
        BY <1>2, <3>3 DEF Cancel, LiteNotifyAll, Invalidate, Join
      <3>4. ASSUME NEW w \in Workers, SpuriousWake(w) \/ LiteFetch(w) \/ PoolTest(w) \/ WaitPop(w)
            PROVE  UNCHANGED <<kind, accepted, future>>
        BY <3>4 DEF SpuriousWake, LiteFetch, PoolTest, WaitPop
      <3>5. CASE (\E t \in Workers \cup Clients : LiteNotify(t)) \/ UNCHANGED vars
        BY <3>5 DEF LiteNotify, vars
      <3> QED BY <3>1, <3>2, <3>3, <3>4, <3>5 DEF Next
    <2> QED BY <1>2, <2>2 DEF NoFutureIsForgotten
  <1>3. life = "dead" \/ Join
    BY DEF Next, LiteEnqueue, LiteNotify, PoolEnqueue, SpuriousWake, LiteFetch, PoolTest,
           WaitPop, Finish, Cancel, LiteNotifyAll, Invalidate, vars
  <1> QED BY <1>1, <1>2, <1>3

LEMMA SteadyAlways == Spec => [](IInv /\ SleepsAlive /\ FuturesFollow /\ NoFutureIsForgotten)
  <1>1. Init => SleepsAlive /\ FuturesFollow /\ NoFutureIsForgotten
    BY PoolAssumption
       DEF Init, SleepsAlive, FuturesFollow, NoFutureIsForgotten, PoolAssumption, Tasks
  <1> QED BY <1>1, IInvAlways, SleepsAliveNext, FuturesFollowNext, ForgottenNext, PTL DEF Spec

(* A task that waits always has a worker that is awake, or a thread about   *)
(* to wake one, and a destructor that joins always a worker that goes on:   *)
(* what DestructionEnds and EveryTaskRuns say, up to fairness.              *)
THEOREM SomebodyWorks == Spec => []PoolGetsOn
  <1>1. IInv /\ SleepsAlive => PoolGetsOn
    <2> SUFFICES ASSUME IInv, SleepsAlive PROVE PoolGetsOn
      OBVIOUS
    <2> USE PoolAssumption DEF IInv, Control, TypeOK, PoolAssumption, Asleep, Busy
    <2>1. ASSUME queue # <<>>, kind = "lite" \/ life = "alive", notifying = {} PROVE Busy # {}
      <3>1. \A w \in Workers : at[w] # "exited"
        BY <2>1 DEF LeavesNoWork, FlagsFollow
      <3>2. PICK w \in Workers : at[w] # "asleep"
        BY <2>1 DEF NoSleepOverWork
      <3> QED BY <3>1, <3>2
    <2>2. ASSUME life = "join", NEW w \in Workers, at[w] # "exited" PROVE Busy # {}
      BY <2>2 DEF SleepsAlive
    <2> QED BY <2>1, <2>2 DEF PoolGetsOn
  <1> QED BY <1>1, SteadyAlways, PTL

(* When a pool is gone, every future it gave out has its value, or, from    *)
(* thread_pool only, a broken promise: nobody waits for it for ever.        *)
THEOREM FuturesAreSettled == Spec => []NoFutureIsForgotten
  BY SteadyAlways, PTL

(* When the destructor has returned, no worker, no task and no thread that  *)
(* was inside enqueue() touches the pool.                                   *)
THEOREM NoStepWhenDead == Spec => [][life # "dead"]_vars
  <1>1. IInv /\ [Next]_vars => [life # "dead"]_vars
    <2> SUFFICES ASSUME Control, life = "dead", Next PROVE FALSE
      BY DEF IInv
    <2> USE DEF Control, NotifiersInside, FlagsFollow, TypeOK
    <2>1. notifying = {} /\ \A w \in Workers : at[w] = "exited"
      OBVIOUS
    <2>2. ASSUME NEW t \in Workers \cup Clients, LiteEnqueue(t) \/ LiteNotify(t) \/ PoolEnqueue(t)
          PROVE  FALSE
      BY <2>1, <2>2 DEF LiteEnqueue, LiteNotify, PoolEnqueue, MayEnqueue
    <2>3. ASSUME NEW w \in Workers,
                 SpuriousWake(w) \/ LiteFetch(w) \/ PoolTest(w) \/ WaitPop(w) \/ Finish(w)
          PROVE  FALSE
      BY <2>1, <2>3 DEF SpuriousWake, LiteFetch, PoolTest, WaitPop, Finish
    <2> QED BY <2>2, <2>3 DEF Next, Cancel, LiteNotifyAll, Invalidate, Join
  <1> QED BY <1>1, IInvAlways, PTL DEF Spec
=============================================================================

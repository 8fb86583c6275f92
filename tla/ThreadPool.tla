----------------------------- MODULE ThreadPool -----------------------------
(***************************************************************************)
(* The two pools of thread_pool.hpp.  thread_pool_lite keeps its own queue *)
(* and drains it before it dies; thread_pool is built on thread_safe_queue *)
(* and, destroyed, leaves behind what its workers have not begun.          *)
(*                                                                         *)
(* Every section under the mutex of the queue is one step here; a worker   *)
(* that finds nothing to do goes to sleep on the condition variable in the *)
(* same step, as cv.wait does.  Tasks are numbered as they are accepted; a *)
(* task may itself enqueue others, also while the pool is being destroyed. *)
(***************************************************************************)
EXTENDS Naturals, Sequences, FiniteSets

CONSTANTS Workers,    \* the threads of the pool
          Clients,    \* the threads that enqueue
          None,
          MaxTasks    \* bound: accepted tasks

ASSUME PoolAssumption ==
    /\ Workers # {} /\ IsFiniteSet(Workers)
    /\ Workers \cap Clients = {}
    /\ MaxTasks \in Nat /\ None \notin Nat

VARIABLES kind,        \* which of the two classes it is
          queue,       \* _tasks, or the _queue of _task_queue
          cancelled,   \* _cancelled
          valid,       \* _task_queue._valid
          at,          \* where each worker stands
          task,        \* the task each worker executes
          notifying,   \* the threads between the push and notify_one
          life,        \* the destructor
          accepted, future

vars == <<kind, queue, cancelled, valid, at, task, notifying, life, accepted, future>>

Tasks == 1..MaxTasks

Init == /\ kind \in {"lite", "pool"}
        /\ queue = <<>> /\ cancelled = FALSE /\ valid = TRUE
        /\ at = [w \in Workers |-> IF kind = "lite" THEN "fetch" ELSE "test"]
        /\ task = [w \in Workers |-> None]
        /\ notifying = {}
        /\ life = "alive"
        /\ accepted = 0 /\ future = [k \in Tasks |-> "none"]
-----------------------------------------------------------------------------
(* condition_variable *)
Asleep == {w \in Workers : at[w] = "asleep"}

Woken(S) == [w \in Workers |-> IF w \in S THEN "fetch" ELSE at[w]]

NotifyOne == IF Asleep = {} THEN UNCHANGED at
                            ELSE \E w \in Asleep : at' = Woken({w})

NotifyAll == at' = Woken(Asleep)

SpuriousWake(w) ==
    /\ at[w] = "asleep"
    /\ at' = Woken({w})
    /\ UNCHANGED <<kind, queue, cancelled, valid, task, notifying, life, accepted, future>>
-----------------------------------------------------------------------------
(* enqueue() is called by a client of a live pool, or from inside a task.   *)
MayEnqueue(t) ==
    /\ t \notin notifying
    /\ \/ t \in Clients /\ life = "alive"
       \/ t \in Workers /\ at[t] = "task"
    /\ accepted < MaxTasks

Push ==
    /\ accepted' = accepted + 1
    /\ queue' = Append(queue, accepted')
    /\ future' = [future EXCEPT ![accepted'] = "pending"]

LiteEnqueueBug(t) ==    \* nobody is notified
    /\ kind = "lite" /\ MayEnqueue(t) /\ ~cancelled
    /\ Push
    /\ UNCHANGED <<kind, cancelled, valid, at, task, notifying, life>>

(* thread_pool_lite: an exception once cancelled; the condition variable is *)
(* notified after the mutex is released.                                    *)
LiteEnqueue(t) ==
    /\ kind = "lite" /\ MayEnqueue(t) /\ ~cancelled
    /\ Push
    /\ notifying' = notifying \cup {t}
    /\ UNCHANGED <<kind, cancelled, valid, at, task, life>>

LiteNotify(t) ==
    /\ t \in notifying
    /\ NotifyOne
    /\ notifying' = notifying \ {t}
    /\ UNCHANGED <<kind, queue, cancelled, valid, task, life, accepted, future>>

PoolEnqueueBug(t) ==
    /\ kind = "pool" /\ MayEnqueue(t)
    /\ Push
    /\ UNCHANGED <<kind, cancelled, valid, at, task, notifying, life>>

(* thread_pool: push() of the queue, which does not look at _valid. *)
PoolEnqueue(t) ==
    /\ kind = "pool" /\ MayEnqueue(t)
    /\ Push /\ NotifyOne
    /\ UNCHANGED <<kind, cancelled, valid, task, notifying, life>>
-----------------------------------------------------------------------------
PopBug(w) ==    \* a stack
    /\ task' = [task EXCEPT ![w] = queue[Len(queue)]]
    /\ queue' = SubSeq(queue, 1, Len(queue) - 1)
    /\ at' = [at EXCEPT ![w] = "task"]

Pop(w) ==
    /\ task' = [task EXCEPT ![w] = Head(queue)]
    /\ queue' = Tail(queue)
    /\ at' = [at EXCEPT ![w] = "task"]

Goto(w, l) == at' = [at EXCEPT ![w] = l] /\ UNCHANGED <<queue, task>>

(* The worker of thread_pool_lite leaves when there is nothing left to do.  *)
LiteFetch(w) ==
    /\ kind = "lite" /\ at[w] = "fetch"
    /\ CASE queue # <<>>               -> Pop(w)
         [] queue = <<>> /\ cancelled  -> Goto(w, "exited")
         [] queue = <<>> /\ ~cancelled -> Goto(w, "asleep")
    /\ UNCHANGED <<kind, cancelled, valid, notifying, life, accepted, future>>

(* thread_pool::worker(): the condition of its loop, and wait_pop(). *)
PoolTest(w) ==
    /\ kind = "pool" /\ at[w] = "test"
    /\ Goto(w, IF cancelled THEN "exited" ELSE "fetch")
    /\ UNCHANGED <<kind, cancelled, valid, notifying, life, accepted, future>>

WaitPop(w) ==
    /\ kind = "pool" /\ at[w] = "fetch"
    /\ CASE ~valid                    -> Goto(w, "test")
         [] valid /\ queue # <<>>     -> Pop(w)
         [] valid /\ queue = <<>>     -> Goto(w, "asleep")
    /\ UNCHANGED <<kind, cancelled, valid, notifying, life, accepted, future>>

FinishBug(w) ==    \* the worker keeps the task until it finds another
    /\ at[w] = "task" /\ w \notin notifying
    /\ at' = [at EXCEPT ![w] = IF kind = "lite" THEN "fetch" ELSE "test"]
    /\ future' = [future EXCEPT ![task[w]] = "ready"]
    /\ UNCHANGED <<kind, queue, cancelled, valid, task, notifying, life, accepted>>

(* The packaged task has returned or thrown: its future is ready. *)
Finish(w) ==
    /\ at[w] = "task" /\ w \notin notifying
    /\ at' = [at EXCEPT ![w] = IF kind = "lite" THEN "fetch" ELSE "test"]
    /\ future' = [future EXCEPT ![task[w]] = "ready"]
    /\ task' = [task EXCEPT ![w] = None]
    /\ UNCHANGED <<kind, queue, cancelled, valid, notifying, life, accepted>>
-----------------------------------------------------------------------------
(* The destructors; no client is inside the pool any more.  *)
Cancel ==
    /\ life = "alive" /\ notifying \cap Clients = {}
    /\ cancelled' = TRUE
    /\ life' = "notify"
    /\ UNCHANGED <<kind, queue, valid, at, task, notifying, accepted, future>>

LiteNotifyAll ==
    /\ kind = "lite" /\ life = "notify"
    /\ NotifyAll
    /\ life' = "join"
    /\ UNCHANGED <<kind, queue, cancelled, valid, task, notifying, accepted, future>>

InvalidateBug ==    \* notify_one
    /\ kind = "pool" /\ life = "notify"
    /\ valid' = FALSE
    /\ NotifyOne
    /\ life' = "join"
    /\ UNCHANGED <<kind, queue, cancelled, task, notifying, accepted, future>>

(* invalidate() *)
Invalidate ==
    /\ kind = "pool" /\ life = "notify"
    /\ valid' = FALSE
    /\ NotifyAll
    /\ life' = "join"
    /\ UNCHANGED <<kind, queue, cancelled, task, notifying, accepted, future>>

(* The workers are joined, and the queue dies: a task nobody executed       *)
(* breaks its promise.                                                      *)
Join ==
    /\ life = "join" /\ \A w \in Workers : at[w] = "exited"
    /\ life' = "dead"
    /\ queue' = <<>>
    /\ future' = [k \in Tasks |-> IF \E i \in DOMAIN queue : queue[i] = k
                                  THEN "broken" ELSE future[k]]
    /\ UNCHANGED <<kind, cancelled, valid, at, task, notifying, accepted>>
-----------------------------------------------------------------------------
Next == \/ \E t \in Workers \cup Clients :
             LiteEnqueue(t) \/ LiteNotify(t) \/ PoolEnqueue(t)
        \/ \E w \in Workers : \/ SpuriousWake(w) \/ LiteFetch(w)
                              \/ PoolTest(w) \/ WaitPop(w) \/ Finish(w)
        \/ Cancel \/ LiteNotifyAll \/ Invalidate \/ Join

Spec == Init /\ [][Next]_vars

(* A worker that is awake keeps running and its tasks end; a thread inside  *)
(* enqueue() and the destroying one get on.  Nobody has to enqueue or to    *)
(* destroy, and spurious wake-ups are not relied upon.                      *)
Running(w) == LiteFetch(w) \/ PoolTest(w) \/ WaitPop(w) \/ Finish(w)

Destroying == LiteNotifyAll \/ Invalidate \/ Join

FairSpec == /\ Spec /\ WF_vars(Destroying)
            /\ \A w \in Workers : WF_vars(Running(w))
            /\ \A t \in Workers \cup Clients : WF_vars(LiteNotify(t))
-----------------------------------------------------------------------------
TypeOK ==
    /\ kind \in {"lite", "pool"}
    /\ queue \in Seq(Tasks)
    /\ cancelled \in BOOLEAN /\ valid \in BOOLEAN
    /\ at \in [Workers -> {"test", "fetch", "asleep", "task", "exited"}]
    /\ task \in [Workers -> Tasks \cup {None}]
    /\ \A w \in Workers : task[w] = None <=> at[w] # "task"
    /\ notifying \subseteq Workers \cup Clients
    /\ life \in {"alive", "notify", "join", "dead"}
    /\ accepted \in 0..MaxTasks
    /\ future \in [Tasks -> {"none", "pending", "ready", "broken"}]

(* Tasks start in the order of their acceptance, one worker each, and       *)
(* thread_pool_lite is not gone before all of them have been executed.      *)
InHands == {k \in Tasks : \E w \in Workers : task[w] = k}
Ready == {k \in Tasks : future[k] = "ready"}

Promise == INSTANCE TaskPool
             WITH running <- InHands,
                  finished <- Ready,
                  drops <- kind = "pool",
                  gone <- life = "dead"

KeepsPromise == Promise!Spec

(* A notification is never lost: work is queued and everybody sleeps only   *)
(* while somebody is about to notify.                                       *)
NoSleepOverWork ==
    queue # <<>> /\ Asleep = Workers => notifying # {}

(* A worker leaves a cancelled pool only; thread_pool_lite then has an      *)
(* empty queue and gets no more work, so that nothing is left behind.       *)
LeavesNoWork ==
    \A w \in Workers :
      at[w] = "exited" => cancelled /\ (kind = "lite" => queue = <<>>)

(* Destruction ends: no worker sleeps through it. *)
DestructionEnds == life # "alive" ~> life = "dead"

(* Every accepted task is executed, unless thread_pool is destroyed first.  *)
EveryTaskRuns ==
    \A k \in Tasks : accepted >= k ~> \/ future[k] = "ready"
                                      \/ kind = "pool" /\ life # "alive"
=============================================================================

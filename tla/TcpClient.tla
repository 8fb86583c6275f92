------------------------------ MODULE TcpClient ------------------------------
(***************************************************************************)
(* tcp_client of sharp_tcp.hpp on the service of module IoService: one     *)
(* client, the thread of the application that connects, disconnects and    *)
(* destroys it, and the workers of the pool, on which its requests are     *)
(* answered and on which it disconnects itself when one fails.             *)
(***************************************************************************)
EXTENDS IoService

CONSTANTS Workers,      \* the threads of the pool
          App,          \* the thread of the application
          None,
          MaxRequests,  \* bound: async_read() and async_write()
          MaxConnects,  \* bound: connect()
          Careful       \* connect() only after the last connection is gone

ASSUME ClientAssumption ==
  /\ MaxRequests \in Nat /\ MaxConnects \in Nat
  /\ App \notin Workers /\ None \notin Workers \cup {"rd", "wr"}
  /\ Careful \in BOOLEAN

Threads == Workers \cup {App}

VARIABLES connected,  \* _is_connected
          open,       \* _socket has a file descriptor
          requests,   \* the lengths of _read_requests and _write_requests
          pc,         \* where each thread stands
          waits,      \* disconnect(true)
          task,       \* the direction whose task a worker executes
          life

VARIABLES asked, connects   \* counted for the bounds

clientVars == <<connected, open, requests, pc, waits, task, life, asked, connects>>

vars == <<serviceVars, clientVars>>

Init ==
  /\ ServiceInit
  /\ connected = FALSE /\ open = FALSE /\ requests = [d \in Dirs |-> 0]
  /\ pc = [t \in Threads |-> "idle"] /\ waits = FALSE
  /\ task = [w \in Workers |-> None]
  /\ life = "alive" /\ asked = 0 /\ connects = 0

Goto(t, place) == pc' = [pc EXCEPT ![t] = place]
-----------------------------------------------------------------------------
(* Nothing of the former connection is left: what disconnect(true) waits    *)
(* for.                                                                     *)
Settled == ~entry.there /\ \A w \in Workers : pc[w] = "idle"

(* connect() up to the flag; a socket that cannot connect changes nothing.  *)
Connect ==
  /\ life = "alive" /\ pc[App] = "idle" /\ ~connected /\ connects < MaxConnects
  /\ Careful => Settled
  /\ open' = TRUE /\ Track
  /\ connects' = connects + 1
  /\ Goto(App, "connect")
  /\ UNCHANGED <<connected, requests, waits, task, life, asked>>

Connected ==
  /\ pc[App] = "connect"
  /\ connected' = TRUE
  /\ Goto(App, "idle")
  /\ UNCHANGED <<serviceVars, open, requests, waits, task, life, asked, connects>>

(* async_read() and async_write(), of the application or of a callback.     *)
AsyncRequest(t, d) ==
  /\ pc[t] = IF t = App THEN "idle" ELSE "callback"
  /\ life = "alive" /\ connected /\ asked < MaxRequests
  /\ SetCallback(d, TRUE)
  /\ requests' = [requests EXCEPT ![d] = @ + 1]
  /\ asked' = asked + 1
  /\ UNCHANGED <<connected, open, pc, waits, task, life, connects>>
-----------------------------------------------------------------------------
(* disconnect() of the application, and ~tcp_client(), which waits.         *)
Disconnect(wait, then) ==
  /\ life = "alive" /\ pc[App] = "idle"
  /\ then = "dying" => wait
  /\ waits' = wait /\ life' = then
  /\ Goto(App, "check")
  /\ UNCHANGED <<serviceVars, connected, open, requests, task, asked, connects>>

(* Where a thread goes on after disconnect().                               *)
After(t) == IF t = App THEN "idle" ELSE "callback"

(* if (!is_connected()) return; and, only then, the store.                  *)
Check(t) ==
  /\ pc[t] = "check"
  /\ Goto(t, IF connected THEN "unset" ELSE After(t))
  /\ UNCHANGED <<serviceVars, connected, open, requests, waits, task, life, asked, connects>>

Unset(t) ==
  /\ pc[t] = "unset"
  /\ connected' = FALSE
  /\ Goto(t, "clear")
  /\ UNCHANGED <<serviceVars, open, requests, waits, task, life, asked, connects>>

(* clear_read_requests(), clear_write_requests()                            *)
Clear(t) ==
  /\ pc[t] = "clear"
  /\ requests' = [d \in Dirs |-> 0]
  /\ Goto(t, "untrack")
  /\ UNCHANGED <<serviceVars, connected, open, waits, task, life, asked, connects>>

(* untrack() looks for the descriptor the socket has now: none, when        *)
(* another thread has closed it.                                            *)
Leave(t) ==
  /\ pc[t] = "untrack"
  /\ IF open THEN Untrack ELSE UNCHANGED serviceVars
  /\ Goto(t, IF t = App /\ waits THEN "removal" ELSE "close")
  /\ UNCHANGED <<connected, open, requests, waits, task, life, asked, connects>>

(* The wait ends when the entry is erased, or when another thread has closed *)
(* the socket meanwhile.                                                     *)
WaitForRemoval ==
  /\ pc[App] = "removal" /\ Removed(open)
  /\ Goto(App, "close")
  /\ UNCHANGED <<serviceVars, connected, open, requests, waits, task, life, asked, connects>>

Close(t) ==
  /\ pc[t] = "close"
  /\ open' = FALSE
  /\ Goto(t, After(t))
  /\ UNCHANGED <<serviceVars, connected, requests, waits, task, life, asked, connects>>

(* The end of the destructor. *)
Destroyed ==
  /\ life = "dying" /\ pc[App] = "idle"
  /\ life' = "dead"
  /\ UNCHANGED <<serviceVars, connected, open, requests, pc, waits, task, asked, connects>>
-----------------------------------------------------------------------------
(* fetch_task(); how the pool puts its workers to sleep is left out.        *)
Fetch(w) ==
  /\ pc[w] = "idle" /\ tasks # <<>>
  /\ task' = [task EXCEPT ![w] = Head(tasks)] /\ tasks' = Tail(tasks)
  /\ Goto(w, "process")
  /\ UNCHANGED <<entry, pipe, poll, watched, polled, ready, woken, connected, open,
                 requests, waits, life, asked, connects>>

ProcessBug(w) ==   \* the event is believed: the queue is not looked at
  /\ pc[w] = "process"
  /\ requests' = [requests EXCEPT ![task[w]] = @ - 1]
  /\ Goto(w, "callback")
  /\ UNCHANGED <<serviceVars, connected, open, waits, task, life, asked, connects>>

(* process_read() and process_write(): the oldest request succeeds or       *)
(* fails, and the last one takes the callback away.  Without a request the  *)
(* result is a failure too.                                                 *)
Process(w) ==
  /\ pc[w] = "process"
  /\ \/ /\ requests[task[w]] = 0
        /\ Goto(w, "check")
        /\ UNCHANGED <<serviceVars, requests>>
     \/ /\ requests[task[w]] > 0
        /\ requests' = [requests EXCEPT ![task[w]] = @ - 1]
        /\ IF requests[task[w]] = 1 THEN SetCallback(task[w], FALSE)
                                    ELSE UNCHANGED serviceVars
        /\ \E success \in BOOLEAN : Goto(w, IF success THEN "callback" ELSE "check")
  /\ UNCHANGED <<connected, open, waits, task, life, asked, connects>>

(* The callbacks of the application have returned.                          *)
CalledBack(w) ==
  /\ pc[w] = "callback"
  /\ EndTask(task[w])
  /\ task' = [task EXCEPT ![w] = None]
  /\ Goto(w, "idle")
  /\ UNCHANGED <<connected, open, requests, waits, life, asked, connects>>

(* A callback of the application throws: run() of the pool swallows the      *)
(* exception with the rest of the task, and the direction counts as          *)
(* executing for good.                                                       *)
CallbackThrows(w) ==
  /\ pc[w] = "callback"
  /\ task' = [task EXCEPT ![w] = None]
  /\ Goto(w, "idle")
  /\ UNCHANGED <<serviceVars, connected, open, requests, waits, life, asked, connects>>
-----------------------------------------------------------------------------
Poll == \/ Prepare \/ ProcessEvents
        \/ \E some \in SUBSET Dirs : Select(some, open)

PollStep == Poll /\ UNCHANGED clientVars

Disconnecting(t) == Check(t) \/ Unset(t) \/ Clear(t) \/ Leave(t) \/ Close(t)

Work(w) == Fetch(w) \/ Process(w) \/ CalledBack(w) \/ CallbackThrows(w) \/ Disconnecting(w)

Next ==
  \/ PollStep
  \/ Connect \/ Connected
  \/ \E t \in Threads, d \in Dirs : AsyncRequest(t, d)
  \/ \E wait \in BOOLEAN, then \in {"alive", "dying"} : Disconnect(wait, then)
  \/ \E t \in Threads : Disconnecting(t)
  \/ WaitForRemoval \/ Destroyed
  \/ \E w \in Workers : Fetch(w) \/ Process(w) \/ CalledBack(w) \/ CallbackThrows(w)

Spec == Init /\ [][Next]_vars

(* All threads keep running, and the callbacks of the application end, in    *)
(* one way or the other.  The peer keeps sending and reading: sooner or     *)
(* later select() reports everything that is watched.  Who waits for the    *)
(* removal is woken by whoever erases the entry; nobody wakes it when the   *)
(* socket is closed.                                                        *)
FairSpec ==
  /\ Spec
  /\ WF_vars(Prepare /\ UNCHANGED clientVars)
  /\ WF_vars(ProcessEvents /\ UNCHANGED clientVars)
  /\ WF_vars(Select(watched, open) /\ UNCHANGED clientVars)
  /\ \A w \in Workers : WF_vars(Work(w))
  /\ WF_vars(Connected) /\ WF_vars(Disconnecting(App))
  /\ WF_vars(~entry.there /\ WaitForRemoval)
-----------------------------------------------------------------------------
TypeOK ==
  /\ ServiceTypeOK
  /\ connected \in BOOLEAN /\ open \in BOOLEAN /\ waits \in BOOLEAN
  /\ requests \in [Dirs -> 0..MaxRequests]
  /\ task \in [Workers -> Dirs \cup {None}]
  /\ pc \in [Threads -> {"idle", "connect", "check", "unset", "clear", "untrack",
                         "removal", "close", "process", "callback"}]
  /\ life \in {"alive", "dying", "dead"}
  /\ asked \in 0..MaxRequests /\ connects \in 0..MaxConnects

(* The tasks of a direction, queued or with a worker.                       *)
TasksOf(d) == Cardinality({i \in 1..Len(tasks) : tasks[i] = d})
              + Cardinality({w \in Workers : task[w] = d})

(* A direction never has two tasks at once, and one that has a task is      *)
(* flagged as executing.                                                    *)
OneTaskPerDirection ==
  \A d \in Dirs : TasksOf(d) <= 1 /\ (TasksOf(d) = 1 => d \in entry.busy)

(* When wait_for_removal() has returned no callback of the client is        *)
(* executing or will be, unless another thread has closed the socket.       *)
WaitMeansSilence ==
  (pc[App] = "close" /\ waits /\ open) => tasks = <<>> /\ \A w \in Workers : pc[w] = "idle"

(* A connected client has a socket that is tracked, with a callback for     *)
(* exactly the directions that have requests; a socket that is not open is  *)
(* never used.                                                              *)
RequestsHaveCallbacks ==
  Careful =>
    /\ connected => open /\ entry.there /\ entry.cb = {d \in Dirs : requests[d] > 0}
    /\ \A w \in Workers :
         pc[w] = "process" /\ requests[task[w]] > 0 => open /\ entry.there

(* No bookkeeping of the service goes wrong in the service of this client.  *)
ServiceKeepsPromise == OneTaskPerDirection /\ WaitMeansSilence /\ RequestsHaveCallbacks

(* A callback has thrown: the direction is flagged as executing and nothing *)
(* executes, so that it is never watched again.                             *)
Stuck(d) == d \in entry.busy /\ TasksOf(d) = 0

(* A request is answered, or dropped by a disconnection, as long as the     *)
(* peer does its part and no callback throws.                               *)
RequestsEnd == \A d \in Dirs : requests[d] > 0 ~> requests[d] = 0 \/ Stuck(d)

(* disconnect() returns, also when it waits for the removal, unless a       *)
(* callback has thrown.                                                     *)
DisconnectReturns == pc[App] = "check" ~> pc[App] = "idle" \/ \E d \in Dirs : Stuck(d)

(* A client is left alone once it has been destroyed.                       *)
DestroyedIsSilent ==
  life = "dead" => tasks = <<>> /\ \A w \in Workers : pc[w] = "idle"
=============================================================================

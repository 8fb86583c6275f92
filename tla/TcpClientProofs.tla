--------------------------- MODULE TcpClientProofs ---------------------------
(***************************************************************************)
(* For any number of workers, requests and connections: no direction has   *)
(* two tasks, and the table of the service flags those that have one;      *)
(* disconnect(true) comes back to a client nobody works for, unless        *)
(* another thread has closed the socket under it; and, if the application  *)
(* waits before it connects again, a connected client is tracked with a    *)
(* callback for exactly the directions that have requests.                 *)
(*                                                                         *)
(* The argument about the last is that nobody who is taking the connection *)
(* down has come past the end of the requests while there still are some.  *)
(***************************************************************************)
EXTENDS TcpClient, TLAPS, FiniteSetTheorems, SequenceTheorems

WorkerPlaces == {"idle", "process", "callback", "check", "unset", "clear", "untrack", "close"}
AppPlaces == {"idle", "connect", "check", "unset", "clear", "untrack", "removal", "close"}

(* Who is where; a worker has a task from the time it takes it.             *)
Places ==
  /\ \A w \in Workers : pc[w] \in WorkerPlaces /\ (task[w] = None <=> pc[w] = "idle")
  /\ pc[App] \in AppPlaces

RequestsAsked == \A d \in Dirs : requests[d] <= asked

Queued(d) == \E i \in 1..Len(tasks) : tasks[i] = d
Taken(d) == \E w \in Workers : task[w] = d

(* OneTaskPerDirection without numbers.                                     *)
TasksMatch ==
  /\ \A i, j \in 1..Len(tasks) : tasks[i] = tasks[j] => i = j
  /\ \A w, v \in Workers : task[w] = task[v] /\ task[w] # None => w = v
  /\ \A d \in Dirs : ~(Queued(d) /\ Taken(d))
  /\ \A d \in Dirs : Queued(d) \/ Taken(d) => d \in entry.busy

(* disconnect(true) is past its wait, the socket is the one it waited for,  *)
(* and the entry has not come back.                                         *)
StaysRemoved == pc[App] = "close" /\ waits /\ open => ~entry.there

(* Nothing happens between the two halves of connect().                     *)
Connecting ==
  pc[App] = "connect" =>
    ~connected /\ open /\ entry.there /\ ~entry.marked /\ entry.cb = {} /\ entry.busy = {}

(* The requests of a connection that is over are dropped by whoever is on   *)
(* the way to do it.                                                        *)
SomebodyClears ==
  connected \/ (\E t \in Threads : pc[t] = "clear") \/ \A d \in Dirs : requests[d] = 0

(* As long as there is a connection, or a request, the socket is there.     *)
Usable ==
  connected \/ (\E d \in Dirs : requests[d] > 0) =>
    /\ open /\ entry.there /\ ~entry.marked
    /\ entry.cb = {d \in Dirs : requests[d] > 0}
    /\ \A t \in Threads : pc[t] \notin {"untrack", "removal", "close"}
    /\ connected => \A t \in Threads : pc[t] # "clear"

CarefulInv == Careful => Connecting /\ SomebodyClears /\ Usable

IInv == TypeOK /\ RequestsAsked /\ Places /\ TasksMatch /\ StaysRemoved /\ CarefulInv
-----------------------------------------------------------------------------
LEMMA TasksForFacts ==
  ASSUME NEW s \in Seq(Dirs), NEW dirs \in SUBSET Dirs
  PROVE  /\ s \o TasksFor(dirs) \in Seq(Dirs)
         /\ Len(s \o TasksFor(dirs)) >= Len(s)
         /\ \A i \in 1..Len(s) : (s \o TasksFor(dirs))[i] = s[i]
         /\ \A i \in (Len(s) + 1)..Len(s \o TasksFor(dirs)) : (s \o TasksFor(dirs))[i] \in dirs
         /\ \A d \in dirs : \E i \in (Len(s) + 1)..Len(s \o TasksFor(dirs)) :
              (s \o TasksFor(dirs))[i] = d
         /\ \A i, j \in (Len(s) + 1)..Len(s \o TasksFor(dirs)) :
              (s \o TasksFor(dirs))[i] = (s \o TasksFor(dirs))[j] => i = j
  <1> DEFINE c == TasksFor(dirs)
  <1>1. /\ c \in Seq(Dirs) /\ \A i \in 1..Len(c) : c[i] \in dirs
        /\ \A d \in dirs : \E i \in 1..Len(c) : c[i] = d
        /\ \A i, j \in 1..Len(c) : c[i] = c[j] => i = j
    <2>1. CASE "rd" \in dirs /\ "wr" \in dirs
      <3>1. c = <<"rd", "wr">> /\ dirs = {"rd", "wr"}
        <4>1. <<"rd">> \in Seq(Dirs) /\ <<"wr">> \in Seq(Dirs)
          BY DEF Dirs
        <4>2. <<"rd">> \o <<"wr">> = <<"rd", "wr">>
          <5> DEFINE p == <<"rd">> \o <<"wr">>
          <5>1. p \in Seq(Dirs) /\ Len(p) = 2 /\ p[1] = "rd" /\ p[2] = "wr"
            BY <4>1, ConcatProperties
          <5>2. <<"rd", "wr">> \in Seq(Dirs)
            BY DEF Dirs
          <5> HIDE DEF p
          <5>3. p = <<"rd", "wr">>
            BY <5>1, <5>2, SeqEqual
          <5> QED BY <5>3 DEF p
        <4> QED BY <2>1, <4>2 DEF TasksFor, Dirs
      <3> QED BY <3>1 DEF Dirs
    <2>2. CASE "rd" \in dirs /\ "wr" \notin dirs
      <3>1. c = <<"rd">> /\ dirs = {"rd"}
        <4>1. <<"rd">> \in Seq(Dirs)
          BY DEF Dirs
        <4>2. <<"rd">> \o <<>> = <<"rd">>
          BY <4>1, ConcatEmptySeq
        <4> QED BY <2>2, <4>2 DEF TasksFor, Dirs
      <3> QED BY <3>1 DEF Dirs
    <2>3. CASE "rd" \notin dirs /\ "wr" \in dirs
      <3>1. c = <<"wr">> /\ dirs = {"wr"}
        <4>1. <<"wr">> \in Seq(Dirs)
          BY DEF Dirs
        <4>2. <<>> \o <<"wr">> = <<"wr">>
          BY <4>1, ConcatEmptySeq
        <4> QED BY <2>3, <4>2 DEF TasksFor, Dirs
      <3> QED BY <3>1 DEF Dirs
    <2>4. CASE "rd" \notin dirs /\ "wr" \notin dirs
      <3>1. c = <<>> /\ dirs = {}
        <4>1. <<>> \in Seq(Dirs)
          BY DEF Dirs
        <4>2. <<>> \o <<>> = <<>>
          BY <4>1, ConcatEmptySeq
        <4> QED BY <2>4, <4>2 DEF TasksFor, Dirs
      <3> QED BY <3>1 DEF Dirs
    <2> QED BY <2>1, <2>2, <2>3, <2>4
  <1> HIDE DEF c
  <1>2. /\ s \o c \in Seq(Dirs) /\ Len(s \o c) = Len(s) + Len(c)
        /\ \A i \in 1..Len(s) : (s \o c)[i] = s[i]
        /\ \A i \in 1..Len(c) : (s \o c)[Len(s) + i] = c[i]
    BY <1>1, ConcatProperties
  <1>3. Len(s) \in Nat /\ Len(c) \in Nat
    BY <1>1, LenProperties
  <1>4. \A i \in (Len(s) + 1)..Len(s \o c) :
          i - Len(s) \in 1..Len(c) /\ (s \o c)[i] = c[i - Len(s)]
    BY <1>2, <1>3
  <1>5. \A d \in dirs : \E i \in (Len(s) + 1)..Len(s \o c) : (s \o c)[i] = d
    <2> SUFFICES ASSUME NEW d \in dirs PROVE \E i \in (Len(s) + 1)..Len(s \o c) : (s \o c)[i] = d
      OBVIOUS
    <2>1. PICK i \in 1..Len(c) : c[i] = d
      BY <1>1
    <2> WITNESS Len(s) + i \in (Len(s) + 1)..Len(s \o c)
    <2> QED BY <1>2, <1>3, <2>1
  <1>6. \A i, j \in (Len(s) + 1)..Len(s \o c) : (s \o c)[i] = (s \o c)[j] => i = j
    BY <1>1, <1>3, <1>4
  <1> QED BY <1>1, <1>2, <1>3, <1>4, <1>5, <1>6 DEF c

(* What the service may do to the entry of a socket, whoever asks for it.   *)
LEMMA EntryType ==
  ASSUME ServiceTypeOK
  PROVE  /\ \A d \in Dirs, on \in BOOLEAN : SetCallback(d, on) => ServiceTypeOK'
         /\ Track \/ Untrack \/ Poll => ServiceTypeOK'
         /\ \A d \in Dirs : EndTask(d) => ServiceTypeOK'
  <1> USE DEF ServiceTypeOK, NoEntry, Dirs
  <1>1. ASSUME NEW d \in Dirs, NEW on \in BOOLEAN, SetCallback(d, on) PROVE ServiceTypeOK'
    <2>1. CASE on
      BY <1>1, <2>1 DEF SetCallback
    <2>2. CASE ~on
      BY <1>1, <2>2 DEF SetCallback
    <2> QED BY <2>1, <2>2
  <1>2. ASSUME Track \/ Untrack PROVE ServiceTypeOK'
    <2>1. CASE Track
      BY <2>1 DEF Track
    <2>2. CASE Untrack
      <3>1. CASE entry.busy = {}
        BY <2>2, <3>1 DEF Untrack
      <3>2. CASE entry.busy # {}
        <4>1. entry' = [entry EXCEPT !.marked = TRUE] /\ entry.there
          BY <2>2, <3>2 DEF Untrack
        <4>2. pipe' \in BOOLEAN /\ UNCHANGED <<poll, watched, polled, ready, woken, tasks>>
          BY <2>2 DEF Untrack
        <4>3. entry' \in [there : BOOLEAN, cb : SUBSET Dirs, busy : SUBSET Dirs, marked : BOOLEAN]
          BY <4>1
        <4>4. entry'.there
          BY <4>1
        <4> QED BY <4>2, <4>3, <4>4
      <3> QED BY <3>1, <3>2
    <2> QED BY <1>2, <2>1, <2>2
  <1>3. ASSUME NEW d \in Dirs, EndTask(d) PROVE ServiceTypeOK'
    <2>1. CASE entry' = NoEntry
      <3>1. pipe' \in BOOLEAN
        BY <1>3 DEF EndTask
      <3>2. UNCHANGED <<poll, watched, polled, ready, woken, tasks>>
        BY <1>3 DEF EndTask
      <3> QED BY <2>1, <3>1, <3>2
    <2>2. CASE entry' = [entry EXCEPT !.busy = @ \ {d}]
      <3>1. pipe' \in BOOLEAN
        BY <1>3 DEF EndTask
      <3>2. UNCHANGED <<poll, watched, polled, ready, woken, tasks>>
        BY <1>3 DEF EndTask
      <3>3. entry' \in [there : BOOLEAN, cb : SUBSET Dirs, busy : SUBSET Dirs, marked : BOOLEAN]
        BY <2>2
      <3>4. ASSUME ~entry'.there PROVE entry' = NoEntry
        <4>1. entry = NoEntry
          BY <2>2, <3>4
        <4>2. entry' = [there |-> FALSE, cb |-> {}, busy |-> {} \ {d}, marked |-> FALSE]
          BY <2>2, <4>1
        <4>3. {} \ {d} = {}
          OBVIOUS
        <4> QED BY <4>2, <4>3
      <3> QED BY <3>1, <3>2, <3>3, <3>4
    <2> QED BY <1>3, <2>1, <2>2 DEF EndTask
  <1>4. ASSUME Poll PROVE ServiceTypeOK'
    <2>1. CASE Prepare
      BY <2>1 DEF Prepare
    <2>2. CASE \E some \in SUBSET Dirs : Select(some, open)
      BY <2>2 DEF Select
    <2>3. CASE ProcessEvents
      <3>1. PICK start \in SUBSET Dirs :
              /\ tasks' = tasks \o TasksFor(start)
              /\ entry' \in {NoEntry, [entry EXCEPT !.busy = @ \cup start]}
              /\ start # {} => entry.cb # {}
        BY <2>3 DEF ProcessEvents
      <3>2. tasks' \in Seq(Dirs)
        BY <3>1, TasksForFacts
      <3>3. pipe' \in BOOLEAN
        BY <2>3 DEF ProcessEvents
      <3>4. UNCHANGED <<watched, polled, ready, woken>> /\ poll' = "prepare"
        BY <2>3 DEF ProcessEvents
      <3>5. /\ entry' \in [there : BOOLEAN, cb : SUBSET Dirs, busy : SUBSET Dirs, marked : BOOLEAN]
            /\ ~entry'.there => entry' = NoEntry
        <4>1. CASE entry' = NoEntry
          BY <4>1
        <4>2. CASE entry' = [entry EXCEPT !.busy = @ \cup start]
          <5>1. entry' \in [there : BOOLEAN, cb : SUBSET Dirs, busy : SUBSET Dirs, marked : BOOLEAN]
            BY <4>2
          <5>2. ASSUME ~entry'.there PROVE entry' = NoEntry
            <6>1. entry = NoEntry
              BY <4>2, <5>2
            <6>2. start = {}
              BY <3>1, <6>1
            <6>3. entry' = [there |-> FALSE, cb |-> {}, busy |-> {}, marked |-> FALSE]
              BY <4>2, <6>1, <6>2
            <6> QED BY <6>3
          <5> QED BY <5>1, <5>2
        <4> QED BY <3>1, <4>1, <4>2
      <3> QED BY <3>2, <3>3, <3>4, <3>5
    <2> QED BY <1>4, <2>1, <2>2, <2>3 DEF Poll
  <1> QED BY <1>1, <1>2, <1>3, <1>4

(* Processing an event takes one request off, or finds none.                *)
LEMMA ProcessRequests ==
  ASSUME TypeOK, NEW w \in Workers, task[w] \in Dirs, Process(w)
  PROVE  /\ requests' \in [Dirs -> 0..MaxRequests] /\ requests' \in [Dirs -> Nat]
         /\ \A d \in Dirs : requests'[d] <= requests[d]
  <1> USE DEF TypeOK
  <1>1. CASE requests' = requests
    BY <1>1, ClientAssumption
  <1>2. CASE requests[task[w]] > 0 /\ requests' = [requests EXCEPT ![task[w]] = @ - 1]
    <2>1. requests[task[w]] - 1 \in 0..MaxRequests /\ requests[task[w]] \in Nat
      BY <1>2, ClientAssumption
    <2> QED BY <1>2, <2>1, ClientAssumption
  <1> QED BY <1>1, <1>2 DEF Process

LEMMA ThreadsKnown == App \in Threads /\ Workers \subseteq Threads /\ App \notin Workers
  BY ClientAssumption DEF Threads

LEMMA TypeNext == IInv /\ [Next]_vars => TypeOK'
  <1> SUFFICES ASSUME IInv, [Next]_vars PROVE TypeOK'
    OBVIOUS
  <1>process. ASSUME NEW w \in Workers, Process(w)
        PROVE  /\ requests' \in [Dirs -> 0..MaxRequests] /\ requests' \in [Dirs -> Nat]
               /\ \A d \in Dirs : requests'[d] <= requests[d]
    <2>1. TypeOK /\ task[w] \in Dirs
      BY <1>process DEF IInv, TypeOK, Places, Process
    <2> QED BY <1>process, <2>1, ProcessRequests
  <1> USE ClientAssumption, ThreadsKnown DEF IInv, TypeOK, Goto, clientVars
  <1>0. /\ ServiceTypeOK
        /\ \A w \in Workers : pc[w] # "idle" => task[w] \in Dirs
    BY DEF Places
  <1>1. UNCHANGED serviceVars => ServiceTypeOK'
    BY <1>0 DEF ServiceTypeOK, serviceVars
  <1>2. CASE PollStep
    BY <1>0, <1>2, EntryType DEF PollStep
  <1>3. CASE Connect
    BY <1>0, <1>3, EntryType DEF Connect
  <1>4. CASE Connected
    BY <1>1, <1>4 DEF Connected
  <1>5. ASSUME NEW t \in Threads, NEW d \in Dirs, AsyncRequest(t, d) PROVE TypeOK'
    <2>1. ServiceTypeOK'
      BY <1>0, <1>5, EntryType DEF AsyncRequest
    <2>2. requests[d] + 1 \in 0..MaxRequests /\ asked + 1 \in 0..MaxRequests
      BY <1>5 DEF AsyncRequest, RequestsAsked
    <2> QED BY <1>5, <2>1, <2>2 DEF AsyncRequest
  <1>6. ASSUME NEW wait \in BOOLEAN, NEW then \in {"alive", "dying"}, Disconnect(wait, then)
        PROVE  TypeOK'
    BY <1>1, <1>6 DEF Disconnect
  <1>7. ASSUME NEW t \in Threads, Check(t) \/ Unset(t) PROVE TypeOK'
    BY <1>1, <1>7 DEF Check, Unset, After
  <1>8. ASSUME NEW t \in Threads, Clear(t) \/ Close(t) PROVE TypeOK'
    <2>1. CASE Clear(t)
      <3>1. requests' \in [Dirs -> 0..MaxRequests]
        BY <2>1 DEF Clear
      <3> QED BY <1>1, <2>1, <3>1 DEF Clear
    <2>2. CASE Close(t)
      BY <1>1, <2>2 DEF Close, After
    <2> QED BY <1>8, <2>1, <2>2
  <1>9. ASSUME NEW t \in Threads, Leave(t) PROVE TypeOK'
    <2>1. ServiceTypeOK'
      BY <1>0, <1>1, <1>9, EntryType DEF Leave
    <2> QED BY <1>9, <2>1 DEF Leave
  <1>10. CASE WaitForRemoval \/ Destroyed
    BY <1>1, <1>10 DEF WaitForRemoval, Destroyed
  <1>11. ASSUME NEW w \in Workers, Fetch(w) PROVE TypeOK'
    <2>1. Head(tasks) \in Dirs /\ Tail(tasks) \in Seq(Dirs)
      BY <1>0, <1>11, HeadTailProperties DEF Fetch, ServiceTypeOK
    <2>2. ServiceTypeOK'
      BY <1>0, <1>11, <2>1 DEF Fetch, ServiceTypeOK
    <2> QED BY <1>11, <2>1, <2>2 DEF Fetch
  <1>12. ASSUME NEW w \in Workers, Process(w) PROVE TypeOK'
    <2>1. ServiceTypeOK'
      BY <1>0, <1>1, <1>12, EntryType DEF Process
    <2>2. requests' \in [Dirs -> 0..MaxRequests]
      BY <1>process, <1>12
    <2> QED BY <1>12, <2>1, <2>2 DEF Process
  <1>13. ASSUME NEW w \in Workers, CalledBack(w) \/ CallbackThrows(w) PROVE TypeOK'
    <2>1. ServiceTypeOK'
      BY <1>0, <1>1, <1>13, EntryType DEF CalledBack, CallbackThrows
    <2> QED BY <1>13, <2>1 DEF CalledBack, CallbackThrows
  <1>14. CASE UNCHANGED vars
    BY <1>1, <1>14 DEF vars
  <1> QED BY <1>2, <1>3, <1>4, <1>5, <1>6, <1>7, <1>8, <1>9, <1>10, <1>11, <1>12, <1>13, <1>14
          DEF Next, Disconnecting

LEMMA PlacesNext == IInv /\ [Next]_vars => Places' /\ RequestsAsked'
  <1> SUFFICES ASSUME IInv, [Next]_vars PROVE Places' /\ RequestsAsked'
    OBVIOUS
  <1>process. ASSUME NEW w \in Workers, Process(w)
        PROVE  /\ requests' \in [Dirs -> 0..MaxRequests] /\ requests' \in [Dirs -> Nat]
               /\ \A d \in Dirs : requests'[d] <= requests[d]
    <2>1. TypeOK /\ task[w] \in Dirs
      BY <1>process DEF IInv, TypeOK, Places, Process
    <2> QED BY <1>process, <2>1, ProcessRequests
  <1> USE ClientAssumption, ThreadsKnown
      DEF IInv, TypeOK, Goto, clientVars, Places, WorkerPlaces, AppPlaces, RequestsAsked
  <1>0. \A w \in Workers : pc[w] # "idle" => task[w] \in Dirs
    OBVIOUS
  <1>1. CASE PollStep
    BY <1>1 DEF PollStep
  <1>2. CASE Connect \/ Connected
    BY <1>2 DEF Connect, Connected
  <1>3. ASSUME NEW t \in Threads, NEW d \in Dirs, AsyncRequest(t, d) PROVE Places' /\ RequestsAsked'
    BY <1>3 DEF AsyncRequest
  <1>4. ASSUME NEW wait \in BOOLEAN, NEW then \in {"alive", "dying"}, Disconnect(wait, then)
        PROVE  Places' /\ RequestsAsked'
    BY <1>4 DEF Disconnect
  <1>5. ASSUME NEW t \in Threads, Check(t) \/ Unset(t) \/ Close(t) PROVE Places' /\ RequestsAsked'
    BY <1>5 DEF Check, Unset, Close, After
  <1>6. ASSUME NEW t \in Threads, Clear(t) PROVE Places' /\ RequestsAsked'
    BY <1>6 DEF Clear
  <1>7. ASSUME NEW t \in Threads, Leave(t) PROVE Places' /\ RequestsAsked'
    BY <1>7 DEF Leave
  <1>8. CASE WaitForRemoval \/ Destroyed
    BY <1>8 DEF WaitForRemoval, Destroyed
  <1>9. ASSUME NEW w \in Workers, Fetch(w) PROVE Places' /\ RequestsAsked'
    <2>1. Head(tasks) \in Dirs
      BY <1>9, HeadTailProperties DEF Fetch, ServiceTypeOK
    <2>2. Head(tasks) # None
      BY <2>1 DEF Dirs
    <2> QED BY <1>9, <2>2 DEF Fetch
  <1>10. ASSUME NEW w \in Workers, Process(w) PROVE Places' /\ RequestsAsked'
    <2>1. \A d \in Dirs : requests'[d] <= requests[d]
      BY <1>process, <1>10
    <2>2. pc' \in {[pc EXCEPT ![w] = "check"], [pc EXCEPT ![w] = "callback"]}
          /\ pc[w] = "process" /\ UNCHANGED <<task, asked>>
      BY <1>10 DEF Process
    <2>3. Places'
      BY <2>2
    <2>4. requests' \in [Dirs -> Nat]
      BY <1>process, <1>10
    <2> QED BY <2>1, <2>2, <2>3, <2>4
  <1>11. ASSUME NEW w \in Workers, CalledBack(w) \/ CallbackThrows(w) PROVE Places' /\ RequestsAsked'
    BY <1>11 DEF CalledBack, CallbackThrows
  <1>12. CASE UNCHANGED vars
    BY <1>12 DEF vars
  <1> QED BY <1>1, <1>2, <1>3, <1>4, <1>5, <1>6, <1>7, <1>8, <1>9, <1>10, <1>11, <1>12
          DEF Next, Disconnecting

(* Only events and the end of a task change which directions are executing. *)
LEMMA BusyKept ==
  ASSUME ServiceTypeOK
  PROVE  /\ \A d \in Dirs, on \in BOOLEAN : SetCallback(d, on) =>
              entry'.busy = entry.busy /\ tasks' = tasks
         /\ Track \/ Untrack => entry'.busy = entry.busy /\ tasks' = tasks
         /\ \A d \in Dirs : EndTask(d) => entry'.busy = entry.busy \ {d} /\ tasks' = tasks
         /\ Prepare => entry' = entry /\ tasks' = tasks
         /\ \A some \in SUBSET Dirs : Select(some, open) => entry' = entry /\ tasks' = tasks
         /\ ProcessEvents => \E start \in SUBSET Dirs :
              /\ start \cap entry.busy = {} /\ start \subseteq entry.cb
              /\ entry'.busy = entry.busy \cup start
              /\ tasks' = tasks \o TasksFor(start)
              /\ entry' # entry => entry.marked \/ start # {}
              /\ ~entry.marked => entry' = [entry EXCEPT !.busy = @ \cup start]
              /\ entry' = NoEntry \/ entry' = [entry EXCEPT !.busy = @ \cup start]
  <1> USE DEF ServiceTypeOK, NoEntry
  <1>1. ASSUME NEW d \in Dirs, NEW on \in BOOLEAN, SetCallback(d, on)
        PROVE  entry'.busy = entry.busy /\ tasks' = tasks
    BY <1>1 DEF SetCallback
  <1>2. ASSUME Track \/ Untrack PROVE entry'.busy = entry.busy /\ tasks' = tasks
    <2>1. CASE Track
      BY <2>1 DEF Track
    <2>2. CASE Untrack
      <3>1. tasks' = tasks
        BY <2>2 DEF Untrack
      <3>2. CASE entry.busy = {}
        BY <2>2, <3>1, <3>2 DEF Untrack
      <3>3. CASE entry.busy # {}
        <4>1. entry' = [entry EXCEPT !.marked = TRUE]
          BY <2>2, <3>3 DEF Untrack
        <4> QED BY <3>1, <4>1
      <3> QED BY <3>2, <3>3
    <2> QED BY <1>2, <2>1, <2>2
  <1>3. ASSUME NEW d \in Dirs, EndTask(d)
        PROVE  entry'.busy = entry.busy \ {d} /\ tasks' = tasks
    <2>1. tasks' = tasks
      BY <1>3 DEF EndTask
    <2>2. CASE entry' = [entry EXCEPT !.busy = @ \ {d}]
      BY <2>1, <2>2
    <2>3. CASE entry' = NoEntry /\ entry.busy \ {d} = {}
      BY <2>1, <2>3
    <2> QED BY <1>3, <2>2, <2>3 DEF EndTask
  <1>4. ASSUME Prepare PROVE entry' = entry /\ tasks' = tasks
    BY <1>4 DEF Prepare
  <1>5. ASSUME NEW some \in SUBSET Dirs, Select(some, open) PROVE entry' = entry /\ tasks' = tasks
    BY <1>5 DEF Select
  <1>6. ASSUME ProcessEvents
        PROVE  \E start \in SUBSET Dirs :
                 /\ start \cap entry.busy = {} /\ start \subseteq entry.cb
                 /\ entry'.busy = entry.busy \cup start
                 /\ tasks' = tasks \o TasksFor(start)
                 /\ entry' # entry => entry.marked \/ start # {}
                 /\ ~entry.marked => entry' = [entry EXCEPT !.busy = @ \cup start]
                 /\ entry' = NoEntry \/ entry' = [entry EXCEPT !.busy = @ \cup start]
    <2> DEFINE start == IF polled THEN (ready \cap entry.cb) \ entry.busy ELSE {}
               e == [entry EXCEPT !.busy = @ \cup start]
    <2>1. start \in SUBSET Dirs /\ start \cap entry.busy = {} /\ start \subseteq entry.cb
      OBVIOUS
    <2>2. tasks' = tasks \o TasksFor(start)
          /\ entry' = IF polled /\ e.marked /\ e.busy = {} THEN NoEntry ELSE e
      BY <1>6 DEF ProcessEvents
    <2>3. e.marked = entry.marked /\ e.busy = entry.busy \cup start
      OBVIOUS
    <2>4. start = {} => e = entry
      OBVIOUS
    <2> HIDE DEF start
    <2>5. CASE entry' = e
      <3>1. entry'.busy = entry.busy \cup start
        BY <2>3, <2>5
      <3> WITNESS start \in SUBSET Dirs
      <3> QED BY <2>1, <2>2, <2>4, <2>5, <3>1
    <2>6. CASE entry' = NoEntry /\ entry.marked /\ entry.busy \cup start = {}
      <3> WITNESS start \in SUBSET Dirs
      <3> QED BY <2>1, <2>2, <2>6
    <2> HIDE DEF e
    <2> QED BY <2>2, <2>3, <2>5, <2>6
  <1> QED BY <1>1, <1>2, <1>3, <1>4, <1>5, <1>6

LEMMA TasksNext == IInv /\ [Next]_vars => TasksMatch'
  <1> SUFFICES ASSUME IInv, [Next]_vars PROVE TasksMatch'
    OBVIOUS
  <1>0. /\ ServiceTypeOK /\ TasksMatch /\ Places
        /\ \A w \in Workers : pc[w] # "idle" => task[w] \in Dirs
        /\ task \in [Workers -> Dirs \cup {None}] /\ tasks \in Seq(Dirs) /\ None \notin Dirs
        /\ entry.busy \in SUBSET Dirs
    BY ClientAssumption DEF IInv, TypeOK, Places, ServiceTypeOK, Dirs
  <1>1. ASSUME UNCHANGED <<tasks, task>>, entry'.busy = entry.busy PROVE TasksMatch'
    BY <1>0, <1>1 DEF TasksMatch, Queued, Taken
  <1>2. CASE PollStep
    <2>1. UNCHANGED task
      BY <1>2 DEF PollStep, clientVars
    <2>2. CASE entry' = entry /\ tasks' = tasks
      BY <1>1, <2>1, <2>2
    <2>3. CASE ProcessEvents
      <3>1. PICK start \in SUBSET Dirs :
              /\ start \cap entry.busy = {}
              /\ entry'.busy = entry.busy \cup start
              /\ tasks' = tasks \o TasksFor(start)
        BY <1>0, <2>3, BusyKept
      <3> DEFINE n == Len(tasks)
      <3>2. /\ tasks' \in Seq(Dirs) /\ n \in Nat /\ Len(tasks') \in Nat /\ Len(tasks') >= n
            /\ \A i \in 1..n : tasks'[i] = tasks[i]
            /\ \A i \in (n + 1)..Len(tasks') : tasks'[i] \in start
            /\ \A d \in start : \E i \in (n + 1)..Len(tasks') : tasks'[i] = d
            /\ \A i, j \in (n + 1)..Len(tasks') : tasks'[i] = tasks'[j] => i = j
        BY <1>0, <3>1, TasksForFacts, LenProperties
      <3>3. \A i \in 1..n : tasks[i] \in entry.busy
        BY <1>0, ElementOfSeq DEF TasksMatch, Queued
      <3> HIDE DEF n
      <3>4. \A i \in 1..Len(tasks') : i \in 1..n \/ i \in (n + 1)..Len(tasks')
        BY <3>2
      <3>5. \A i, j \in 1..Len(tasks') : tasks'[i] = tasks'[j] => i = j
        <4>1. \A i, j \in 1..n : tasks[i] = tasks[j] => i = j
          BY <1>0 DEF TasksMatch, n
        <4>2. \A i \in 1..n, j \in (n + 1)..Len(tasks') : tasks'[i] # tasks'[j]
          BY <3>1, <3>2, <3>3
        <4> QED BY <3>2, <3>4, <4>1, <4>2
      <3>6. \A d \in Dirs : Queued(d)' <=> Queued(d) \/ d \in start
        <4>1. ASSUME NEW d \in Dirs, Queued(d)' PROVE Queued(d) \/ d \in start
          BY <3>2, <3>4, <4>1 DEF Queued, n
        <4>2. ASSUME NEW d \in Dirs, Queued(d) PROVE Queued(d)'
          <5>1. PICK i \in 1..n : tasks[i] = d
            BY <4>2 DEF Queued, n
          <5>2. i \in 1..Len(tasks') /\ tasks'[i] = d
            BY <3>2, <5>1
          <5> QED BY <5>2 DEF Queued
        <4>3. ASSUME NEW d \in start PROVE Queued(d)'
          <5>1. PICK i \in (n + 1)..Len(tasks') : tasks'[i] = d
            BY <3>2
          <5>2. i \in 1..Len(tasks')
            BY <3>2
          <5> QED BY <5>1, <5>2 DEF Queued
        <4> QED BY <4>1, <4>2, <4>3
      <3>7. \A d \in Dirs : Taken(d)' <=> Taken(d)
        BY <2>1 DEF Taken
      <3> QED BY <1>0, <2>1, <3>1, <3>5, <3>6, <3>7 DEF TasksMatch
    <2> QED BY <1>0, <1>2, <2>2, <2>3, BusyKept DEF PollStep, Poll
  <1>3. ASSUME NEW w \in Workers, Fetch(w) PROVE TasksMatch'
    <2> DEFINE h == Head(tasks)
    <2>1. /\ tasks # <<>> /\ tasks' = Tail(tasks) /\ task' = [task EXCEPT ![w] = h]
          /\ entry' = entry /\ pc[w] = "idle"
      BY <1>3 DEF Fetch
    <2>2. /\ Len(tasks) \in Nat /\ Len(tasks) > 0 /\ Len(tasks') = Len(tasks) - 1
          /\ h = tasks[1] /\ h \in Dirs
          /\ \A i \in 1..Len(tasks') : i + 1 \in 1..Len(tasks) /\ tasks'[i] = tasks[i + 1]
      BY <1>0, <2>1, HeadTailProperties, EmptySeq, LenProperties
    <2> HIDE DEF h
    <2>3. task[w] = None
      BY <1>0, <2>1 DEF Places
    <2>4. \A d \in Dirs : Taken(d)' <=> Taken(d) \/ d = h
      BY <1>0, <2>1, <2>3 DEF Taken
    <2>5. \A d \in Dirs : Queued(d)' <=> Queued(d) /\ d # h
      <3>1. ASSUME NEW d \in Dirs, Queued(d)' PROVE Queued(d) /\ d # h
        <4>1. PICK i \in 1..Len(tasks') : tasks'[i] = d
          BY <3>1 DEF Queued
        <4>2. i + 1 \in 1..Len(tasks) /\ tasks[i + 1] = d /\ i + 1 # 1 /\ 1 \in 1..Len(tasks)
          BY <2>2, <4>1
        <4> QED BY <1>0, <2>2, <4>2 DEF TasksMatch, Queued
      <3>2. ASSUME NEW d \in Dirs, Queued(d), d # h PROVE Queued(d)'
        <4>1. PICK i \in 1..Len(tasks) : tasks[i] = d
          BY <3>2 DEF Queued
        <4>2. i - 1 \in 1..Len(tasks') /\ (i - 1) + 1 = i
          BY <2>2, <3>2, <4>1
        <4>3. tasks'[i - 1] = d
          BY <2>2, <4>1, <4>2
        <4> QED BY <4>2, <4>3 DEF Queued
      <3> QED BY <3>1, <3>2
    <2>6. Queued(h)
      BY <2>2 DEF Queued
    <2>7. \A i, j \in 1..Len(tasks') : tasks'[i] = tasks'[j] => i = j
      BY <1>0, <2>2 DEF TasksMatch
    <2>8. \A v, u \in Workers : task'[v] = task'[u] /\ task'[v] # None => v = u
      <3>1. \A v \in Workers : task[v] # h
        BY <1>0, <2>2, <2>6 DEF TasksMatch, Taken
      <3> QED BY <1>0, <2>1, <3>1 DEF TasksMatch
    <2> QED BY <1>0, <2>1, <2>2, <2>4, <2>5, <2>6, <2>7, <2>8 DEF TasksMatch
  <1>4. ASSUME NEW w \in Workers, CalledBack(w) PROVE TasksMatch'
    <2>1. /\ entry'.busy = entry.busy \ {task[w]} /\ tasks' = tasks
          /\ task' = [task EXCEPT ![w] = None] /\ task[w] \in Dirs
      BY <1>0, <1>4, BusyKept DEF CalledBack
    <2>2. \A d \in Dirs : Queued(d)' <=> Queued(d)
      BY <2>1 DEF Queued
    <2>3. \A d \in Dirs : Taken(d)' <=> Taken(d) /\ d # task[w]
      BY <1>0, <2>1 DEF Taken, TasksMatch
    <2>4. ~Queued(task[w])
      BY <1>0, <2>1 DEF TasksMatch, Taken
    <2> QED BY <1>0, <2>1, <2>2, <2>3, <2>4 DEF TasksMatch
  <1>throws. ASSUME NEW w \in Workers, CallbackThrows(w) PROVE TasksMatch'
    <2>1. entry' = entry /\ tasks' = tasks /\ task' = [task EXCEPT ![w] = None]
      BY <1>throws DEF CallbackThrows, serviceVars
    <2>2. \A d \in Dirs : (Queued(d)' <=> Queued(d)) /\ (Taken(d)' => Taken(d))
      BY <1>0, <2>1 DEF Queued, Taken
    <2> QED BY <1>0, <2>1, <2>2 DEF TasksMatch
  <1>5. CASE Connect
    BY <1>0, <1>1, <1>5, BusyKept DEF Connect
  <1>6. ASSUME NEW t \in Threads, NEW d \in Dirs, AsyncRequest(t, d) PROVE TasksMatch'
    BY <1>0, <1>1, <1>6, BusyKept DEF AsyncRequest
  <1>7. ASSUME NEW t \in Threads, Leave(t) PROVE TasksMatch'
    BY <1>0, <1>1, <1>7, BusyKept DEF Leave, serviceVars
  <1>8. ASSUME NEW w \in Workers, Process(w) PROVE TasksMatch'
    BY <1>0, <1>1, <1>8, BusyKept DEF Process, serviceVars
  <1>9. CASE \/ Connected \/ WaitForRemoval \/ Destroyed \/ UNCHANGED vars
             \/ \E wait \in BOOLEAN, then \in {"alive", "dying"} : Disconnect(wait, then)
             \/ \E t \in Threads : Check(t) \/ Unset(t) \/ Clear(t) \/ Close(t)
    BY <1>1, <1>9 DEF Connected, WaitForRemoval, Destroyed, vars, serviceVars, clientVars,
                      Disconnect, Check, Unset, Clear, Close
  <1> QED BY <1>2, <1>3, <1>4, <1>throws, <1>5, <1>6, <1>7, <1>8, <1>9 DEF Next, Disconnecting

(* Where the table has nothing executing, nobody is at work.                *)
LEMMA Silence ==
  ASSUME TypeOK, Places, TasksMatch, entry.busy = {}
  PROVE  tasks = <<>> /\ \A w \in Workers : task[w] = None /\ pc[w] = "idle"
  <1>1. \A w \in Workers : task[w] = None
    BY DEF TypeOK, TasksMatch, Taken
  <1>2. tasks \in Seq(Dirs)
    BY DEF TypeOK, ServiceTypeOK
  <1>3. tasks = <<>>
    <2>1. SUFFICES ASSUME tasks # <<>> PROVE FALSE
      OBVIOUS
    <2>2. Len(tasks) \in Nat /\ Len(tasks) > 0
      BY <1>2, <2>1, EmptySeq, LenProperties
    <2>3. 1 \in 1..Len(tasks) /\ tasks[1] \in Dirs
      BY <1>2, <2>2, ElementOfSeq
    <2> QED BY <2>3 DEF TasksMatch, Queued
  <1> QED BY <1>1, <1>3 DEF Places

(* The fields of the entry other than busy.                                 *)
LEMMA EntryKept ==
  ASSUME ServiceTypeOK
  PROVE  /\ \A d \in Dirs, on \in BOOLEAN : SetCallback(d, on) =>
              /\ entry'.there /\ entry'.marked = entry.marked
              /\ entry'.cb = IF on THEN entry.cb \cup {d} ELSE entry.cb \ {d}
         /\ Track => entry'.there /\ ~entry'.marked /\ entry'.cb = {}
         /\ ~entry.marked =>
              /\ \A d \in Dirs : EndTask(d) =>
                   entry'.there = entry.there /\ ~entry'.marked /\ entry'.cb = entry.cb
              /\ Poll => entry'.there = entry.there /\ ~entry'.marked /\ entry'.cb = entry.cb
  <1> USE DEF ServiceTypeOK
  <1>1. ASSUME NEW d \in Dirs, NEW on \in BOOLEAN, SetCallback(d, on)
        PROVE  /\ entry'.there /\ entry'.marked = entry.marked
               /\ entry'.cb = IF on THEN entry.cb \cup {d} ELSE entry.cb \ {d}
    BY <1>1 DEF SetCallback
  <1>2. ASSUME Track PROVE entry'.there /\ ~entry'.marked /\ entry'.cb = {}
    BY <1>2 DEF Track
  <1>3. ASSUME ~entry.marked, NEW d \in Dirs, EndTask(d)
        PROVE  entry'.there = entry.there /\ ~entry'.marked /\ entry'.cb = entry.cb
    BY <1>3 DEF EndTask
  <1>4. ASSUME ~entry.marked, Poll
        PROVE  entry'.there = entry.there /\ ~entry'.marked /\ entry'.cb = entry.cb
    <2>1. entry' = entry \/ \E start \in SUBSET Dirs : entry' = [entry EXCEPT !.busy = @ \cup start]
      <3>1. CASE ProcessEvents
        BY <1>4, <3>1, BusyKept
      <3> QED BY <1>4, <3>1, BusyKept DEF Poll
    <2> QED BY <1>4, <2>1
  <1> QED BY <1>1, <1>2, <1>3, <1>4

LEMMA StaysRemovedNext == IInv /\ [Next]_vars => StaysRemoved'
  <1> SUFFICES ASSUME IInv, [Next]_vars, (pc[App] = "close")', waits', open' PROVE ~entry'.there
    BY DEF StaysRemoved
  <1> USE ThreadsKnown DEF Goto
  <1>0. /\ TypeOK /\ Places /\ TasksMatch /\ ServiceTypeOK
        /\ pc \in [Threads -> WorkerPlaces \cup AppPlaces]
    BY DEF IInv, TypeOK, WorkerPlaces, AppPlaces
  <1>1. CASE WaitForRemoval
    BY <1>1 DEF WaitForRemoval, Removed, serviceVars
  <1>2. CASE pc[App] = "close" /\ waits /\ open
    <2>1. entry = NoEntry
      BY <1>0, <1>2 DEF IInv, StaysRemoved, ServiceTypeOK
    <2>2. tasks = <<>> /\ \A w \in Workers : pc[w] = "idle"
      BY <1>0, <2>1, Silence DEF NoEntry
    <2>3. CASE PollStep
      <3>1. entry' = entry \/ entry' = NoEntry \/
              \E start \in SUBSET Dirs : entry' = [entry EXCEPT !.busy = @ \cup start]
        <4>1. CASE ProcessEvents
          BY <1>0, <4>1, BusyKept
        <4> QED BY <1>0, <2>3, <4>1, BusyKept DEF PollStep, Poll
      <3> QED BY <2>1, <3>1 DEF NoEntry
    <2>4. UNCHANGED entry => ~entry'.there
      BY <2>1 DEF NoEntry
    <2>5. ~Connect /\ ~Connected /\ ~WaitForRemoval
          /\ \A wait \in BOOLEAN, then \in {"alive", "dying"} : ~Disconnect(wait, then)
      BY <1>2 DEF Connect, Connected, Disconnect, WaitForRemoval
    <2>6. \A w \in Workers : ~Fetch(w) /\ ~Process(w) /\ ~CalledBack(w) /\ ~CallbackThrows(w)
      BY <2>2 DEF Fetch, Process, CalledBack, CallbackThrows
    <2>7. \A t \in Threads : pc[t] = "idle" \/ t = App
      BY <2>2 DEF Threads
    <2>8. \A t \in Threads, d \in Dirs : ~AsyncRequest(t, d)
      BY <1>2, <2>7 DEF AsyncRequest
    <2>9. \A t \in Threads : ~Check(t) /\ ~Unset(t) /\ ~Clear(t) /\ ~Leave(t)
      BY <1>2, <2>7 DEF Check, Unset, Clear, Leave
    <2>10. \A t \in Threads : Close(t) => UNCHANGED entry
      BY DEF Close, serviceVars
    <2>11. Destroyed \/ UNCHANGED vars => UNCHANGED entry
      BY DEF Destroyed, vars, serviceVars
    <2> QED BY <2>3, <2>4, <2>5, <2>6, <2>8, <2>9, <2>10, <2>11 DEF Next, Disconnecting
  <1>4. CASE pc[App] = "close" /\ waits /\ ~open
    <2>1. ~PollStep /\ ~Connect /\ ~Connected /\ ~WaitForRemoval /\ ~Destroyed /\ ~UNCHANGED vars
      BY <1>4 DEF PollStep, Connect, Connected, WaitForRemoval, Destroyed, vars, clientVars
    <2>2. \A wait \in BOOLEAN, then \in {"alive", "dying"} : ~Disconnect(wait, then)
      BY <1>4 DEF Disconnect
    <2>3. \A w \in Workers : ~Fetch(w) /\ ~Process(w) /\ ~CalledBack(w) /\ ~CallbackThrows(w)
      BY <1>4 DEF Fetch, Process, CalledBack, CallbackThrows
    <2>4. \A t \in Threads, d \in Dirs : ~AsyncRequest(t, d)
      BY <1>4 DEF AsyncRequest
    <2>5. \A t \in Threads : ~Check(t) /\ ~Unset(t) /\ ~Clear(t) /\ ~Leave(t) /\ ~Close(t)
      BY <1>4 DEF Check, Unset, Clear, Leave, Close
    <2> QED BY <2>1, <2>2, <2>3, <2>4, <2>5 DEF Next, Disconnecting
  <1>3. CASE ~WaitForRemoval /\ ~(pc[App] = "close" /\ waits)
    <2>1. ~PollStep /\ ~Connect /\ ~Connected /\ ~Destroyed /\ ~UNCHANGED vars
      BY <1>0, <1>3 DEF PollStep, Connect, Connected, Destroyed, vars, clientVars
    <2>2. \A wait \in BOOLEAN, then \in {"alive", "dying"} : ~Disconnect(wait, then)
      BY <1>0 DEF Disconnect
    <2>3. \A w \in Workers : ~Fetch(w) /\ ~Process(w) /\ ~CalledBack(w) /\ ~CallbackThrows(w)
      BY <1>0, <1>3 DEF Fetch, Process, CalledBack, CallbackThrows
    <2>4. \A t \in Threads, d \in Dirs : ~AsyncRequest(t, d)
      BY <1>0, <1>3 DEF AsyncRequest
    <2>5. \A t \in Threads : ~Check(t) /\ ~Unset(t) /\ ~Clear(t) /\ ~Leave(t) /\ ~Close(t)
      BY <1>0, <1>3 DEF Check, Unset, Clear, Leave, Close, After
    <2> QED BY <1>3, <2>1, <2>2, <2>3, <2>4, <2>5 DEF Next, Disconnecting
  <1> QED BY <1>1, <1>2, <1>3, <1>4

LEMMA ConnectingNext == IInv /\ [Next]_vars /\ CarefulInv /\ Careful => Connecting'
  <1> SUFFICES ASSUME IInv, [Next]_vars, Connecting, Careful, (pc[App] = "connect")'
               PROVE  (/\ ~connected /\ open /\ entry.there /\ ~entry.marked
                       /\ entry.cb = {} /\ entry.busy = {})'
    BY DEF CarefulInv, Connecting
  <1> USE ThreadsKnown DEF Goto
  <1>0. /\ TypeOK /\ Places /\ TasksMatch /\ ServiceTypeOK
        /\ pc \in [Threads -> WorkerPlaces \cup AppPlaces]
    BY DEF IInv, TypeOK, WorkerPlaces, AppPlaces
  <1>1. CASE Connect
    <2>1. entry = NoEntry
      BY <1>0, <1>1 DEF Connect, Settled, ServiceTypeOK
    <2>2. entry'.there /\ ~entry'.marked /\ entry'.cb = {} /\ entry'.busy = {}
      BY <1>0, <1>1, <2>1, BusyKept, EntryKept DEF Connect, NoEntry
    <2> QED BY <1>1, <2>2 DEF Connect
  <1>2. CASE pc[App] = "connect"
    <2>1. /\ ~connected /\ open /\ entry.there /\ ~entry.marked
          /\ entry.cb = {} /\ entry.busy = {}
      BY <1>2 DEF Connecting
    <2>2. tasks = <<>> /\ \A w \in Workers : pc[w] = "idle"
      BY <1>0, <2>1, Silence
    <2>3. CASE PollStep
      <3>1. entry'.there = entry.there /\ ~entry'.marked /\ entry'.cb = {}
        BY <1>0, <2>1, <2>3, EntryKept DEF PollStep
      <3>2. entry'.busy = {}
        <4>1. CASE ProcessEvents
          <5>1. PICK start \in SUBSET Dirs :
                  start \subseteq entry.cb /\ entry'.busy = entry.busy \cup start
            BY <1>0, <4>1, BusyKept
          <5> QED BY <2>1, <5>1
        <4> QED BY <1>0, <2>1, <2>3, <4>1, BusyKept DEF PollStep, Poll
      <3> QED BY <2>1, <2>3, <3>1, <3>2 DEF PollStep, clientVars
    <2>4. UNCHANGED <<connected, open, entry>> =>
            (/\ ~connected /\ open /\ entry.there /\ ~entry.marked
             /\ entry.cb = {} /\ entry.busy = {})'
      BY <2>1
    <2>5. \A t \in Threads : pc[t] = "idle" \/ t = App
      BY <2>2 DEF Threads
    <2>6. /\ ~Connect /\ ~Connected /\ ~WaitForRemoval
          /\ \A wait \in BOOLEAN, then \in {"alive", "dying"} : ~Disconnect(wait, then)
          /\ \A t \in Threads, d \in Dirs : ~AsyncRequest(t, d)
      BY <1>0, <1>2, <2>5 DEF Connect, Connected, Disconnect, WaitForRemoval, AsyncRequest
    <2>7. \A w \in Workers : ~Fetch(w) /\ ~Process(w) /\ ~CalledBack(w) /\ ~CallbackThrows(w)
      BY <2>2 DEF Fetch, Process, CalledBack, CallbackThrows
    <2>8. \A t \in Threads : ~Check(t) /\ ~Unset(t) /\ ~Clear(t) /\ ~Leave(t) /\ ~Close(t)
      BY <1>2, <2>5 DEF Check, Unset, Clear, Leave, Close
    <2>9. Destroyed \/ UNCHANGED vars => UNCHANGED <<connected, open, entry>>
      BY DEF Destroyed, vars, serviceVars, clientVars
    <2> QED BY <2>3, <2>4, <2>6, <2>7, <2>8, <2>9 DEF Next, Disconnecting
  <1>3. CASE ~Connect /\ pc[App] # "connect"
    <2>1. ~PollStep /\ ~Connected /\ ~WaitForRemoval /\ ~Destroyed /\ ~UNCHANGED vars
      BY <1>0, <1>3 DEF PollStep, Connected, WaitForRemoval, Destroyed, vars, clientVars
    <2>2. \A wait \in BOOLEAN, then \in {"alive", "dying"} : ~Disconnect(wait, then)
      BY <1>0 DEF Disconnect
    <2>3. \A w \in Workers : ~Fetch(w) /\ ~Process(w) /\ ~CalledBack(w) /\ ~CallbackThrows(w)
      BY <1>0, <1>3 DEF Fetch, Process, CalledBack, CallbackThrows
    <2>4. \A t \in Threads, d \in Dirs : ~AsyncRequest(t, d)
      BY <1>0, <1>3 DEF AsyncRequest
    <2>5. \A t \in Threads : ~Check(t) /\ ~Unset(t) /\ ~Clear(t) /\ ~Leave(t) /\ ~Close(t)
      BY <1>0, <1>3 DEF Check, Unset, Clear, Leave, Close, After
    <2> QED BY <1>3, <2>1, <2>2, <2>3, <2>4, <2>5 DEF Next, Disconnecting
  <1> QED BY <1>1, <1>2, <1>3

(* A thread that is about to clear stays there until it has.                *)
LEMMA ClearsNext == IInv /\ [Next]_vars /\ SomebodyClears => SomebodyClears'
  <1> SUFFICES ASSUME IInv, [Next]_vars, SomebodyClears PROVE SomebodyClears'
    OBVIOUS
  <1> DEFINE Clearing == \E t \in Threads : pc[t] = "clear"
             Nothing == \A d \in Dirs : requests[d] = 0
  <1> USE ThreadsKnown DEF Goto
  <1>0. /\ TypeOK /\ Places
        /\ pc \in [Threads -> WorkerPlaces \cup AppPlaces]
        /\ \A w \in Workers : pc[w] # "idle" => task[w] \in Dirs
        /\ requests \in [Dirs -> Nat]
    BY ClientAssumption DEF IInv, TypeOK, Places, WorkerPlaces, AppPlaces
  <1>1. connected \/ Clearing \/ Nothing
    BY DEF SomebodyClears
  <1>2. connected' \/ Clearing' \/ Nothing' => SomebodyClears'
    BY DEF SomebodyClears
  <1>3. ASSUME UNCHANGED <<connected, requests>>,
               UNCHANGED pc \/ \E t \in Threads, place \in WorkerPlaces \cup AppPlaces :
                                 pc[t] # "clear" /\ pc' = [pc EXCEPT ![t] = place]
        PROVE  SomebodyClears'
    <2>1. Clearing => Clearing'
      BY <1>0, <1>3
    <2> QED BY <1>1, <1>2, <1>3, <2>1
  <1>4. CASE PollStep \/ UNCHANGED vars
    BY <1>3, <1>4 DEF PollStep, vars, clientVars
  <1>5. CASE Connect
    BY <1>3, <1>5 DEF Connect, AppPlaces
  <1>6. CASE Connected
    BY <1>2, <1>6 DEF Connected
  <1>7. ASSUME NEW t \in Threads, NEW d \in Dirs, AsyncRequest(t, d) PROVE SomebodyClears'
    BY <1>2, <1>7 DEF AsyncRequest
  <1>8. ASSUME NEW wait \in BOOLEAN, NEW then \in {"alive", "dying"}, Disconnect(wait, then)
        PROVE  SomebodyClears'
    BY <1>3, <1>8 DEF Disconnect, AppPlaces
  <1>9. ASSUME NEW t \in Threads, Check(t) \/ Leave(t) \/ Close(t) PROVE SomebodyClears'
    BY <1>3, <1>9 DEF Check, Leave, Close, After, AppPlaces, WorkerPlaces
  <1>10. ASSUME NEW t \in Threads, Unset(t) PROVE SomebodyClears'
    <2>1. pc'[t] = "clear"
      BY <1>0, <1>10 DEF Unset
    <2> QED BY <1>2, <2>1
  <1>11. ASSUME NEW t \in Threads, Clear(t) PROVE SomebodyClears'
    BY <1>2, <1>11 DEF Clear
  <1>12. CASE WaitForRemoval \/ Destroyed
    BY <1>3, <1>12 DEF WaitForRemoval, Destroyed, AppPlaces
  <1>13. ASSUME NEW w \in Workers, Fetch(w) \/ CalledBack(w) \/ CallbackThrows(w)
         PROVE  SomebodyClears'
    BY <1>3, <1>13 DEF Fetch, CalledBack, CallbackThrows, WorkerPlaces
  <1>14. ASSUME NEW w \in Workers, Process(w) PROVE SomebodyClears'
    <2>1. task[w] \in Dirs
      BY <1>0, <1>14 DEF Process
    <2>2. requests' \in [Dirs -> Nat] /\ \A d \in Dirs : requests'[d] <= requests[d]
      BY <1>0, <1>14, <2>1, ProcessRequests
    <2>3. Nothing => Nothing'
      BY <1>0, <2>2
    <2>4. Clearing => Clearing'
      BY <1>0, <1>14 DEF Process
    <2>5. connected' = connected
      BY <1>14 DEF Process
    <2> QED BY <1>1, <1>2, <2>3, <2>4, <2>5
  <1> QED BY <1>4, <1>5, <1>6, <1>7, <1>8, <1>9, <1>10, <1>11, <1>12, <1>13, <1>14
          DEF Next, Disconnecting

(* Where no request is left and there is no connection, nothing is promised.*)
LEMMA UsableNext == IInv /\ [Next]_vars /\ CarefulInv /\ Careful => Usable'
  <1> SUFFICES ASSUME IInv, [Next]_vars, CarefulInv, Careful PROVE Usable'
    OBVIOUS
  <1> DEFINE Asked == {d \in Dirs : requests[d] > 0}
             Held == connected \/ Asked # {}
             Past == {"untrack", "removal", "close"}
  <1> USE ThreadsKnown DEF Goto
  <1>0. /\ TypeOK /\ Places /\ TasksMatch /\ ServiceTypeOK
        /\ pc \in [Threads -> WorkerPlaces \cup AppPlaces]
        /\ \A w \in Workers : pc[w] # "idle" => task[w] \in Dirs
        /\ requests \in [Dirs -> Nat] /\ connected \in BOOLEAN
    BY ClientAssumption DEF IInv, TypeOK, Places, WorkerPlaces, AppPlaces
  <1>1. Held => /\ open /\ entry.there /\ ~entry.marked /\ entry.cb = Asked
                /\ \A t \in Threads : pc[t] \notin Past
                /\ connected => \A t \in Threads : pc[t] # "clear"
    BY DEF CarefulInv, Usable
  <1>2. (Held' => /\ open' /\ entry'.there /\ ~entry'.marked /\ entry'.cb = Asked'
                  /\ \A t \in Threads : pc'[t] \notin Past
                  /\ connected' => \A t \in Threads : pc'[t] # "clear") => Usable'
    BY DEF Usable
  <1>3. ~connected => Asked = {} \/ \E t \in Threads : pc[t] = "clear"
    BY <1>0 DEF CarefulInv, SomebodyClears
  <1>4. ASSUME UNCHANGED <<connected, open, requests>>,
               Held => /\ entry'.there /\ ~entry'.marked /\ entry'.cb = entry.cb
                       /\ \A t \in Threads : pc'[t] # pc[t] => pc'[t] \notin Past \cup {"clear"}
        PROVE  Usable'
    BY <1>1, <1>2, <1>4
  <1>5. ASSUME UNCHANGED <<connected, open, requests, entry>>,
               \E t \in Threads, place \in (WorkerPlaces \cup AppPlaces) \ (Past \cup {"clear"}) :
                 pc' = [pc EXCEPT ![t] = place]
        PROVE  Usable'
    <2>1. \A t \in Threads : pc'[t] # pc[t] => pc'[t] \notin Past \cup {"clear"}
      BY <1>0, <1>5
    <2>2. Held => entry'.there /\ ~entry'.marked /\ entry'.cb = entry.cb
      BY <1>1, <1>5
    <2> HIDE DEF Held, Past
    <2> QED BY <1>4, <1>5, <2>1, <2>2
  <1>6. CASE PollStep
    <2>1. Held => entry'.there /\ ~entry'.marked /\ entry'.cb = entry.cb
      BY <1>0, <1>1, <1>6, EntryKept DEF PollStep
    <2> QED BY <1>4, <1>6, <2>1 DEF PollStep, clientVars
  <1>7. CASE Connect
    <2>1. ~connected /\ \A t \in Threads : pc[t] = "idle"
      BY <1>7 DEF Connect, Settled, Threads
    <2>2. Asked = {}
      BY <1>3, <2>1
    <2> QED BY <1>2, <1>7, <2>1, <2>2 DEF Connect
  <1>8. CASE Connected
    <2>1. /\ ~connected /\ open /\ entry.there /\ ~entry.marked
          /\ entry.cb = {} /\ entry.busy = {}
      BY <1>8 DEF Connected, CarefulInv, Connecting
    <2>2. \A w \in Workers : pc[w] = "idle"
      BY <1>0, <2>1, Silence
    <2>3. \A t \in Threads : pc[t] \in {"idle", "connect"}
      BY <1>8, <2>2 DEF Connected, Threads
    <2>4. Asked = {}
      BY <1>3, <2>1, <2>3
    <2>5. \A t \in Threads : pc'[t] = "idle"
      BY <1>0, <1>8, <2>2 DEF Connected, Threads
    <2>6. UNCHANGED <<open, requests, entry>>
      BY <1>8 DEF Connected, serviceVars
    <2> QED BY <1>2, <2>1, <2>4, <2>5, <2>6
  <1>9. ASSUME NEW t \in Threads, NEW d \in Dirs, AsyncRequest(t, d) PROVE Usable'
    <2>1. /\ connected /\ SetCallback(d, TRUE) /\ requests' = [requests EXCEPT ![d] = @ + 1]
          /\ UNCHANGED <<connected, open, pc>>
      BY <1>9 DEF AsyncRequest
    <2>2. entry'.there /\ entry'.marked = entry.marked /\ entry'.cb = entry.cb \cup {d}
      BY <1>0, <2>1, EntryKept
    <2>3. Asked' = Asked \cup {d}
      BY <1>0, <2>1
    <2> HIDE DEF Asked
    <2> QED BY <1>1, <1>2, <2>1, <2>2, <2>3
  <1>10. ASSUME NEW wait \in BOOLEAN, NEW then \in {"alive", "dying"}, Disconnect(wait, then)
         PROVE  Usable'
    BY <1>5, <1>10 DEF Disconnect, AppPlaces, serviceVars
  <1>11. ASSUME NEW t \in Threads, Check(t) PROVE Usable'
    BY <1>5, <1>11 DEF Check, After, AppPlaces, WorkerPlaces, serviceVars
  <1>12. ASSUME NEW t \in Threads, Unset(t) PROVE Usable'
    <2>1. ~connected' /\ UNCHANGED <<requests, open, entry>> /\ pc' = [pc EXCEPT ![t] = "clear"]
      BY <1>12 DEF Unset, serviceVars
    <2>2. \A s \in Threads : pc'[s] \in {pc[s], "clear"}
      BY <1>0, <2>1
    <2> QED BY <1>1, <1>2, <2>1, <2>2
  <1>13. ASSUME NEW t \in Threads, Clear(t) PROVE Usable'
    <2>1. ~connected /\ connected' = connected
      BY <1>1, <1>13 DEF Clear
    <2>2. Asked' = {}
      BY <1>13 DEF Clear
    <2> QED BY <1>2, <2>1, <2>2
  <1>14. ASSUME NEW t \in Threads, Leave(t) \/ Close(t) PROVE Usable'
    <2>1. ~Held /\ UNCHANGED <<connected, requests>>
      BY <1>1, <1>14 DEF Leave, Close
    <2> QED BY <1>2, <2>1
  <1>15. CASE WaitForRemoval
    <2>1. ~Held /\ UNCHANGED <<connected, requests>>
      BY <1>1, <1>15 DEF WaitForRemoval
    <2> QED BY <1>2, <2>1
  <1>16. CASE Destroyed \/ UNCHANGED vars
    BY <1>1, <1>4, <1>16 DEF Destroyed, vars, serviceVars, clientVars
  <1>17. ASSUME NEW w \in Workers, Fetch(w) \/ CallbackThrows(w) PROVE Usable'
    BY <1>5, <1>17 DEF Fetch, CallbackThrows, WorkerPlaces, serviceVars
  <1>18. ASSUME NEW w \in Workers, Process(w) PROVE Usable'
    <2> DEFINE d == task[w]
    <2>1. d \in Dirs /\ UNCHANGED <<connected, open>>
          /\ \E place \in {"callback", "check"} : pc' = [pc EXCEPT ![w] = place]
      BY <1>0, <1>18 DEF Process
    <2>2. \A s \in Threads : pc'[s] \in {pc[s], "callback", "check"}
      BY <1>0, <2>1
    <2>3. CASE UNCHANGED <<requests, entry>>
      BY <1>1, <1>2, <2>1, <2>2, <2>3
    <2>4. CASE requests[d] > 0 /\ requests' = [requests EXCEPT ![d] = @ - 1]
      <3>1. Held
        BY <2>1, <2>4
      <3>2. CASE requests[d] = 1 /\ SetCallback(d, FALSE)
        <4>1. entry'.there /\ entry'.marked = entry.marked /\ entry'.cb = entry.cb \ {d}
          BY <1>0, <2>1, <3>2, EntryKept
        <4>2. Asked' = Asked \ {d}
          BY <1>0, <2>1, <2>4, <3>2
        <4> HIDE DEF Asked, d
        <4> QED BY <1>1, <1>2, <2>1, <2>2, <3>1, <4>1, <4>2
      <3>3. CASE requests[d] # 1 /\ UNCHANGED entry
        <4>1. Asked' = Asked
          BY <1>0, <2>1, <2>4, <3>3
        <4> HIDE DEF Asked, d
        <4> QED BY <1>1, <1>2, <2>1, <2>2, <3>1, <3>3, <4>1
      <3>4. IF requests[d] = 1 THEN SetCallback(d, FALSE) ELSE UNCHANGED serviceVars
        <4>1. requests[d] # 0
          BY <2>4
        <4> QED BY <1>18, <4>1 DEF Process
      <3> QED BY <3>2, <3>3, <3>4 DEF serviceVars
    <2> QED BY <1>18, <2>3, <2>4 DEF Process, serviceVars
  <1>19. ASSUME NEW w \in Workers, CalledBack(w) PROVE Usable'
    <2>1. EndTask(task[w]) /\ task[w] \in Dirs /\ UNCHANGED <<connected, open, requests>>
          /\ pc' = [pc EXCEPT ![w] = "idle"]
      BY <1>0, <1>19 DEF CalledBack
    <2>2. Held => entry'.there /\ ~entry'.marked /\ entry'.cb = entry.cb
      BY <1>0, <1>1, <2>1, EntryKept
    <2>3. \A t \in Threads : pc'[t] # pc[t] => pc'[t] = "idle"
      BY <1>0, <2>1
    <2> HIDE DEF Held
    <2> QED BY <1>4, <2>1, <2>2, <2>3
  <1> QED BY <1>6, <1>7, <1>8, <1>9, <1>10, <1>11, <1>12, <1>13, <1>14, <1>15, <1>16, <1>17,
             <1>18, <1>19 DEF Next, Disconnecting
-----------------------------------------------------------------------------
LEMMA IInvInit == Init => IInv
  <1> SUFFICES ASSUME Init PROVE IInv
    OBVIOUS
  <1> USE ClientAssumption, ThreadsKnown
  <1>1. ServiceTypeOK
    <2>1. entry = NoEntry /\ tasks = <<>>
      BY DEF Init, ServiceInit
    <2>2. entry \in [there : BOOLEAN, cb : SUBSET Dirs, busy : SUBSET Dirs, marked : BOOLEAN]
      BY <2>1 DEF NoEntry
    <2>3. tasks \in Seq(Dirs)
      BY <2>1
    <2> QED BY <2>1, <2>2, <2>3 DEF Init, ServiceInit, ServiceTypeOK
  <1>2. TypeOK
    <2>1. 0 \in 0..MaxRequests /\ 0 \in 0..MaxConnects
      OBVIOUS
    <2>2. /\ requests \in [Dirs -> 0..MaxRequests]
          /\ task \in [Workers -> Dirs \cup {None}]
          /\ pc \in [Threads -> {"idle", "connect", "check", "unset", "clear", "untrack",
                                 "removal", "close", "process", "callback"}]
      BY <2>1 DEF Init
    <2>3. /\ connected \in BOOLEAN /\ open \in BOOLEAN /\ waits \in BOOLEAN
          /\ life \in {"alive", "dying", "dead"}
          /\ asked \in 0..MaxRequests /\ connects \in 0..MaxConnects
      BY <2>1 DEF Init
    <2> QED BY <1>1, <2>2, <2>3 DEF TypeOK
  <1>3. Places /\ RequestsAsked
    BY DEF Init, Places, WorkerPlaces, AppPlaces, RequestsAsked
  <1>4. TasksMatch
    <2>1. entry.busy = {} /\ tasks = <<>> /\ \A w \in Workers : task[w] = None
      BY DEF Init, ServiceInit, NoEntry
    <2>2. Len(tasks) = 0 /\ None \notin Dirs
      BY <2>1 DEF Dirs
    <2> QED BY <2>1, <2>2 DEF TasksMatch, Queued, Taken
  <1>5. StaysRemoved /\ CarefulInv
    BY DEF Init, StaysRemoved, CarefulInv, Connecting, SomebodyClears, Usable
  <1> QED BY <1>2, <1>3, <1>4, <1>5 DEF IInv

THEOREM Invariance == Spec => []IInv
  <1>1. IInv /\ [Next]_vars => IInv'
    <2> SUFFICES ASSUME IInv, [Next]_vars PROVE IInv'
      OBVIOUS
    <2>1. CarefulInv'
      <3>1. CarefulInv
        BY DEF IInv
      <3>2. Careful => Connecting' /\ SomebodyClears' /\ Usable'
        BY <3>1, ConnectingNext, ClearsNext, UsableNext DEF CarefulInv
      <3> QED BY <3>2 DEF CarefulInv
    <2> QED BY <2>1, TypeNext, PlacesNext, TasksNext, StaysRemovedNext DEF IInv
  <1> QED BY <1>1, IInvInit, PTL DEF Spec

(* Every variable of the client and of the service keeps its type; in       *)
(* particular the counts of requests stay between 0 and those asked for.    *)
THEOREM TcpTypeOK == Spec => []TypeOK
  <1>1. IInv => TypeOK
    BY DEF IInv
  <1> QED BY <1>1, Invariance, PTL

LEMMA OneOrNone ==
  ASSUME NEW S, NEW b \in BOOLEAN, \A x, y \in S : x = y, b <=> S # {}
  PROVE  Cardinality(S) = IF b THEN 1 ELSE 0
  <1>1. CASE S = {}
    BY <1>1, FS_EmptySet
  <1>2. CASE S # {}
    <2>1. PICK x : x \in S
      BY <1>2
    <2>2. S = {x}
      BY <2>1
    <2> QED BY <1>2, <2>2, FS_Singleton
  <1> QED BY <1>1, <1>2

(* The service keeps its promise to its client: a direction has one task at *)
(* most and is flagged while it has; wait_for_removal() returns into        *)
(* silence, if nobody else has closed the socket; and a connected client    *)
(* that waited is tracked with the callbacks its requests need.             *)
THEOREM ServiceKeepsItsPromise == Spec => []ServiceKeepsPromise
  <1>1. ASSUME IInv PROVE OneTaskPerDirection
    <2> SUFFICES ASSUME NEW d \in Dirs
                 PROVE  TasksOf(d) <= 1 /\ (TasksOf(d) = 1 => d \in entry.busy)
      BY DEF OneTaskPerDirection
    <2> DEFINE Q == {i \in 1..Len(tasks) : tasks[i] = d}
               T == {w \in Workers : task[w] = d}
    <2>1. TasksMatch /\ d # None
      BY <1>1, ClientAssumption DEF IInv, Dirs
    <2>2. \A i, j \in Q : i = j
      BY <2>1 DEF TasksMatch
    <2>3. \A w, v \in T : w = v
      BY <2>1 DEF TasksMatch
    <2>4. (Queued(d) <=> Q # {}) /\ (Taken(d) <=> T # {})
      BY DEF Queued, Taken
    <2>5. (Q # {}) \in BOOLEAN /\ (T # {}) \in BOOLEAN
      OBVIOUS
    <2>6. Cardinality(Q) = IF Q # {} THEN 1 ELSE 0
      <3> HIDE DEF Q
      <3> QED BY <2>2, <2>5, OneOrNone
    <2>7. Cardinality(T) = IF T # {} THEN 1 ELSE 0
      <3> HIDE DEF T
      <3> QED BY <2>3, <2>5, OneOrNone
    <2>8. ~(Queued(d) /\ Taken(d)) /\ (Queued(d) \/ Taken(d) => d \in entry.busy)
      BY <2>1 DEF TasksMatch
    <2> HIDE DEF Q, T
    <2>9. /\ Cardinality(Q) + Cardinality(T) <= 1
          /\ Cardinality(Q) + Cardinality(T) = 1 => d \in entry.busy
      BY <2>4, <2>6, <2>7, <2>8
    <2> QED BY <2>9 DEF Q, T, TasksOf
  <1>2. ASSUME IInv PROVE WaitMeansSilence
    <2>1. pc[App] = "close" /\ waits /\ open => entry.busy = {}
      BY <1>2 DEF IInv, StaysRemoved, TypeOK, ServiceTypeOK, NoEntry
    <2> QED BY <1>2, <2>1, Silence DEF IInv, WaitMeansSilence
  <1>3. ASSUME IInv PROVE RequestsHaveCallbacks
    <2> SUFFICES ASSUME Careful
                 PROVE  /\ connected => open /\ entry.there /\ entry.cb = {d \in Dirs : requests[d] > 0}
                        /\ \A w \in Workers :
                             pc[w] = "process" /\ requests[task[w]] > 0 => open /\ entry.there
      BY DEF RequestsHaveCallbacks
    <2>1. Usable
      BY <1>3 DEF IInv, CarefulInv
    <2>2. \A w \in Workers : pc[w] = "process" => task[w] \in Dirs
      BY <1>3 DEF IInv, TypeOK, Places
    <2> QED BY <2>1, <2>2 DEF Usable
  <1>4. IInv => ServiceKeepsPromise
    BY <1>1, <1>2, <1>3 DEF ServiceKeepsPromise
  <1> QED BY <1>4, Invariance, PTL

(* The polling thread reads the entry for its sets when it has forgotten    *)
(* the pipe, never the other way round; and an operation that changes the   *)
(* entry finds one, or makes one.                                           *)
LEMMA ToldNext == ServiceTypeOK /\ PollerIsTold /\ [Next]_vars => PollerIsTold'
  <1> SUFFICES ASSUME ServiceTypeOK, PollerIsTold, [Next]_vars PROVE PollerIsTold'
    OBVIOUS
  <1>0. entry \in [there : BOOLEAN, cb : SUBSET Dirs, busy : SUBSET Dirs, marked : BOOLEAN]
        /\ (~entry.there => entry = NoEntry)
    BY DEF ServiceTypeOK
  <1>1. ASSUME entry' = entry, pipe' = pipe, poll' = poll, watched' = watched, polled' = polled
        PROVE  PollerIsTold'
    BY <1>1 DEF PollerIsTold
  <1>2. ASSUME pipe' PROVE PollerIsTold'
    BY <1>2 DEF PollerIsTold
  <1>3. ASSUME ~entry.there, entry' = entry \/ entry' = NoEntry, UNCHANGED <<pipe, poll, watched, polled>>
        PROVE  PollerIsTold'
    BY <1>0, <1>1, <1>3
  <1>4. CASE UNCHANGED serviceVars
    BY <1>1, <1>4 DEF serviceVars
  <1>5. CASE PollStep
    <2>1. CASE Prepare
      BY <1>0, <2>1 DEF Prepare, PollerIsTold
    <2>2. CASE ProcessEvents \/ \E some \in SUBSET Dirs : Select(some, open)
      BY <2>2 DEF ProcessEvents, Select, PollerIsTold
    <2> QED BY <1>5, <2>1, <2>2 DEF PollStep, Poll
  <1>6. CASE Untrack
    <2>1. CASE entry.there
      BY <1>2, <1>6, <2>1 DEF Untrack
    <2>2. CASE ~entry.there
      <3>1. entry.busy = {}
        BY <1>0, <2>2 DEF NoEntry
      <3> QED BY <1>3, <1>6, <2>2, <3>1 DEF Untrack
    <2> QED BY <2>1, <2>2
  <1>7. ASSUME NEW d, EndTask(d) PROVE PollerIsTold'
    <2>1. CASE entry.there
      BY <1>2, <1>7, <2>1 DEF EndTask
    <2>2. CASE ~entry.there
      <3>1. entry = NoEntry /\ NoEntry.busy = {} /\ NoEntry.marked = FALSE
        BY <1>0, <2>2 DEF NoEntry
      <3>2. [NoEntry EXCEPT !.busy = @ \ {d}] = NoEntry
        BY DEF NoEntry
      <3>3. entry' = NoEntry
        BY <1>7, <3>1, <3>2 DEF EndTask
      <3> QED BY <1>3, <1>7, <2>2, <3>3 DEF EndTask
    <2> QED BY <2>1, <2>2
  <1>8. CASE \E w \in Workers : Fetch(w)
    BY <1>1, <1>8 DEF Fetch
  <1>9. CASE \E w \in Workers : Process(w)
    <2>1. PICK w \in Workers : Process(w)
      BY <1>9
    <2>2. UNCHANGED serviceVars \/ SetCallback(task[w], FALSE)
      BY <2>1 DEF Process
    <2> QED BY <1>2, <1>4, <2>2 DEF SetCallback
  <1>throws. CASE \E w \in Workers : CallbackThrows(w)
    BY <1>4, <1>throws DEF CallbackThrows
  <1>10. CASE \E w \in Workers : CalledBack(w)
    <2>1. PICK w \in Workers : EndTask(task[w])
      BY <1>10 DEF CalledBack
    <2> QED BY <1>7, <2>1
  <1>11. CASE \E t \in Threads : Disconnecting(t)
    BY <1>4, <1>6, <1>11 DEF Disconnecting, Check, Unset, Clear, Leave, Close
  <1>12. CASE Connect \/ Connected \/ \E t \in Threads, d \in Dirs : AsyncRequest(t, d)
    BY <1>2, <1>4, <1>12 DEF Connect, Connected, AsyncRequest, Track, SetCallback
  <1>13. CASE WaitForRemoval \/ Destroyed
              \/ \E wait \in BOOLEAN, then \in {"alive", "dying"} : Disconnect(wait, then)
    BY <1>4, <1>13 DEF WaitForRemoval, Destroyed, Disconnect
  <1> QED BY <1>4, <1>5, <1>8, <1>9, <1>throws, <1>10, <1>11, <1>12, <1>13 DEF Next, vars

(* select() never sleeps on sets that are outdated: it has been told.       *)
THEOREM PollerLearnsOfChanges == Spec => []PollerIsTold
  <1>1. Init => PollerIsTold
    BY DEF Init, ServiceInit, PollerIsTold
  <1>2. TypeOK => ServiceTypeOK
    BY DEF TypeOK
  <1> QED BY <1>1, <1>2, ToldNext, TcpTypeOK, PTL DEF Spec
-----------------------------------------------------------------------------
(***************************************************************************)
(* DestroyedIsSilent does not hold: ~tcp_client() asks for the flag first, *)
(* and a worker that is disconnecting the client has cleared it already;   *)
(* or the worker passes the test of the flag together with the destructor  *)
(* and closes the socket, and then there is no descriptor to wait for.     *)
(* The following says that nothing else is wrong with the destructor.      *)
(***************************************************************************)

(* Where the destructor needs the descriptor of the socket.                 *)
InDisconnect == pc[App] \in {"unset", "clear", "untrack", "removal"}

(* The destructor finds the client connected, or nothing of it in the table *)
(* of the service, and until it has waited no worker closes the socket.     *)
DestroysAlone ==
  life = "dying" =>
    /\ Check(App) => (connected /\ open) \/ ~entry.there
    /\ \A w \in Workers : Close(w) => ~InDisconnect

(* The destructor waits, and is the only thing the application does then.   *)
Dying == /\ life # "alive" => waits /\ pc[App] # "connect"
         /\ life = "dead" => pc[App] = "idle"

(* The destructor has been through disconnect(), or has at least waited:    *)
(* the entry is gone.  Before, the socket is open.                          *)
Gone == life # "alive" =>
          /\ pc[App] \in {"idle", "close"} => ~entry.there
          /\ InDisconnect => open \/ ~entry.there

LEMMA DyingNext == IInv /\ Dying /\ [Next]_vars => Dying'
  <1> SUFFICES ASSUME IInv, Dying, [Next]_vars PROVE Dying'
    OBVIOUS
  <1> USE ThreadsKnown DEF Dying, Goto
  <1>0. pc \in [Threads -> WorkerPlaces \cup AppPlaces]
    BY DEF IInv, TypeOK, WorkerPlaces, AppPlaces
  <1>1. ASSUME NEW w \in Workers, Fetch(w) \/ Process(w) \/ CalledBack(w) \/ CallbackThrows(w) PROVE Dying'
    BY <1>0, <1>1 DEF Fetch, Process, CalledBack, CallbackThrows
  <1>2. ASSUME NEW t \in Threads, Disconnecting(t) PROVE Dying'
    <2>1. pc'[App] # "connect" \/ pc'[App] = pc[App]
      BY <1>0, <1>2 DEF Disconnecting, Check, Unset, Clear, Leave, Close, After
    <2>2. pc[App] = "idle" => pc'[App] = "idle"
      BY <1>0, <1>2 DEF Disconnecting, Check, Unset, Clear, Leave, Close
    <2>3. UNCHANGED <<waits, life>>
      BY <1>2 DEF Disconnecting, Check, Unset, Clear, Leave, Close
    <2> QED BY <2>1, <2>2, <2>3
  <1>3. ASSUME NEW wait \in BOOLEAN, NEW then \in {"alive", "dying"}, Disconnect(wait, then)
        PROVE  Dying'
    BY <1>0, <1>3 DEF Disconnect
  <1>4. CASE Connect \/ Connected \/ WaitForRemoval \/ Destroyed
    BY <1>0, <1>4 DEF Connect, Connected, WaitForRemoval, Destroyed
  <1>5. CASE PollStep \/ (\E t \in Threads, d \in Dirs : AsyncRequest(t, d)) \/ UNCHANGED vars
    BY <1>5 DEF PollStep, AsyncRequest, vars, clientVars
  <1> QED BY <1>1, <1>2, <1>3, <1>4, <1>5 DEF Next

(* Nothing of a dying client comes back into the table.                     *)
LEMMA GoneStays ==
  ASSUME IInv, [Next]_vars, life # "alive", ~entry.there
  PROVE  ~entry'.there
  <1> USE ThreadsKnown DEF Goto
  <1>1. TypeOK /\ Places /\ TasksMatch /\ ServiceTypeOK /\ entry = NoEntry
    BY DEF IInv, TypeOK, ServiceTypeOK
  <1>2. tasks = <<>> /\ \A w \in Workers : pc[w] = "idle"
    BY <1>1, Silence DEF NoEntry
  <1>3. UNCHANGED entry => ~entry'.there
    BY <1>1 DEF NoEntry
  <1>4. CASE PollStep
    <2>1. entry' = entry \/ entry' = NoEntry \/
            \E start \in SUBSET Dirs : entry' = [entry EXCEPT !.busy = @ \cup start]
      <3>1. CASE ProcessEvents
        BY <1>1, <3>1, BusyKept
      <3> QED BY <1>1, <1>4, <3>1, BusyKept DEF PollStep, Poll
    <2> QED BY <1>1, <2>1 DEF NoEntry
  <1>5. ~Connect /\ \A t \in Threads, d \in Dirs : ~AsyncRequest(t, d)
    BY DEF Connect, AsyncRequest
  <1>6. \A w \in Workers : ~Fetch(w) /\ ~Process(w) /\ ~CalledBack(w) /\ ~CallbackThrows(w)
    BY <1>2 DEF Fetch, Process, CalledBack, CallbackThrows
  <1>7. ASSUME NEW t \in Threads, Disconnecting(t) PROVE ~entry'.there
    <2>1. CASE Leave(t)
      BY <1>1, <2>1 DEF Leave, Untrack, NoEntry, serviceVars
    <2>2. CASE ~Leave(t)
      BY <1>3, <1>7, <2>2 DEF Disconnecting, Check, Unset, Clear, Close, serviceVars
    <2> QED BY <2>1, <2>2
  <1>8. CASE \/ Connected \/ WaitForRemoval \/ Destroyed \/ UNCHANGED vars
             \/ \E wait \in BOOLEAN, then \in {"alive", "dying"} : Disconnect(wait, then)
    BY <1>3, <1>8 DEF Connected, WaitForRemoval, Destroyed, Disconnect, vars, serviceVars
  <1> QED BY <1>4, <1>5, <1>6, <1>7, <1>8 DEF Next

LEMMA GoneNext ==
    IInv /\ Dying /\ Gone /\ [Next]_vars /\ [DestroysAlone]_vars => Gone'
  <1> SUFFICES ASSUME IInv, Dying, Gone, [Next]_vars, [DestroysAlone]_vars, life' # "alive"
               PROVE  /\ pc'[App] \in {"idle", "close"} => ~entry'.there
                      /\ InDisconnect' => open' \/ ~entry'.there
    BY DEF Gone
  <1> USE ThreadsKnown DEF Goto, Dying, InDisconnect
  <1>0. pc \in [Threads -> WorkerPlaces \cup AppPlaces] /\ life \in {"alive", "dying", "dead"}
        /\ (life = "alive" \/ ~entry.there => pc'[App] = "check" \/ ~entry'.there)
    <2>1. pc \in [Threads -> WorkerPlaces \cup AppPlaces] /\ life \in {"alive", "dying", "dead"}
      BY DEF IInv, TypeOK, WorkerPlaces, AppPlaces
    <2>2. ASSUME life = "alive" PROVE pc'[App] = "check"
      <3>1. ASSUME NEW wait \in BOOLEAN, NEW then \in {"alive", "dying"}, Disconnect(wait, then)
            PROVE  pc'[App] = "check"
        BY <2>1, <3>1 DEF Disconnect
      <3>2. ASSUME NEW w \in Workers,
                   Fetch(w) \/ Process(w) \/ CalledBack(w) \/ CallbackThrows(w)
            PROVE  life' = life
        BY <3>2 DEF Fetch, Process, CalledBack, CallbackThrows
      <3>3. ASSUME NEW t \in Threads, Disconnecting(t) PROVE life' = life
        BY <3>3 DEF Disconnecting, Check, Unset, Clear, Leave, Close
      <3>4. CASE \/ PollStep \/ Connect \/ Connected \/ WaitForRemoval \/ UNCHANGED vars
                 \/ \E t \in Threads, d \in Dirs : AsyncRequest(t, d)
        BY <2>2, <3>4 DEF PollStep, Connect, Connected, WaitForRemoval, AsyncRequest, vars, clientVars
      <3>5. CASE Destroyed
        BY <2>2, <3>5 DEF Destroyed
      <3> QED BY <2>2, <3>1, <3>2, <3>3, <3>4, <3>5 DEF Next
    <2>3. life # "alive" /\ ~entry.there => ~entry'.there
      BY GoneStays
    <2> QED BY <2>1, <2>2, <2>3
  <1>1. CASE life = "alive" \/ ~entry.there
    BY <1>0, <1>1
  <1>2. CASE life # "alive" /\ entry.there
    <2>1. pc[App] \notin {"idle", "close"} /\ (InDisconnect => open) /\ life = "dying"
      BY <1>0, <1>2 DEF Gone
    <2>2. CASE WaitForRemoval
      BY <1>0, <1>2, <2>1, <2>2 DEF WaitForRemoval, Removed
    <2>3. CASE Check(App)
      <3>1. pc'[App] # pc[App] /\ open' = open
        BY <1>0, <2>3 DEF Check, After
      <3>2. connected /\ open
        BY <1>2, <2>1, <2>3, <3>1 DEF DestroysAlone, vars, clientVars
      <3> QED BY <1>0, <2>3, <3>1, <3>2 DEF Check
    <2>4. CASE Unset(App) \/ Clear(App) \/ Leave(App)
      BY <1>0, <2>1, <2>4 DEF Unset, Clear, Leave
    <2>5. ~Close(App) /\ ~Connect /\ ~Connected /\ ~Destroyed
          /\ \A wait \in BOOLEAN, then \in {"alive", "dying"} : ~Disconnect(wait, then)
      BY <1>2, <2>1 DEF Close, Connect, Connected, Destroyed, Disconnect
    <2>6. ASSUME NEW w \in Workers, Close(w) PROVE pc'[App] = pc[App] /\ ~InDisconnect
      <3>1. pc'[w] # pc[w]
        BY <1>0, <2>6 DEF Close, After
      <3>2. DestroysAlone
        BY <3>1 DEF vars, clientVars
      <3> QED BY <1>0, <2>1, <2>6, <3>2 DEF DestroysAlone, Close
    <2>7. ASSUME NEW w \in Workers,
                 \/ Fetch(w) \/ Process(w) \/ CalledBack(w) \/ CallbackThrows(w)
                 \/ Check(w) \/ Unset(w) \/ Clear(w) \/ Leave(w)
          PROVE  pc'[App] = pc[App] /\ open' = open
      BY <1>0, <2>7 DEF Fetch, Process, CalledBack, CallbackThrows, Check, Unset, Clear, Leave
    <2>8. CASE PollStep \/ (\E t \in Threads, d \in Dirs : AsyncRequest(t, d)) \/ UNCHANGED vars
      BY <2>1, <2>8 DEF PollStep, AsyncRequest, vars, clientVars
    <2> QED BY <2>1, <2>2, <2>3, <2>4, <2>5, <2>6, <2>7, <2>8 DEF Next, Disconnecting, Threads
  <1> QED BY <1>1, <1>2

(* As long as the destructor meets no worker that is disconnecting the same *)
(* client, a client that is destroyed is left alone: no task of it is       *)
(* queued, and no worker is inside it.  This holds for applications that do *)
(* not wait before they connect again, too.                                 *)
THEOREM DestructorWaitsForAll ==
    Spec /\ [][DestroysAlone]_vars => []DestroyedIsSilent
  <1>1. Init => Dying /\ Gone
    BY DEF Init, Dying, Gone
  <1>2. IInv /\ Dying /\ Gone => DestroyedIsSilent
    <2> SUFFICES ASSUME IInv, Dying, Gone, life = "dead"
                 PROVE  tasks = <<>> /\ \A w \in Workers : pc[w] = "idle"
      BY DEF DestroyedIsSilent
    <2>1. entry = NoEntry
      BY DEF IInv, Dying, Gone, TypeOK, ServiceTypeOK
    <2> QED BY <2>1, Silence DEF IInv, NoEntry
  <1> QED BY <1>1, <1>2, DyingNext, GoneNext, Invariance, PTL DEF Spec
=============================================================================

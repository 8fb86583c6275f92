------------------------------ MODULE IoService ------------------------------
(***************************************************************************)
(* io_service of sharp_tcp.hpp, for one socket: the table entry of the     *)
(* socket, the polling thread and the tasks it gives to the pool.  The     *)
(* functions of the service are operators for the modules of its users;    *)
(* each is one section under _tracked_sockets_mtx.                         *)
(***************************************************************************)
EXTENDS Naturals, Sequences, FiniteSets

VARIABLES entry,    \* _tracked_sockets[fd]
          pipe,     \* something is in the self pipe
          poll,     \* where the polling thread stands
          watched,  \* the directions whose fd_set holds the socket
          polled,   \* the socket is in _polled_fds
          ready,    \* what select() has left in the fd_sets
          woken,    \* and whether it has left the pipe in
          tasks     \* the tasks of the pool that no worker has taken yet

serviceVars == <<entry, pipe, poll, watched, polled, ready, woken, tasks>>

Dirs == {"rd", "wr"}

(* The fields of a tracked_socket; there: the table has an entry at all.    *)
NoEntry == [there |-> FALSE, cb |-> {}, busy |-> {}, marked |-> FALSE]

ServiceInit ==
  /\ entry = NoEntry /\ pipe = FALSE
  /\ poll = "prepare" /\ watched = {} /\ polled = FALSE
  /\ ready = {} /\ woken = FALSE
  /\ tasks = <<>>
-----------------------------------------------------------------------------
(* track(): a new entry, or the old one with what a callback that is still  *)
(* running will need left alone.                                            *)
Track ==
  /\ entry' = [entry EXCEPT !.there = TRUE, !.cb = {}, !.marked = FALSE]
  /\ pipe' = TRUE
  /\ UNCHANGED <<poll, watched, polled, ready, woken, tasks>>

SetCallbackBug(d, on) ==   \* the polling thread is not told
  /\ entry' = [entry EXCEPT !.there = TRUE,
                            !.cb = IF on THEN @ \cup {d} ELSE @ \ {d}]
  /\ UNCHANGED <<pipe, poll, watched, polled, ready, woken, tasks>>

(* set_rd_callback() and set_wr_callback(), which create an entry if need be *)
SetCallback(d, on) ==
  /\ entry' = [entry EXCEPT !.there = TRUE,
                            !.cb = IF on THEN @ \cup {d} ELSE @ \ {d}]
  /\ pipe' = TRUE
  /\ UNCHANGED <<poll, watched, polled, ready, woken, tasks>>

UntrackBug ==   \* erased whether or not a callback is executing
  /\ entry' = NoEntry
  /\ pipe' = TRUE
  /\ UNCHANGED <<poll, watched, polled, ready, woken, tasks>>

(* untrack(): whoever ends the last callback erases a marked entry.         *)
Untrack ==
  /\ entry' = IF entry.busy = {} THEN NoEntry ELSE [entry EXCEPT !.marked = TRUE]
  /\ pipe' = IF entry.there THEN TRUE ELSE pipe
  /\ UNCHANGED <<poll, watched, polled, ready, woken, tasks>>

(* The predicate of wait_for_removal(), which looks up the descriptor that  *)
(* the socket has now: without one there is nothing to wait for, whatever   *)
(* the table still holds.                                                   *)
Removed(open) == open => ~entry.there

EndTaskBug(d) ==   \* the polling thread is told of an erased entry only
  /\ entry' = LET e == [entry EXCEPT !.busy = @ \ {d}]
              IN  IF e.marked /\ e.busy = {} THEN NoEntry ELSE e
  /\ pipe' = IF entry.marked THEN TRUE ELSE pipe
  /\ UNCHANGED <<poll, watched, polled, ready, woken, tasks>>

(* What the task does when the callback has returned, not when it has       *)
(* thrown: the pool catches the exception, and the entry goes on executing. *)
EndTask(d) ==
  /\ entry' = LET e == [entry EXCEPT !.busy = @ \ {d}]
              IN  IF e.marked /\ e.busy = {} THEN NoEntry ELSE e
  /\ pipe' = IF entry.there THEN TRUE ELSE pipe
  /\ UNCHANGED <<poll, watched, polled, ready, woken, tasks>>
-----------------------------------------------------------------------------
(* init_poll_fds_info()                                                     *)
Prepare ==
  /\ poll = "prepare"
  /\ poll' = "select"
  /\ watched' = entry.cb \ entry.busy
  /\ polled' = (watched' # {} \/ entry.marked)
  /\ UNCHANGED <<entry, pipe, ready, woken, tasks>>

(* select() returns with some of the watched directions ready, or for the   *)
(* pipe, or with an error because the socket has been closed.               *)
Select(some, open) ==
  /\ poll = "select" /\ some \subseteq watched
  /\ \/ /\ some # {} \/ pipe
        /\ open \/ watched = {}
        /\ poll' = "process" /\ ready' = some /\ woken' = pipe
     \/ /\ ~open /\ watched # {}
        /\ poll' = "prepare" /\ UNCHANGED <<ready, woken>>
  /\ UNCHANGED <<entry, pipe, watched, polled, tasks>>

TasksFor(dirs) == (IF "rd" \in dirs THEN <<"rd">> ELSE <<>>)
                  \o (IF "wr" \in dirs THEN <<"wr">> ELSE <<>>)

(* process_events(): a task for each direction that is ready, has a         *)
(* callback and none executing, also when the entry is marked; then, with   *)
(* none executing, a marked entry is erased.                                *)
ProcessEvents ==
  /\ poll = "process" /\ poll' = "prepare"
  /\ pipe' = IF woken THEN FALSE ELSE pipe
  /\ LET start == IF polled THEN (ready \cap entry.cb) \ entry.busy ELSE {}
         e == [entry EXCEPT !.busy = @ \cup start]
     IN  /\ tasks' = tasks \o TasksFor(start)
         /\ entry' = IF polled /\ e.marked /\ e.busy = {} THEN NoEntry ELSE e
  /\ UNCHANGED <<watched, polled, ready, woken>>
-----------------------------------------------------------------------------
ServiceTypeOK ==
  /\ entry \in [there : BOOLEAN, cb : SUBSET Dirs, busy : SUBSET Dirs, marked : BOOLEAN]
  /\ ~entry.there => entry = NoEntry
  /\ pipe \in BOOLEAN /\ polled \in BOOLEAN /\ woken \in BOOLEAN
  /\ poll \in {"prepare", "select", "process"}
  /\ watched \subseteq Dirs /\ ready \subseteq Dirs
  /\ tasks \in Seq(Dirs)

(* Nobody waits for a select() that watches what was of interest before:    *)
(* whoever has changed the entry since then has written to the pipe, and    *)
(* nothing has been read from it that did not come first.                   *)
PollerIsTold ==
  poll = "select" =>
    \/ pipe
    \/ watched = entry.cb \ entry.busy /\ (entry.marked => polled)
=============================================================================

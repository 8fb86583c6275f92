----------------------------- MODULE TimerSignal -----------------------------
(***************************************************************************)
(* timer_signal of signal_slot.hpp, with the cancellable sleep inside it.  *)
(* One thread, the owner, starts, stops and destroys the timer; slots and  *)
(* other threads may only call disable_timer_from_slot().  The thread of   *)
(* the timer clears _timer_enabled as the last thing it does, and only     *)
(* that makes the next start_timer() do anything.                          *)
(***************************************************************************)
EXTENDS Naturals

CONSTANT MaxStarts   \* bound: calls of start_timer() that start it

VARIABLES on,         \* _timer_enabled
          cancelled,  \* _sleep._cancelled
          thread,     \* where the thread of _timer_thread stands
          owner,      \* where the owner stands
          starts

timerVars == <<on, cancelled, thread, owner, starts>>

Init == /\ on = FALSE /\ cancelled = FALSE
        /\ thread = "none" /\ owner = "idle" /\ starts = 0

(* The timer thread in its loop, where it reads _args. *)
Looping == {"sleep", "emit"}

(* Nobody to wait for: join() returns at once, or is not called. *)
Joinable == thread \in {"none", "over"}
-----------------------------------------------------------------------------
StartTimerBug ==   \* what the flag says is not asked
  /\ owner = "idle" /\ starts < MaxStarts
  /\ on' = TRUE /\ owner' = "args" /\ starts' = starts + 1
  /\ UNCHANGED <<cancelled, thread>>

(* start_timer() does nothing while the flag is set.                        *)
StartTimer ==
  /\ owner = "idle" /\ ~on /\ starts < MaxStarts
  /\ on' = TRUE /\ owner' = "args" /\ starts' = starts + 1
  /\ UNCHANGED <<cancelled, thread>>

(* _args is assigned before the thread that read it is joined.              *)
SetArgs ==
  /\ owner = "args" /\ owner' = "join"
  /\ UNCHANGED <<on, cancelled, thread, starts>>

JoinFormer ==
  /\ owner = "join" /\ Joinable
  /\ cancelled' = FALSE /\ owner' = "spawn"
  /\ UNCHANGED <<on, thread, starts>>

Spawn ==
  /\ owner = "spawn"
  /\ thread' = "sleep" /\ owner' = "idle"
  /\ UNCHANGED <<on, cancelled, starts>>

(* stop_timer(), alone or in the destructor.                                *)
StopTimer(then) ==
  /\ owner = "idle"
  /\ cancelled' = TRUE /\ owner' = then
  /\ UNCHANGED <<on, thread, starts>>

StoppedBug ==   \* the thread is detached
  /\ owner \in {"stop", "destroy"}
  /\ owner' = IF owner = "destroy" THEN "dead" ELSE "idle"
  /\ thread' = "none"
  /\ UNCHANGED <<on, cancelled, starts>>

Stopped ==
  /\ owner \in {"stop", "destroy"} /\ Joinable
  /\ owner' = IF owner = "destroy" THEN "dead" ELSE "idle"
  /\ thread' = "none"
  /\ UNCHANGED <<on, cancelled, starts>>

(* disable_timer_from_slot()                                                *)
DisableFromSlot ==
  /\ owner # "dead"
  /\ cancelled' = TRUE
  /\ UNCHANGED <<on, thread, owner, starts>>
-----------------------------------------------------------------------------
AwakeBug ==   \* the cancellation is seen by sleeping threads only, not kept
  /\ thread = "sleep"
  /\ thread' = "emit"
  /\ UNCHANGED <<on, cancelled, owner, starts>>

(* wait_for(): the interval is over, or the sleep was cancelled.  The store *)
(* and the notification of cancel_wait() are made without the mutex, so a   *)
(* notification may be missed; the interval ends all the same, and then the *)
(* predicate is looked at again.                                            *)
Awake ==
  /\ thread = "sleep"
  /\ thread' = IF cancelled THEN "leave" ELSE "emit"
  /\ UNCHANGED <<on, cancelled, owner, starts>>

(* The slots have returned.                                                 *)
Emitted ==
  /\ thread = "emit" /\ thread' = "sleep"
  /\ UNCHANGED <<on, cancelled, owner, starts>>

(* _timer_enabled = false;                                                  *)
Leave ==
  /\ thread = "leave"
  /\ on' = FALSE /\ thread' = "returning"
  /\ UNCHANGED <<cancelled, owner, starts>>

Return ==
  /\ thread = "returning" /\ thread' = "over"
  /\ UNCHANGED <<on, cancelled, owner, starts>>
-----------------------------------------------------------------------------
Owner == SetArgs \/ JoinFormer \/ Spawn \/ Stopped

Runner == Awake \/ Leave \/ Return

Next == \/ StartTimer \/ SetArgs \/ JoinFormer \/ Spawn
        \/ \E then \in {"stop", "destroy"} : StopTimer(then)
        \/ Stopped \/ DisableFromSlot
        \/ Awake \/ Emitted \/ Leave \/ Return

Spec == Init /\ [][Next]_timerVars

FairSpec == /\ Spec
            /\ WF_timerVars(Owner) /\ WF_timerVars(Runner) /\ WF_timerVars(Emitted)
-----------------------------------------------------------------------------
TypeOK ==
  /\ on \in BOOLEAN /\ cancelled \in BOOLEAN
  /\ thread \in Looping \cup {"none", "leave", "returning", "over"}
  /\ owner \in {"idle", "args", "join", "spawn", "stop", "destroy", "dead"}
  /\ starts \in 0..MaxStarts

(* _args has no lock: start_timer() writes it before it joins the former    *)
(* thread, which must be past the loop that reads it.                       *)
ArgsUnshared == owner = "args" => thread \notin Looping

(* stop_timer() and the destructor return, whatever the slots do.           *)
TimerStops == owner \in {"stop", "destroy"} ~> owner \in {"idle", "dead"}

(* A started timer is running, or somebody has asked it to stop since.      *)
StartTakesEffect == owner = "spawn" ~> thread \in Looping \/ cancelled
=============================================================================

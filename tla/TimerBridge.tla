----------------------------- MODULE TimerBridge -----------------------------
(***************************************************************************)
(* A timer whose slot emits a bridged signal, which another thread pumps:  *)
(* modules TimerSignal and BridgedSignal together.  The thread of the timer *)
(* is one of the threads of the bridge; it is inside the timer's emission  *)
(* while it is inside the bridge.  A slot of the bridged signal, on        *)
(* whatever thread it runs, may switch the timer off.                      *)
(***************************************************************************)
EXTENDS Naturals, Sequences, FiniteSets

CONSTANTS Pumps,      \* the threads other than the timer's
          TimerThread, None, MaxEmits, MaxStarts

ASSUME BridgeAssumption ==
  /\ IsFiniteSet(Pumps) /\ MaxEmits \in Nat /\ MaxStarts \in Nat
  /\ TimerThread \notin Pumps /\ None \notin Pumps \cup {TimerThread}

VARIABLES queue, queueLock, bridged, enabled, functor, at, doing, item,
          sent, got, dropped, threw
VARIABLES on, cancelled, thread, owner, starts

Bridge == INSTANCE BridgedSignal WITH Threads <- Pumps \cup {TimerThread}
Timer == INSTANCE TimerSignal

bridgeVars ==
  <<queue, queueLock, bridged, enabled, functor, at, doing, item, sent, got, dropped, threw>>
timerVars == <<on, cancelled, thread, owner, starts>>
vars == <<bridgeVars, timerVars>>

Init == Bridge!Init /\ Timer!Init
-----------------------------------------------------------------------------
(* A step of the timer alone.  An emission of it ends when its slot, the    *)
(* emission of the bridge, has returned.                                    *)
TimerStep ==
  /\ \/ Timer!StartTimer \/ Timer!SetArgs \/ Timer!JoinFormer \/ Timer!Spawn
     \/ \E then \in {"stop", "destroy"} : Timer!StopTimer(then)
     \/ Timer!Stopped \/ Timer!Awake \/ Timer!Leave \/ Timer!Return
     \/ at[TimerThread] = "idle" /\ Timer!Emitted
  /\ UNCHANGED bridgeVars

(* The timer's slot emits, and goes on as any thread inside the bridge; an  *)
(* exception there would end the program, and is left out.                  *)
TimerEmits ==
  /\ thread = "emit"
  /\ Bridge!Emit(TimerThread) \/ Bridge!Continue(TimerThread)
  /\ UNCHANGED timerVars

BridgeStep ==
  /\ \/ \E t \in Pumps : Bridge!Step(t)
     \/ \E b \in BOOLEAN : Bridge!SetBridgeEnabled(b) \/ Bridge!SetEnabled(b)
  /\ UNCHANGED timerVars

SlotDisablesTimer ==
  /\ \E t \in Pumps \cup {TimerThread} : at[t] = "call"
  /\ Timer!DisableFromSlot
  /\ UNCHANGED bridgeVars

Next == TimerStep \/ TimerEmits \/ BridgeStep \/ SlotDisablesTimer

Spec == Init /\ [][Next]_vars

(* The threads keep running, slots return, intervals come to an end.        *)
FairSpec ==
  /\ Spec
  /\ WF_vars(Timer!Owner /\ UNCHANGED bridgeVars)
  /\ WF_vars(Timer!Runner /\ UNCHANGED bridgeVars)
  /\ WF_vars(at[TimerThread] = "idle" /\ Timer!Emitted /\ UNCHANGED bridgeVars)
  /\ \A t \in Pumps \cup {TimerThread} :
       WF_vars(Bridge!Continue(t) /\ UNCHANGED timerVars)
-----------------------------------------------------------------------------
TypeOK ==
  /\ Bridge!TypeOK /\ Timer!TypeOK
  /\ at[TimerThread] # "idle" => thread = "emit"

(* See BridgedSignal: every emission is delivered once, dropped on purpose  *)
(* or still waiting for a pump that a functor has promised.                 *)
BridgeKeepsPromise == Bridge!BridgeKeepsPromise

(* See TimerSignal: the arguments are not written under the timer thread.   *)
ArgsUnshared == Timer!ArgsUnshared

(* stop_timer() returns although the thread it joins may have to wait for   *)
(* the lock of the bridge, and for slots that others run under it.          *)
TimerStops == Timer!TimerStops
=============================================================================

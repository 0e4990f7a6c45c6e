------------------------------ MODULE TimerSpec ------------------------------
(***************************************************************************)
(* What the software timers of bsp/air105/hal/core_timer.c promise to      *)
(* their clients, without the list, the hardware timer or the interrupt    *)
(* handler: the requests outstanding, and what may become of one.          *)
(*                                                                         *)
(* CoreTask is built on these actions; TimerPromise makes a specification  *)
(* of them, which CoreTimer is shown to implement.                         *)
(***************************************************************************)
EXTENDS Integers

CONSTANTS
  Timers,   (* the timer objects                                     *)
  Instants, (* the values a TargetTick may take                      *)
  Off       (* pending[t] = Off: no request outstanding              *)

ASSUME TimerSpecAssumption ==
  /\ Instants \subseteq Nat
  /\ Off \notin Instants

VARIABLES
  now,      (* GetSysTick()                                          *)
  pending   (* the instant each timer is due at, or Off              *)

(***************************************************************************)
(* Timer_Start, and the handler re-arming a repeating timer.               *)
(***************************************************************************)
Request(t, at) ==
  /\ pending' = [pending EXCEPT ![t] = at]
  /\ UNCHANGED now

(***************************************************************************)
(* Timer_Stop and Timer_Release.                                           *)
(***************************************************************************)
Cancel(t) ==
  /\ pending' = [pending EXCEPT ![t] = Off]
  /\ UNCHANGED now

(***************************************************************************)
(* The timer's callback is called.                                         *)
(***************************************************************************)
Expire(t) ==
  /\ pending[t] # Off
  /\ pending[t] <= now
  /\ pending' = [pending EXCEPT ![t] = Off]
  /\ UNCHANGED now
=============================================================================

---------------------------- MODULE TimerPromise ----------------------------
(***************************************************************************)
(* The specification core_timer.c implements: a request made for an        *)
(* instant is honoured by one call of the callback, never before that      *)
(* instant, and eventually, unless it is cancelled or replaced; and one    *)
(* callback is called at a time.                                           *)
(*                                                                         *)
(* The exception: a request or a cancellation that comes while the timers  *)
(* are being served may move the deadline the service works to, and until  *)
(* the service is over callbacks may be early.                             *)
(***************************************************************************)
EXTENDS TimerSpec

VARIABLES
  serving,  (* the timer whose callback is being called, or Off            *)
  moved     (* was the deadline moved under the service?                   *)

promiseVars == <<now, pending, serving, moved>>

PromiseInit ==
  /\ now \in Instants
  /\ pending = [t \in Timers |-> Off]
  /\ serving = Off /\ moved = FALSE

Ask(t) ==
  /\ pending'[t] \in Instants
  /\ Request(t, pending'[t])
  /\ moved' \in {moved, TRUE}
  /\ UNCHANGED serving

Withdraw(t) ==
  /\ Cancel(t)
  /\ moved' \in {moved, TRUE}
  /\ UNCHANGED serving

Serve(t) ==
  /\ serving = Off
  /\ Expire(t)
  /\ serving' = t
  /\ UNCHANGED moved

ServeEarly(t) ==
  /\ serving = Off
  /\ moved /\ pending[t] # Off
  /\ Cancel(t)
  /\ serving' = t
  /\ UNCHANGED moved

Served ==
  /\ serving # Off
  /\ serving' = Off
  /\ UNCHANGED <<now, pending, moved>>

(* The service is over.                                                    *)
Settle ==
  /\ serving = Off
  /\ moved' = FALSE
  /\ UNCHANGED <<now, pending, serving>>

Elapse ==
  /\ now' \in {i \in Instants : i > now}
  /\ UNCHANGED <<pending, serving, moved>>

PromiseNext ==
  \/ \E t \in Timers : Ask(t) \/ Withdraw(t) \/ Serve(t) \/ ServeEarly(t)
  \/ Served \/ Settle
  \/ Elapse

PromiseSpec ==
  /\ PromiseInit
  /\ [][PromiseNext]_promiseVars
  /\ WF_promiseVars(Served)
  /\ \A t \in Timers : SF_promiseVars(Serve(t))
=============================================================================

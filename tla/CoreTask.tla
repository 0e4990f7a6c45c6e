------------------------------ MODULE CoreTask ------------------------------
(***************************************************************************)
(* The event queue and the delay of one task: bsp/common/src/core_task.c.  *)
(*                                                                         *)
(* The task calls Task_GetEvent and Task_DelayTick; other tasks and        *)
(* interrupts call Task_SendEvent; the callbacks of its two timers run in  *)
(* the timer interrupt.  A critical section is one step, and so is a whole *)
(* interrupt seen from a task; a task is preempted between its steps, at   *)
(* each of which it reads the clock anew.                                  *)
(*                                                                         *)
(* The timers are those of TimerSpec.  With EarlyTimers they may also run  *)
(* out before their deadline, as CoreTimer allows when a timer is started  *)
(* while the timer interrupt is served.  The instant MaxTime stands for    *)
(* every later one.                                                        *)
(***************************************************************************)
EXTENDS TimerSpec, Sequences

CONSTANTS
  Senders,     (* other tasks that send events                             *)
  Events,      (* event IDs                                                *)
  Timeout,     (* CORE_EVENT_TIMEOUT                                       *)
  Any,         (* CORE_EVENT_ID_ANY                                        *)
  Callbacks,   (* is a Callback given to Task_GetEvent? a set of BOOLEANs  *)
  Waits,       (* the Tick arguments; 0 waits for ever                     *)
  Guard,       (* 5 * SYS_TIMER_1US: shorter waits are not worth a timer   *)
  MaxEvents,   (* queue length at which the system stops (1024)            *)
  EarlyTimers, (* may timers run out early?                                *)
  MaxTime,     (* bound on the clock                                       *)
  MaxSent,     (* bound on the events sent                                 *)
  Word         (* number of values of a uint64_t                           *)

ASSUME TaskAssumption ==
  /\ Timers = {"event", "delay"}
  /\ Timeout \notin Events /\ Any \notin Events
  /\ Callbacks \subseteq BOOLEAN /\ EarlyTimers \in BOOLEAN
  /\ Waits \subseteq Nat /\ Guard \in Nat
  /\ MaxEvents \in Nat \ {0} /\ MaxTime \in Nat \ {0} /\ MaxSent \in Nat
  /\ Word \in Nat /\ Word > 2 * MaxTime
  /\ Instants = 0..(Word - 1)

VARIABLES
  queue,     (* EventHead, the IDs only                                     *)
  cnt,       (* EventCnt                                                    *)
  notified,  (* TASK_NOTIFY_EVENT has been given and not been taken         *)
  woken,     (* TASK_NOTIFY_DELAY has been given and not been taken         *)
  alive,     (* the task has not called Task_Exit                           *)
  hung,      (* the queue overflowed: interrupts off, while(1)              *)
  pc,        (* where the task is                                           *)
  want,      (* TargetEventID of the current Task_GetEvent                  *)
  callback,  (* whether it was given a Callback                             *)
  toTick,    (* its ToTick, 0 for none                                      *)
  rem,       (* ToTick - GetSysTick(), the argument of Timer_Start          *)
  result,    (* what the last call returned                                 *)
  delayEnd,  (* history: when the current delay may end                     *)
  sending,   (* the senders between queueing an event and notifying         *)
  sent,      (* history: the events sent, in order                          *)
  delivered  (* history: the events returned or passed to the callback      *)

callVars  == <<want, callback, toTick, rem, result, delayEnd>>
queueVars == <<queue, cnt, hung>>
vars == <<now, pending, queueVars, notified, woken, alive, pc, callVars,
          sending, sent, delivered>>

Init ==
  /\ now = 1
  /\ pending = [t \in Timers |-> Off]
  /\ queue = <<>> /\ cnt = 0 /\ hung = FALSE
  /\ notified = FALSE /\ woken = FALSE
  /\ alive = TRUE
  /\ pc = "idle"
  /\ want = Any /\ callback = FALSE /\ toTick = 0 /\ rem = 0
  /\ result = "none" /\ delayEnd = 0
  /\ sending = {}
  /\ sent = <<>> /\ delivered = <<>>

WrapShort(x) == x % MaxTime         \* mutant: truncated to a shorter type

Wrap(x) == x % Word

-----------------------------------------------------------------------------
(***************************************************************************)
(* Task_SendEvent.  Link is its critical section, Notify what follows.     *)
(***************************************************************************)
Link(id) ==
  /\ queue' = Append(queue, id)
  /\ cnt' = cnt + 1
  /\ hung' = (cnt' >= MaxEvents)

RecordSend(id) ==
  /\ Len(sent) < MaxSent
  /\ sent' = Append(sent, id)

SendLink(s, id) ==
  /\ s \notin sending
  /\ Link(id)
  /\ RecordSend(id)
  /\ sending' = sending \cup {s}
  /\ UNCHANGED <<now, pending, notified, woken, alive, pc, callVars, delivered>>

SendNotify(s) ==
  /\ s \in sending
  /\ sending' = sending \ {s}
  /\ notified' = TRUE
  /\ UNCHANGED <<now, pending, queueVars, woken, alive, pc, callVars, sent,
                 delivered>>

(* From an interrupt no task runs between the two.                         *)
IsrSend(id) ==
  /\ Link(id)
  /\ RecordSend(id)
  /\ notified' = TRUE
  /\ UNCHANGED <<now, pending, woken, alive, pc, callVars, sending, delivered>>

-----------------------------------------------------------------------------
(***************************************************************************)
(* The timer interrupt: prvTaskTimerCallback queues CORE_EVENT_TIMEOUT,    *)
(* prvTaskDelayTimerCallback notifies.                                     *)
(***************************************************************************)
RunsOut(t) ==
  \/ Expire(t)
  \/ /\ pending[t] # Off
     /\ EarlyTimers \/ now = MaxTime
     /\ Cancel(t)

EventTimerSilent ==                \* mutant: queued without a notification
  /\ RunsOut("event")
  /\ Link(Timeout)
  /\ UNCHANGED <<notified, woken, alive, pc, callVars, sending, sent, delivered>>

EventTimer ==
  /\ RunsOut("event")
  /\ Link(Timeout)
  /\ notified' = TRUE
  /\ UNCHANGED <<woken, alive, pc, callVars, sending, sent, delivered>>

DelayTimer ==
  /\ RunsOut("delay")
  /\ woken' = TRUE
  /\ UNCHANGED <<queueVars, notified, alive, pc, callVars, sending, sent,
                 delivered>>

Tick ==
  /\ now < MaxTime
  /\ now' = now + 1
  /\ UNCHANGED <<pending, queueVars, notified, woken, alive, pc, callVars,
                 sending, sent, delivered>>

-----------------------------------------------------------------------------
(***************************************************************************)
(* Task_GetEvent.                                                          *)
(***************************************************************************)
Goto(from, to) == pc = from /\ pc' = to

GetCall(id, tick, cb) ==
  /\ alive
  /\ Goto("idle", "get")
  /\ tick > 0 => now + tick <= MaxTime
  /\ want' = id
  /\ callback' = cb
  /\ toTick' = IF tick > 0 THEN now + tick ELSE 0
  /\ UNCHANGED <<now, pending, queueVars, notified, woken, alive, rem, result,
                 delayEnd, sending, sent, delivered>>

(***************************************************************************)
(* An event is taken off the queue.  Time-outs are dropped, the event      *)
(* asked for ends the call, any other goes to the callback if there is     *)
(* one.                                                                    *)
(***************************************************************************)
Matches(id) == want = Any \/ id = want

HandNone(id) == delivered           \* mutant: the callback is not called

Hand(id) == IF callback THEN Append(delivered, id) ELSE delivered

Dispatch(id) ==
  \/ /\ id = Timeout
     /\ UNCHANGED <<pc, result, delivered>>
  \/ /\ id # Timeout /\ Matches(id)
     /\ pc' = "done" /\ result' = "event"
     /\ delivered' = Append(delivered, id)
  \/ /\ id # Timeout /\ ~Matches(id)
     /\ delivered' = Hand(id)
     /\ UNCHANGED <<pc, result>>

TakeNone(c) == c                    \* mutant: EventCnt not decremented

TakeOne(c) == IF c > 0 THEN c - 1 ELSE c

GetTake ==
  /\ pc = "get"
  /\ queue # <<>>
  /\ queue' = Tail(queue)
  /\ cnt' = TakeOne(cnt)
  /\ Dispatch(Head(queue))
  /\ UNCHANGED <<now, pending, hung, notified, woken, alive, want, callback,
                 toTick, rem, delayEnd, sending, sent>>

GetNone ==
  /\ queue = <<>>
  /\ Goto("get", "empty")
  /\ UNCHANGED <<now, pending, queueVars, notified, woken, alive, callVars,
                 sending, sent, delivered>>

(* The queue was found empty: is it worth waiting?  The same test is made  *)
(* twice, "empty" before WAIT_NEW_EVENT and "arm" after it.                *)
Worthwhile == toTick > now + Guard

GetCheck(from, to) ==
  /\ pc = from
  /\ \/ /\ toTick = 0
        /\ pc' = "wait"
        /\ UNCHANGED result
     \/ /\ toTick # 0 /\ Worthwhile
        /\ pc' = to
        /\ UNCHANGED result
     \/ /\ toTick # 0 /\ ~Worthwhile
        /\ pc' = "done"
        /\ result' = "timeout"
  /\ UNCHANGED <<now, pending, queueVars, notified, woken, alive, want,
                 callback, toTick, rem, delayEnd, sending, sent, delivered>>

(* Preempted here, ToTick may have passed: the uint64_t difference wraps.  *)
GetRemain ==
  /\ Goto("remain", "start")
  /\ rem' = Wrap(toTick - now)
  /\ UNCHANGED <<now, pending, queueVars, notified, woken, alive, want,
                 callback, toTick, result, delayEnd, sending, sent, delivered>>

GetStartClears ==                  \* mutant: a "stale" notification is reset
  /\ Goto("start", "wait")
  /\ Request("event", Wrap(now + rem))
  /\ notified' = FALSE
  /\ UNCHANGED <<queueVars, woken, alive, callVars, sending, sent, delivered>>

GetStart ==
  /\ Goto("start", "wait")
  /\ Request("event", Wrap(now + rem))
  /\ UNCHANGED <<queueVars, notified, woken, alive, callVars, sending, sent,
                 delivered>>

(* xTaskGenericNotifyWait(TASK_NOTIFY_EVENT, 0, 0, NULL, portMAX_DELAY).   *)
GetWait ==
  /\ notified
  /\ Goto("wait", "get")
  /\ notified' = FALSE
  /\ UNCHANGED <<now, pending, queueVars, woken, alive, callVars, sending,
                 sent, delivered>>

GetDone ==
  /\ Goto("done", "idle")
  /\ Cancel("event")
  /\ UNCHANGED <<queueVars, notified, woken, alive, callVars, sending, sent,
                 delivered>>

GetStep ==
  \/ GetTake \/ GetNone
  \/ GetCheck("empty", "arm") \/ GetCheck("arm", "remain")
  \/ GetRemain \/ GetStart \/ GetWait \/ GetDone

-----------------------------------------------------------------------------
(***************************************************************************)
(* Task_DelayTick (shorter delays than Guard are busy waits) and Task_Exit.*)
(***************************************************************************)
DelayCall(tick) ==
  /\ alive
  /\ tick >= Guard /\ now + tick <= MaxTime
  /\ Goto("idle", "delay")
  /\ Request("delay", now + tick)
  /\ delayEnd' = now + tick
  /\ UNCHANGED <<queueVars, notified, woken, alive, want, callback, toTick, rem,
                 result, sending, sent, delivered>>

DelayWait ==
  /\ woken
  /\ Goto("delay", "idle")
  /\ woken' = FALSE
  /\ UNCHANGED <<now, pending, queueVars, notified, alive, callVars, sending,
                 sent, delivered>>

(* EventCnt is left as it is, and nothing stops the senders.               *)
Exit ==
  /\ alive
  /\ pc = "idle"
  /\ alive' = FALSE
  /\ queue' = <<>>
  /\ pending' = [t \in Timers |-> Off]
  /\ UNCHANGED <<now, cnt, hung, notified, woken, pc, callVars, sending, sent,
                 delivered>>

-----------------------------------------------------------------------------
Send ==
  \E id \in Events : IsrSend(id) \/ \E s \in Senders : SendLink(s, id)

Call ==
  \/ \E id \in Events \cup {Any}, tick \in Waits, cb \in Callbacks :
       GetCall(id, tick, cb)
  \/ \E tick \in Waits \ {0} : DelayCall(tick)
  \/ Exit

TimerIrq == EventTimer \/ DelayTimer

Next ==
  /\ ~hung
  /\ \/ Send
     \/ \E s \in Senders : SendNotify(s)
     \/ Call
     \/ GetStep
     \/ DelayWait
     \/ TimerIrq
     \/ Tick

(* The scheduler runs every ready task, and the timers are TimerSpec's.    *)
Fairness ==
  /\ WF_vars(~hung /\ GetStep)
  /\ WF_vars(~hung /\ DelayWait)
  /\ \A s \in Senders : WF_vars(~hung /\ SendNotify(s))
  /\ WF_vars(~hung /\ EventTimer)
  /\ WF_vars(~hung /\ DelayTimer)
  /\ WF_vars(~hung /\ Tick)

Spec == Init /\ [][Next]_vars /\ Fairness

-----------------------------------------------------------------------------
TypeOK ==
  /\ now \in 1..MaxTime
  /\ pending \in [Timers -> Instants \cup {Off}]
  /\ queue \in Seq(Events \cup {Timeout})
  /\ cnt \in 0..MaxEvents
  /\ hung \in BOOLEAN /\ notified \in BOOLEAN
  /\ woken \in BOOLEAN /\ alive \in BOOLEAN
  /\ pc \in {"idle", "get", "empty", "arm", "remain", "start", "wait", "done",
             "delay"}
  /\ want \in Events \cup {Any}
  /\ callback \in BOOLEAN
  /\ toTick \in 0..MaxTime
  /\ rem \in Instants
  /\ result \in {"none", "event", "timeout"}
  /\ delayEnd \in 0..MaxTime
  /\ sending \subseteq Senders
  /\ sent \in Seq(Events) /\ delivered \in Seq(Events)

(***************************************************************************)
(* No lost wakeup: a task that waits with events in its queue has been     *)
(* notified, or a sender that queued one is still to notify it             *)
(* (core_task.c:144-170 against 196-213 and 274).                          *)
(***************************************************************************)
NoLostWakeup ==
  pc \in {"empty", "arm", "remain", "start", "wait"} /\ queue # <<>> =>
    notified \/ sending # {}

(***************************************************************************)
(* EventCnt, on which the overflow check relies, counts the queue for as   *)
(* long as the task lives (core_task.c:145-149, 202-205).                  *)
(***************************************************************************)
CountMatches == alive => cnt = Len(queue)

(***************************************************************************)
(* A wait with a time limit is always bounded: something is there to end   *)
(* it, the timer or the wakeup it has left (core_task.c:260-278).  The     *)
(* timer is set no earlier than the deadline, and what it was set late by  *)
(* is only the time the task was kept from setting it, even when the       *)
(* unsigned difference wrapped.                                            *)
(***************************************************************************)
BoundedWait ==
  pc = "wait" /\ toTick # 0 =>
    \/ notified \/ sending # {}
    \/ pending["event"] # Off /\ pending["event"] >= toTick

(* What the queue holds but for time-outs.                                 *)
UserEvents == SelectSeq(queue, LAMBDA id : id # Timeout)

(* at lists the n places of the queue without a time-out, first to last.   *)
Places(n, at) ==
  /\ \A i, j \in 1..n : i < j => at[i] < at[j]
  /\ \A k \in 1..Len(queue) :
       queue[k] # Timeout <=> \E i \in 1..n : at[i] = k

(***************************************************************************)
(* Every event sent is returned or passed to the callback, in the order    *)
(* sent, provided Task_GetEvent is called with one (core_task.c:215-258).  *)
(***************************************************************************)
InOrder ==
  alive /\ Callbacks = {TRUE} =>
    LET n == Len(sent) - Len(delivered)
    IN \E at \in [1..n -> 1..Len(queue)] :
         /\ Places(n, at)
         /\ sent = delivered \o [i \in 1..n |-> queue[at[i]]]

(***************************************************************************)
(* Notifications of the delay timer are never left over: a delay ends for  *)
(* its own timer and not before its time (core_task.c:311-324).            *)
(***************************************************************************)
DelayEndsInTime ==
  /\ woken => pc = "delay"
  /\ woken /\ ~EarlyTimers => delayEnd <= now

(***************************************************************************)
(* The event timer never runs outside Task_GetEvent, which stops it on     *)
(* every way out (core_task.c:277-278).                                    *)
(***************************************************************************)
NoTimerOutside ==
  pc \in {"idle", "delay"} => pending["event"] = Off

(* What a step of the task may rely on.                                    *)
Inv == TypeOK /\ CountMatches /\ NoTimerOutside /\ DelayEndsInTime

(***************************************************************************)
(* A call with a time limit returns, and a task that waits for any event   *)
(* receives the one that is sent to it (core_task.c:230-294).              *)
(***************************************************************************)
CallReturns == pc = "get" /\ toTick # 0 ~> pc = "idle" \/ hung
EventWakes ==
  pc = "wait" /\ want = Any /\ UserEvents # <<>> ~> result = "event" \/ hung

NoCallHangs == CallReturns /\ EventWakes
=============================================================================

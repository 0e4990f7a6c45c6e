--------------------------- MODULE CoreTask_proofs ---------------------------
(***************************************************************************)
(* Theorems about CoreTask, for every number of senders, every length of   *)
(* the queue, every clock and every word size.                             *)
(***************************************************************************)
EXTENDS CoreTask, SequenceTheorems, TLAPS

(***************************************************************************)
(* What TypeOK needs to be inductive: until the system stops there is room *)
(* for one more event.                                                     *)
(***************************************************************************)
Room == hung \/ cnt < MaxEvents

TypeInv == TypeOK /\ Room

(***************************************************************************)
(* What BoundedWait needs: ToTick - GetSysTick() was computed at some      *)
(* instant that has passed.                                                *)
(***************************************************************************)
RemainSince ==
  pc = "start" => \E at \in 1..now : rem = Wrap(toTick - at)

(***************************************************************************)
(* What DelayEndsInTime needs: the delay timer runs only in the delay that *)
(* started it, until it has given its notification.                        *)
(***************************************************************************)
DelayOwn ==
  /\ woken => pc = "delay"
  /\ pending["delay"] # Off =>
       pc = "delay" /\ ~woken /\ pending["delay"] = delayEnd
  /\ woken /\ ~EarlyTimers => delayEnd <= now

(***************************************************************************)
(* The arithmetic of core_task.c:264.  A difference taken at one instant   *)
(* and added to a later one gives the deadline plus the time between the   *)
(* two, whether the unsigned difference wrapped or not.                    *)
(***************************************************************************)
LEMMA LateBy ==
  ASSUME NEW to \in 0..MaxTime, NEW at \in 0..MaxTime, NEW t \in at..MaxTime
  PROVE  Wrap(t + Wrap(to - at)) = to + (t - at)
<1> USE TaskAssumption DEF Wrap
<1>1. CASE at <= to
  <2>1. (to - at) % Word = to - at
    BY <1>1
  <2>2. (t + (to - at)) % Word = t + (to - at)
    BY <1>1
  <2> QED BY <2>1, <2>2
<1>2. CASE at > to
  <2>1. (to - at) % Word = Word + (to - at)
    BY <1>2
  <2>2. (t + (Word + (to - at))) % Word = t + (to - at)
    BY <1>2
  <2> QED BY <2>1, <2>2
<1> QED BY <1>1, <1>2

LEMMA WrapType == ASSUME NEW x \in Int PROVE Wrap(x) \in Instants
BY TaskAssumption DEF Wrap

(***************************************************************************)
(* Type correctness.                                                       *)
(***************************************************************************)
LEMMA TypeInit == Init => TypeInv
<1> SUFFICES ASSUME Init
             PROVE  TypeInv
  OBVIOUS
<1> USE TaskAssumption
<1>1. /\ now \in 1..MaxTime /\ cnt \in 0..MaxEvents /\ rem \in Instants
      /\ toTick \in 0..MaxTime /\ delayEnd \in 0..MaxTime
      /\ hung \/ cnt < MaxEvents
  BY DEF Init
<1>2. pending \in [Timers -> Instants \cup {Off}]
  BY DEF Init
<1>3. /\ queue \in Seq(Events \cup {Timeout})
      /\ sent \in Seq(Events) /\ delivered \in Seq(Events)
  BY DEF Init
<1> QED BY <1>1, <1>2, <1>3 DEF Init, TypeInv, TypeOK, Room

LEMMA LinkType ==
  ASSUME TypeInv, ~hung, NEW id \in Events \cup {Timeout}, Link(id)
  PROVE  /\ queue' \in Seq(Events \cup {Timeout})
         /\ cnt' \in 0..MaxEvents
         /\ hung' \in BOOLEAN
         /\ hung' \/ cnt' < MaxEvents
<1>1. cnt < MaxEvents /\ cnt \in 0..MaxEvents
  BY DEF TypeInv, TypeOK, Room
<1>2. cnt' \in 0..MaxEvents
  BY <1>1, TaskAssumption DEF Link
<1>3. hung' \in BOOLEAN /\ (hung' \/ cnt' < MaxEvents)
  <2>1. hung' = (cnt' >= MaxEvents)
    BY DEF Link
  <2>2. cnt' \in Int /\ MaxEvents \in Int
    BY <1>2, TaskAssumption
  <2>3. CASE cnt' >= MaxEvents
    BY <2>1, <2>3
  <2>4. CASE ~(cnt' >= MaxEvents)
    <3>1. cnt' < MaxEvents
      BY <2>2, <2>4
    <3> QED BY <2>1, <2>4, <3>1
  <2> QED BY <2>3, <2>4
<1>4. queue' \in Seq(Events \cup {Timeout})
  BY DEF Link, TypeInv, TypeOK
<1> QED BY <1>2, <1>3, <1>4

LEMMA PendingType ==
  ASSUME TypeOK, NEW t \in Timers, NEW at \in Instants,
         Request(t, at) \/ Cancel(t) \/ RunsOut(t)
  PROVE  pending' \in [Timers -> Instants \cup {Off}] /\ now' = now
BY DEF TypeOK, Request, Cancel, RunsOut, Expire

LEMMA TypeStep == TypeInv /\ [Next]_vars => TypeInv'
<1> SUFFICES ASSUME TypeInv, [Next]_vars
             PROVE  TypeInv'
  OBVIOUS
<1> USE TaskAssumption
<1>a. TypeOK /\ Room
  BY DEF TypeInv
<1>b. 0 \in Instants
  OBVIOUS
<1>1. CASE UNCHANGED vars
  BY <1>a, <1>1 DEF TypeInv, TypeOK, Room, vars, queueVars, callVars
<1>2. ASSUME ~hung, NEW id \in Events, IsrSend(id)
      PROVE  TypeInv'
  BY <1>a, <1>2, LinkType
    DEF TypeInv, TypeOK, Room, IsrSend, RecordSend, callVars
<1>3. ASSUME ~hung, NEW id \in Events, NEW s \in Senders, SendLink(s, id)
      PROVE  TypeInv'
  BY <1>a, <1>3, LinkType
    DEF TypeInv, TypeOK, Room, SendLink, RecordSend, callVars
<1>4. ASSUME NEW s \in Senders, SendNotify(s)
      PROVE  TypeInv'
  BY <1>a, <1>4 DEF TypeInv, TypeOK, Room, SendNotify, queueVars, callVars
<1>5. ASSUME NEW id \in Events \cup {Any}, NEW tick \in Waits,
             NEW cb \in Callbacks, GetCall(id, tick, cb)
      PROVE  TypeInv'
  <2>1. toTick' \in 0..MaxTime
    BY <1>a, <1>5 DEF TypeOK, GetCall
  <2> QED BY <1>a, <1>5, <2>1
        DEF TypeInv, TypeOK, Room, GetCall, Goto, queueVars
<1>6. ASSUME NEW tick \in Waits, DelayCall(tick)
      PROVE  TypeInv'
  <2>1. now + tick \in 0..MaxTime /\ now + tick \in Instants
    BY <1>a, <1>6 DEF TypeOK, DelayCall
  <2>2. pending' \in [Timers -> Instants \cup {Off}] /\ now' = now
    BY <1>a, <1>6, <2>1, PendingType DEF DelayCall
  <2> QED BY <1>a, <1>6, <2>1, <2>2
        DEF TypeInv, TypeOK, Room, DelayCall, Goto, queueVars
<1>7. CASE Exit
  <2>1. pending' \in [Timers -> Instants \cup {Off}]
    BY <1>7 DEF Exit
  <2>2. queue' \in Seq(Events \cup {Timeout})
    BY <1>7 DEF Exit
  <2> QED BY <1>a, <1>7, <2>1, <2>2 DEF TypeInv, TypeOK, Room, Exit, callVars
<1>8. CASE GetTake
  <2>1. cnt' \in 0..MaxEvents /\ (hung' \/ cnt' < MaxEvents)
    <3>1. cnt \in 0..MaxEvents /\ (hung \/ cnt < MaxEvents)
      BY <1>a DEF TypeOK, Room
    <3>2. cnt' \in 0..MaxEvents /\ cnt' <= cnt
      BY <3>1, <1>8 DEF GetTake, TakeOne
    <3>3. hung' = hung
      BY <1>8 DEF GetTake
    <3>4. cnt < MaxEvents => cnt' < MaxEvents
      BY <3>1, <3>2
    <3> QED BY <3>1, <3>2, <3>3, <3>4
  <2>2. /\ Head(queue) \in Events \cup {Timeout}
        /\ queue' \in Seq(Events \cup {Timeout})
    BY <1>a, <1>8 DEF TypeOK, GetTake
  <2>3. delivered' \in {delivered, Append(delivered, Head(queue))}
    BY <1>8 DEF GetTake, Dispatch, Hand
  <2>4. delivered' \in Seq(Events)
    <3>1. CASE Head(queue) = Timeout
      BY <1>a, <1>8, <3>1 DEF TypeOK, GetTake, Dispatch
    <3>2. CASE Head(queue) # Timeout
      <4>1. Head(queue) \in Events /\ delivered \in Seq(Events)
        BY <1>a, <2>2, <3>2 DEF TypeOK
      <4> QED BY <2>3, <4>1
    <3> QED BY <3>1, <3>2
  <2>5. pc' \in {pc, "done"} /\ result' \in {result, "event"}
    BY <1>8 DEF GetTake, Dispatch
  <2> QED BY <1>a, <1>8, <2>1, <2>2, <2>4, <2>5
        DEF TypeInv, TypeOK, Room, GetTake
<1>9. CASE GetNone
  BY <1>a, <1>9 DEF TypeInv, TypeOK, Room, GetNone, Goto, queueVars, callVars
<1>10. ASSUME NEW from, NEW to \in {"arm", "remain"}, GetCheck(from, to)
       PROVE  TypeInv'
  <2>1. pc' \in {"wait", "arm", "remain", "done"} /\ result' \in {result, "timeout"}
    BY <1>10 DEF GetCheck
  <2> QED BY <1>a, <1>10, <2>1 DEF TypeInv, TypeOK, Room, GetCheck, queueVars
<1>11. CASE GetRemain
  <2>1. rem' \in Instants
    BY <1>a, <1>11, WrapType DEF TypeOK, GetRemain
  <2> QED BY <1>a, <1>11, <2>1
        DEF TypeInv, TypeOK, Room, GetRemain, Goto, queueVars
<1>12. CASE GetStart
  <2>1. Wrap(now + rem) \in Instants
    <3>1. now \in 1..MaxTime /\ rem \in Instants
      BY <1>a DEF TypeOK
    <3>2. now + rem \in Int
      BY <3>1
    <3> QED BY <3>2, WrapType
  <2>2. pending' \in [Timers -> Instants \cup {Off}] /\ now' = now
    BY <1>a, <1>12, <2>1, PendingType DEF GetStart
  <2> QED BY <1>a, <1>12, <2>2
        DEF TypeInv, TypeOK, Room, GetStart, Goto, queueVars, callVars
<1>13. CASE GetWait
  BY <1>a, <1>13 DEF TypeInv, TypeOK, Room, GetWait, Goto, queueVars, callVars
<1>14. CASE GetDone
  <2>1. pending' \in [Timers -> Instants \cup {Off}] /\ now' = now
    BY <1>a, <1>b, <1>14, PendingType DEF GetDone
  <2> QED BY <1>a, <1>14, <2>1
        DEF TypeInv, TypeOK, Room, GetDone, Goto, queueVars, callVars
<1>15. CASE DelayWait
  BY <1>a, <1>15 DEF TypeInv, TypeOK, Room, DelayWait, Goto, queueVars, callVars
<1>16. CASE ~hung /\ EventTimer
  <2>1. pending' \in [Timers -> Instants \cup {Off}] /\ now' = now
    BY <1>a, <1>b, <1>16, PendingType DEF EventTimer
  <2>2. Link(Timeout)
    BY <1>16 DEF EventTimer
  <2> QED BY <1>a, <1>16, <2>1, <2>2, LinkType
        DEF TypeInv, TypeOK, Room, EventTimer, callVars
<1>17. CASE DelayTimer
  <2>1. pending' \in [Timers -> Instants \cup {Off}] /\ now' = now
    BY <1>a, <1>b, <1>17, PendingType DEF DelayTimer
  <2> QED BY <1>a, <1>17, <2>1
        DEF TypeInv, TypeOK, Room, DelayTimer, queueVars, callVars
<1>18. CASE Tick
  BY <1>a, <1>18 DEF TypeInv, TypeOK, Room, Tick, queueVars, callVars
<1> QED
  BY <1>1, <1>2, <1>3, <1>4, <1>5, <1>6, <1>7, <1>8, <1>9, <1>10, <1>11,
     <1>12, <1>13, <1>14, <1>15, <1>16, <1>17, <1>18
  DEF Next, Send, Call, GetStep, TimerIrq

(* Every state has the types of TypeOK: a senders' event, a time-out, an     *)
(* exit or an overflow of the queue leave none of the task's records outside *)
(* their range (core_task.c:131-280).                                        *)
THEOREM TypeCorrect == Spec => []TypeOK
<1>1. TypeInv => TypeOK
  BY DEF TypeInv
<1> QED BY <1>1, TypeInit, TypeStep, PTL DEF Spec

(***************************************************************************)
(* The wakeup protocol.                                                    *)
(***************************************************************************)
LEMMA WakeupStep == TypeOK /\ NoLostWakeup /\ [Next]_vars => NoLostWakeup'
<1> SUFFICES ASSUME TypeOK, NoLostWakeup, [Next]_vars
             PROVE  NoLostWakeup'
  OBVIOUS
<1> USE DEF NoLostWakeup
<1>1. CASE UNCHANGED vars
  BY <1>1 DEF vars, queueVars
<1>2. CASE Send
  BY <1>2 DEF Send, IsrSend, SendLink
<1>3. ASSUME NEW s \in Senders, SendNotify(s)
      PROVE  NoLostWakeup'
  BY <1>3 DEF SendNotify
<1>4. CASE Call
  BY <1>4 DEF Call, GetCall, DelayCall, Exit, Goto
<1>5. CASE GetTake
  BY <1>5 DEF GetTake, Dispatch
<1>6. CASE GetNone
  BY <1>6 DEF GetNone, queueVars
<1>7. CASE GetCheck("empty", "arm") \/ GetCheck("arm", "remain")
  BY <1>7 DEF GetCheck, queueVars
<1>8. CASE GetRemain \/ GetStart
  BY <1>8 DEF GetRemain, GetStart, Goto, queueVars
<1>9. CASE GetWait \/ GetDone \/ DelayWait
  BY <1>9 DEF GetWait, GetDone, DelayWait, Goto
<1>10. CASE EventTimer
  BY <1>10 DEF EventTimer
<1>11. CASE DelayTimer
  BY <1>11 DEF DelayTimer, queueVars
<1>12. CASE Tick
  BY <1>12 DEF Tick, queueVars
<1> QED
  BY <1>1, <1>2, <1>3, <1>4, <1>5, <1>6, <1>7, <1>8, <1>9, <1>10, <1>11, <1>12
  DEF Next, GetStep, TimerIrq

(* A task never waits with events in its queue unless its notification is    *)
(* there or is on its way, however many tasks send, whatever the timers do   *)
(* and however long the queue (core_task.c:144-170, 196-213, 274).           *)
THEOREM WakeupNeverLost == Spec => []NoLostWakeup
<1>1. Init => NoLostWakeup
  BY DEF Init, NoLostWakeup
<1> QED BY <1>1, TypeCorrect, WakeupStep, PTL DEF Spec

(***************************************************************************)
(* The event counter.                                                      *)
(***************************************************************************)
LEMMA LinkCount ==
  ASSUME TypeOK, CountMatches, NEW id \in Events \cup {Timeout}, Link(id),
         alive' = alive
  PROVE  CountMatches'
BY DEF TypeOK, CountMatches, Link

LEMMA CountStep == TypeOK /\ CountMatches /\ [Next]_vars => CountMatches'
<1> SUFFICES ASSUME TypeOK, CountMatches, [Next]_vars
             PROVE  CountMatches'
  OBVIOUS
<1>1. CASE UNCHANGED <<queue, cnt, alive>>
  BY <1>1 DEF CountMatches
<1>2. CASE Send
  <2>1. PICK id \in Events : Link(id) /\ alive' = alive
    BY <1>2 DEF Send, IsrSend, SendLink
  <2> QED BY <2>1, LinkCount
<1>3. CASE EventTimer
  <2>1. Link(Timeout) /\ alive' = alive
    BY <1>3 DEF EventTimer
  <2> QED BY <2>1, LinkCount
<1>4. CASE GetTake
  <2>1. /\ queue \in Seq(Events \cup {Timeout}) /\ queue # <<>>
        /\ queue' = Tail(queue) /\ cnt' = TakeOne(cnt) /\ alive' = alive
    BY <1>4 DEF TypeOK, GetTake
  <2>2. Len(queue) \in Nat /\ Len(queue) > 0 /\ Len(Tail(queue)) = Len(queue) - 1
    BY <2>1
  <2>3. alive => cnt = Len(queue)
    BY DEF CountMatches
  <2>4. alive => cnt' = Len(queue)'
    BY <2>1, <2>2, <2>3 DEF TakeOne
  <2> QED BY <2>1, <2>4 DEF CountMatches
<1>5. CASE Exit
  BY <1>5 DEF Exit, CountMatches
<1>6. ASSUME ~Send, ~EventTimer, ~GetTake, ~Exit, ~UNCHANGED vars
      PROVE  UNCHANGED <<queue, cnt, alive>>
  BY <1>6 DEF Next, Call, GetStep, TimerIrq, SendNotify, GetCall, DelayCall,
              GetNone, GetCheck, GetRemain, GetStart, GetWait, GetDone,
              DelayWait, DelayTimer, Tick, queueVars
<1>7. CASE UNCHANGED vars
  BY <1>7, <1>1 DEF vars, queueVars
<1> QED BY <1>1, <1>2, <1>3, <1>4, <1>5, <1>6, <1>7

(* EventCnt counts the queue of a living task, for every limit of the queue, *)
(* so the overflow check of core_task.c:149 means what it says.              *)
THEOREM CountAlwaysMatches == Spec => []CountMatches
<1>1. Init => CountMatches
  BY DEF Init, CountMatches
<1> QED BY <1>1, TypeCorrect, CountStep, PTL DEF Spec

(***************************************************************************)
(* The event timer.                                                        *)
(***************************************************************************)
LEMMA OutsideStep == TypeOK /\ NoTimerOutside /\ [Next]_vars => NoTimerOutside'
<1> SUFFICES ASSUME TypeOK, NoTimerOutside, [Next]_vars
             PROVE  NoTimerOutside'
  OBVIOUS
<1>a. pending \in [Timers -> Instants \cup {Off}] /\ "event" \in Timers
  BY TaskAssumption DEF TypeOK
<1> USE DEF NoTimerOutside
<1>1. CASE UNCHANGED <<pc, pending>>
  BY <1>1
<1>2. CASE Send \/ (\E s \in Senders : SendNotify(s)) \/ Tick \/ UNCHANGED vars
  BY <1>1, <1>2 DEF Send, IsrSend, SendLink, SendNotify, Tick, vars
<1>3. CASE Call
  <2>1. ASSUME NEW id, NEW tick, NEW cb, GetCall(id, tick, cb)
        PROVE  NoTimerOutside'
    BY <2>1 DEF GetCall, Goto
  <2>2. ASSUME NEW tick, DelayCall(tick)
        PROVE  NoTimerOutside'
    BY <1>a, <2>2 DEF DelayCall, Request, Goto
  <2>3. CASE Exit
    BY <1>a, <2>3 DEF Exit
  <2> QED BY <1>3, <2>1, <2>2, <2>3 DEF Call
<1>4. CASE GetTake \/ GetNone \/ GetRemain \/ GetStart \/ GetWait
  BY <1>4 DEF GetTake, Dispatch, GetNone, GetRemain, GetStart, GetWait, Goto
<1>5. CASE GetCheck("empty", "arm") \/ GetCheck("arm", "remain")
  BY <1>5 DEF GetCheck
<1>6. CASE GetDone \/ EventTimer
  BY <1>a, <1>6 DEF GetDone, EventTimer, RunsOut, Expire, Cancel
<1>7. CASE DelayWait
  BY <1>7 DEF DelayWait, Goto
<1>8. CASE DelayTimer
  BY <1>a, <1>8 DEF DelayTimer, RunsOut, Expire, Cancel
<1> QED
  BY <1>2, <1>3, <1>4, <1>5, <1>6, <1>7, <1>8 DEF Next, GetStep, TimerIrq

(* The event timer is stopped whenever the task is outside Task_GetEvent     *)
(* (core_task.c:277-278).                                                    *)
THEOREM TimerOnlyInside == Spec => []NoTimerOutside
<1>1. Init => NoTimerOutside
  BY TaskAssumption DEF Init, NoTimerOutside
<1> QED BY <1>1, TypeCorrect, OutsideStep, PTL DEF Spec

(***************************************************************************)
(* The delay.                                                              *)
(***************************************************************************)
LEMMA DelayStep == TypeOK /\ DelayOwn /\ [Next]_vars => DelayOwn'
<1> SUFFICES ASSUME TypeOK, DelayOwn, [Next]_vars
             PROVE  DelayOwn'
  OBVIOUS
<1>a. /\ pending \in [Timers -> Instants \cup {Off}]
      /\ {"event", "delay"} \subseteq Timers
      /\ now \in 1..MaxTime /\ delayEnd \in 0..MaxTime
  BY TaskAssumption DEF TypeOK
<1>b. MaxTime \in Nat
  BY TaskAssumption
<1> USE DEF DelayOwn
<1>1. CASE UNCHANGED <<now, pending, woken, pc, delayEnd>>
  BY <1>1
<1>2. CASE Send \/ (\E s \in Senders : SendNotify(s)) \/ UNCHANGED vars
  BY <1>1, <1>2 DEF Send, IsrSend, SendLink, SendNotify, vars, callVars
<1>3. CASE Tick
  BY <1>3, <1>a, <1>b DEF Tick, callVars
<1>4. CASE Call
  <2>1. ASSUME NEW id, NEW tick, NEW cb, GetCall(id, tick, cb)
        PROVE  DelayOwn'
    BY <2>1 DEF GetCall, Goto
  <2>2. ASSUME NEW tick, DelayCall(tick)
        PROVE  DelayOwn'
    BY <1>a, <2>2 DEF DelayCall, Request, Goto
  <2>3. CASE Exit
    BY <1>a, <2>3 DEF Exit, callVars
  <2> QED BY <1>4, <2>1, <2>2, <2>3 DEF Call
<1>5. CASE GetTake \/ GetNone \/ GetRemain \/ GetWait
  BY <1>5 DEF GetTake, Dispatch, GetNone, GetRemain, GetWait, Goto, callVars
<1>6. CASE GetCheck("empty", "arm") \/ GetCheck("arm", "remain")
  BY <1>6 DEF GetCheck
<1>7. CASE GetStart \/ GetDone \/ EventTimer
  <2>1. /\ pending'["delay"] = pending["delay"] /\ now' = now
        /\ woken' = woken /\ delayEnd' = delayEnd
    BY <1>a, <1>7 DEF GetStart, GetDone, EventTimer, RunsOut, Expire, Cancel,
                      Request, callVars
  <2>2. pc' = pc \/ pc # "delay"
    BY <1>7 DEF GetStart, GetDone, EventTimer, Goto
  <2> QED BY <2>1, <2>2
<1>8. CASE DelayWait
  BY <1>8 DEF DelayWait, Goto, callVars
<1>9. CASE DelayTimer
  <2>1. /\ pending["delay"] # Off /\ pending'["delay"] = Off
        /\ now' = now /\ woken' = TRUE /\ pc' = pc /\ delayEnd' = delayEnd
        /\ pending["delay"] <= now \/ EarlyTimers \/ now = MaxTime
    BY <1>a, <1>9 DEF DelayTimer, RunsOut, Expire, Cancel, callVars
  <2>2. ~EarlyTimers => delayEnd <= now
    BY <1>a, <1>b, <2>1
  <2> QED BY <2>1, <2>2
<1> QED
  BY <1>2, <1>3, <1>4, <1>5, <1>6, <1>7, <1>8, <1>9 DEF Next, GetStep, TimerIrq

(* A delay is ended by its own timer, once, and not before its time: no      *)
(* notification of the delay timer outlives the delay that asked for it      *)
(* (core_task.c:311-324).                                                    *)
THEOREM DelayNotEarly == Spec => []DelayEndsInTime
<1>1. Init => DelayOwn
  BY TaskAssumption DEF Init, DelayOwn
<1>2. DelayOwn => DelayEndsInTime
  BY DEF DelayOwn, DelayEndsInTime
<1> QED BY <1>1, <1>2, TypeCorrect, DelayStep, PTL DEF Spec

(* All that a step of the task may rely on.                                  *)
THEOREM Consistent == Spec => []Inv
<1>1. TypeOK /\ CountMatches /\ NoTimerOutside /\ DelayEndsInTime => Inv
  BY DEF Inv
<1> QED
  BY <1>1, TypeCorrect, CountAlwaysMatches, TimerOnlyInside, DelayNotEarly, PTL

(***************************************************************************)
(* The bound of a wait.                                                    *)
(***************************************************************************)
LEMMA RemainStep == TypeOK /\ RemainSince /\ [Next]_vars => RemainSince'
<1> SUFFICES ASSUME TypeOK, RemainSince, [Next]_vars, pc' = "start"
             PROVE  \E at \in 1..now' : rem' = Wrap(toTick' - at)
  BY DEF RemainSince
<1>a. now \in 1..MaxTime /\ now' \in 1..MaxTime /\ now <= now'
  <2>1. now \in 1..MaxTime
    BY DEF TypeOK
  <2>2. now' = now \/ Tick
    BY DEF Next, Send, IsrSend, SendLink, SendNotify, Call, GetCall, DelayCall,
           Exit, GetStep, GetTake, GetNone, GetCheck, GetRemain, GetStart,
           GetWait, GetDone, DelayWait, TimerIrq, EventTimer, DelayTimer,
           RunsOut, Expire, Cancel, Request, vars
  <2>3. now' \in 1..MaxTime /\ now <= now'
    BY <2>1, <2>2, TaskAssumption DEF Tick
  <2> QED BY <2>1, <2>3
<1>1. CASE GetRemain
  <2>1. now \in 1..now' /\ rem' = Wrap(toTick' - now)
    BY <1>1, <1>a DEF GetRemain
  <2> QED BY <2>1
<1>2. CASE ~GetRemain
  <2>1. UNCHANGED <<pc, rem, toTick>>
    BY <1>2 DEF Next, Send, IsrSend, SendLink, SendNotify, Call, GetCall,
           DelayCall, Exit, GetStep, GetTake, Dispatch, GetNone, GetCheck,
           GetStart, GetWait, GetDone, DelayWait, TimerIrq, EventTimer,
           DelayTimer, Tick, Goto, vars, callVars
  <2>2. PICK at \in 1..now : rem = Wrap(toTick - at)
    BY <2>1 DEF RemainSince
  <2>3. at \in 1..now' /\ rem' = Wrap(toTick' - at)
    BY <1>a, <2>1, <2>2
  <2> QED BY <2>3
<1> QED BY <1>1, <1>2

LEMMA BoundStep ==
  TypeOK /\ RemainSince /\ BoundedWait /\ [Next]_vars => BoundedWait'
<1> SUFFICES ASSUME TypeOK, RemainSince, BoundedWait, [Next]_vars
             PROVE  BoundedWait'
  OBVIOUS
<1>a. /\ pending \in [Timers -> Instants \cup {Off}]
      /\ "event" \in Timers /\ "delay" \in Timers
  BY TaskAssumption DEF TypeOK
<1>1. CASE UNCHANGED <<pc, toTick, notified, sending, pending>>
  BY <1>1 DEF BoundedWait
<1>2. ASSUME UNCHANGED <<pc, toTick>>, notified' \/ sending' # {}
      PROVE  BoundedWait'
  BY <1>2 DEF BoundedWait
<1>3. ASSUME pc' # "wait"
      PROVE  BoundedWait'
  BY <1>3 DEF BoundedWait
<1>4. CASE Send
  <2>1. CASE \E id \in Events : IsrSend(id)
    BY <2>1, <1>2 DEF IsrSend, callVars
  <2>2. CASE \E id \in Events, s \in Senders : SendLink(s, id)
    BY <2>2, <1>2 DEF SendLink, callVars
  <2> QED BY <1>4, <2>1, <2>2 DEF Send
<1>5. ASSUME NEW s \in Senders, SendNotify(s)
      PROVE  BoundedWait'
  BY <1>5, <1>2 DEF SendNotify, callVars
<1>6. CASE GetCheck("empty", "arm") \/ GetCheck("arm", "remain")
  BY <1>6 DEF GetCheck, BoundedWait
<1>7. CASE GetStart
  <2>1. PICK at \in 1..now : rem = Wrap(toTick - at)
    BY <1>7 DEF RemainSince, GetStart, Goto
  <2>2. now \in 1..MaxTime /\ toTick \in 0..MaxTime
    BY DEF TypeOK
  <2>3. Wrap(now + rem) = toTick + (now - at)
    <3>1. toTick \in 0..MaxTime /\ at \in 0..MaxTime /\ now \in at..MaxTime
      BY <2>1, <2>2, TaskAssumption
    <3> QED BY <2>1, <3>1, LateBy
  <2>4. Wrap(now + rem) >= toTick /\ Wrap(now + rem) \in Nat
    BY <2>1, <2>2, <2>3
  <2>5. pending'["event"] = Wrap(now + rem) /\ toTick' = toTick
    BY <1>a, <1>7 DEF GetStart, Request, callVars
  <2>6. Wrap(now + rem) # Off
    <3>1. Wrap(now + rem) \in Instants
      <4>1. now + rem \in Int
        <5>1. rem \in 0..(Word - 1) /\ Word \in Nat
          BY TaskAssumption DEF TypeOK
        <5> QED BY <2>2, <5>1
      <4> QED BY <4>1, WrapType
    <3> QED BY <3>1, TimerSpecAssumption
  <2> QED BY <2>4, <2>5, <2>6 DEF BoundedWait
<1>8. CASE EventTimer
  BY <1>8, <1>2 DEF EventTimer, callVars
<1>9. CASE DelayTimer
  <2>1. pending'["event"] = pending["event"]
    BY <1>a, <1>9 DEF DelayTimer, RunsOut, Expire, Cancel
  <2>2. UNCHANGED <<pc, toTick, notified, sending>>
    BY <1>9 DEF DelayTimer, callVars
  <2> QED BY <2>1, <2>2 DEF BoundedWait
<1>10. CASE GetTake \/ GetNone \/ GetRemain \/ GetWait \/ GetDone \/ DelayWait
  BY <1>10, <1>3 DEF GetTake, Dispatch, GetNone, GetRemain, GetWait, GetDone,
                     DelayWait, Goto
<1>11. CASE Call
  BY <1>11, <1>3 DEF Call, GetCall, DelayCall, Exit, Goto
<1>12. CASE Tick \/ UNCHANGED vars
  BY <1>12, <1>1 DEF Tick, vars, callVars
<1> QED
  BY <1>4, <1>5, <1>6, <1>7, <1>8, <1>9, <1>10, <1>11, <1>12
  DEF Next, GetStep, TimerIrq

(* A wait with a time limit has its timer set, no earlier than its deadline, *)
(* or its wakeup pending; also when the task was kept off the processor past *)
(* its deadline and the unsigned difference wrapped (core_task.c:260-278).   *)
THEOREM WaitIsBounded == Spec => []BoundedWait
<1>1. Init => RemainSince /\ BoundedWait
  BY DEF Init, RemainSince, BoundedWait
<1> QED BY <1>1, TypeCorrect, RemainStep, BoundStep, PTL DEF Spec

-----------------------------------------------------------------------------
(***************************************************************************)
(* The order of the events.                                                *)
(***************************************************************************)
LEMMA SplitsAt ==
  ASSUME NEW S, NEW s \in Seq(S), NEW t \in Seq(S), NEW u \in Seq(S)
  PROVE  u = s \o t <=>
           /\ Len(u) = Len(s) + Len(t)
           /\ \A i \in 1..Len(s) : u[i] = s[i]
           /\ \A i \in 1..Len(t) : u[Len(s) + i] = t[i]
<1>0. Len(s) \in Nat /\ Len(t) \in Nat
  BY LenProperties
<1>1. /\ s \o t \in Seq(S) /\ Len(s \o t) = Len(s) + Len(t)
      /\ \A i \in 1..(Len(s) + Len(t)) :
           (s \o t)[i] = IF i <= Len(s) THEN s[i] ELSE t[i - Len(s)]
  BY ConcatProperties
<1>2. /\ \A i \in 1..Len(s) : (s \o t)[i] = s[i]
      /\ \A i \in 1..Len(t) : (s \o t)[Len(s) + i] = t[i]
  BY <1>0, <1>1
<1>3. ASSUME /\ Len(u) = Len(s) + Len(t)
             /\ \A i \in 1..Len(s) : u[i] = s[i]
             /\ \A i \in 1..Len(t) : u[Len(s) + i] = t[i]
      PROVE  u = s \o t
  <2>1. ASSUME NEW i \in 1..Len(u) PROVE u[i] = (s \o t)[i]
    <3>1. CASE i <= Len(s)
      BY <1>0, <1>2, <1>3, <3>1
    <3>2. CASE i > Len(s)
      <4>1. PICK j \in 1..Len(t) : i = Len(s) + j
        <5>1. i - Len(s) \in 1..Len(t) /\ i = Len(s) + (i - Len(s))
          BY <1>0, <1>3, <3>2
        <5> QED BY <5>1
      <4> QED BY <1>2, <1>3, <4>1
    <3> QED BY <1>0, <1>3, <3>1, <3>2
  <2> QED BY <1>1, <1>3, <2>1, SeqEqual
<1> QED BY <1>1, <1>2, <1>3

(* Every event not yet delivered has its place in the queue, in order.     *)
Pending(n, at) ==
  /\ n \in Nat /\ at \in [1..n -> 1..Len(queue)]
  /\ Places(n, at)
  /\ Len(sent) = Len(delivered) + n
  /\ \A i \in 1..Len(delivered) : sent[i] = delivered[i]
  /\ \A i \in 1..n : sent[Len(delivered) + i] = queue[at[i]]

(* What InOrder needs: the call that takes an event was given a Callback.  *)
HasCallback ==
  pc \notin {"idle", "done", "delay"} /\ Callbacks = {TRUE} => callback

OrderInv ==
  /\ HasCallback
  /\ alive /\ Callbacks = {TRUE} => \E n, at : Pending(n, at)

LEMMA OrderInit == Init => OrderInv
<1> SUFFICES ASSUME Init PROVE OrderInv
  OBVIOUS
<1>1. queue = <<>> /\ sent = <<>> /\ delivered = <<>> /\ pc = "idle"
  BY DEF Init
<1>2. <<>> \in [1..0 -> 1..Len(queue)]
  BY <1>1
<1>3. Pending(0, <<>>)
  BY <1>1, <1>2 DEF Pending, Places
<1> QED BY <1>1, <1>3 DEF OrderInv, HasCallback

(* A time-out is queued.                                                   *)
LEMMA TimeoutQueued ==
  ASSUME TypeOK, queue' = Append(queue, Timeout), UNCHANGED <<sent, delivered>>,
         NEW n, NEW at, Pending(n, at)
  PROVE  Pending(n, at)'
<1>1. /\ Len(queue) \in Nat /\ Len(queue') = Len(queue) + 1
      /\ \A k \in 1..Len(queue) : queue'[k] = queue[k]
      /\ queue'[Len(queue) + 1] = Timeout
  BY AppendProperties, LenProperties DEF TypeOK
<1>2. /\ n \in Nat /\ \A i \in 1..n : at[i] \in 1..Len(queue)
      /\ at \in [1..n -> 1..Len(queue')]
  BY <1>1 DEF Pending
<1>3. Places(n, at)'
  <2>1. ASSUME NEW k \in 1..Len(queue')
        PROVE  queue'[k] # Timeout <=> \E i \in 1..n : at[i] = k
    <3>1. CASE k \in 1..Len(queue)
      BY <1>1, <3>1 DEF Pending, Places
    <3>2. CASE k = Len(queue) + 1
      BY <1>1, <1>2, <3>2
    <3> QED BY <1>1, <3>1, <3>2
  <2> QED BY <2>1 DEF Pending, Places
<1>4. \A i \in 1..n : sent'[Len(delivered') + i] = queue'[at[i]]
  BY <1>1, <1>2 DEF Pending
<1> QED BY <1>2, <1>3, <1>4 DEF Pending

(* An event is queued.                                                     *)
LEMMA EventQueued ==
  ASSUME TypeOK, NEW id \in Events,
         queue' = Append(queue, id), sent' = Append(sent, id),
         delivered' = delivered,
         NEW n, NEW at, Pending(n, at)
  PROVE  \E m, b : Pending(m, b)'
<1>a. PICK b : b = [i \in 1..(n + 1) |-> IF i <= n THEN at[i] ELSE Len(queue) + 1]
  OBVIOUS
<1>0. id # Timeout
  BY TaskAssumption
<1>1. /\ Len(queue) \in Nat /\ Len(queue') = Len(queue) + 1
      /\ \A k \in 1..Len(queue) : queue'[k] = queue[k]
      /\ queue'[Len(queue) + 1] = id
  <2>1. id \in Events \cup {Timeout}
    OBVIOUS
  <2> QED BY <2>1, AppendProperties, LenProperties DEF TypeOK
<1>2. /\ Len(sent) \in Nat /\ Len(delivered) \in Nat /\ Len(sent') = Len(sent) + 1
      /\ \A k \in 1..Len(sent) : sent'[k] = sent[k]
      /\ sent'[Len(sent) + 1] = id
  BY AppendProperties, LenProperties DEF TypeOK
<1>3. /\ n \in Nat /\ \A i \in 1..n : at[i] \in 1..Len(queue)
      /\ \A i, j \in 1..n : i < j => at[i] < at[j]
      /\ \A k \in 1..Len(queue) : queue[k] # Timeout <=> \E i \in 1..n : at[i] = k
      /\ Len(sent) = Len(delivered) + n
      /\ \A i \in 1..Len(delivered) : sent[i] = delivered[i]
      /\ \A i \in 1..n : sent[Len(delivered) + i] = queue[at[i]]
  BY DEF Pending, Places
<1>4. /\ n + 1 \in Nat /\ b \in [1..(n + 1) -> 1..Len(queue')]
      /\ \A i \in 1..n : b[i] = at[i]
      /\ b[n + 1] = Len(queue) + 1
  <2>1. n \in Nat /\ Len(queue) \in Nat /\ Len(queue') = Len(queue) + 1
    BY <1>1, <1>3
  <2>2. \A i \in 1..n : at[i] \in 1..Len(queue)
    BY <1>3
  <2>3. \A i \in 1..(n + 1) :
          (IF i <= n THEN at[i] ELSE Len(queue) + 1) \in 1..Len(queue')
    <3> SUFFICES ASSUME NEW i \in 1..(n + 1)
                 PROVE  (IF i <= n THEN at[i] ELSE Len(queue) + 1) \in 1..Len(queue')
      OBVIOUS
    <3>1. CASE i <= n
      <4>1. at[i] \in 1..Len(queue)
        BY <2>1, <2>2, <3>1
      <4> QED BY <2>1, <3>1, <4>1
    <3>2. CASE ~(i <= n)
      BY <2>1, <3>2
    <3> QED BY <3>1, <3>2
  <2>4. b \in [1..(n + 1) -> 1..Len(queue')]
    BY <1>a, <2>3
  <2>5. \A i \in 1..n : b[i] = at[i]
    BY <1>a, <2>1
  <2>6. b[n + 1] = Len(queue) + 1
    BY <1>a, <2>1
  <2> QED BY <2>1, <2>4, <2>5, <2>6
<1>5. ASSUME NEW i \in 1..(n + 1), NEW j \in 1..(n + 1), i < j
      PROVE  b[i] < b[j]
  <2>1. CASE j \in 1..n
    <3>1. i \in 1..n
      BY <1>3, <1>5, <2>1
    <3>2. at[i] < at[j] /\ b[i] = at[i] /\ b[j] = at[j]
      BY <1>3, <1>4, <1>5, <2>1, <3>1
    <3> QED BY <3>2
  <2>2. CASE j = n + 1
    <3>1. i \in 1..n
      BY <1>3, <1>5, <2>2
    <3> QED BY <1>1, <1>3, <1>4, <2>2, <3>1
  <2> QED BY <1>3, <2>1, <2>2
<1>6. ASSUME NEW k \in 1..Len(queue')
      PROVE  queue'[k] # Timeout <=> \E i \in 1..(n + 1) : b[i] = k
  <2>1. CASE k \in 1..Len(queue)
    <3>1. b[n + 1] # k
      BY <1>1, <1>4, <2>1
    <3>2. ASSUME NEW i \in 1..(n + 1), b[i] = k
          PROVE  i \in 1..n /\ at[i] = k
      <4>1. i # n + 1
        BY <3>1, <3>2
      <4>2. i \in 1..n
        BY <1>3, <4>1
      <4> QED BY <1>4, <3>2, <4>2
    <3>3. \A i \in 1..n : i \in 1..(n + 1) /\ b[i] = at[i]
      BY <1>3, <1>4
    <3>4. (\E i \in 1..(n + 1) : b[i] = k) <=> \E i \in 1..n : at[i] = k
      BY <3>2, <3>3
    <3> QED BY <1>1, <1>3, <2>1, <3>4
  <2>2. CASE k = Len(queue) + 1
    <3>1. n + 1 \in 1..(n + 1)
      BY <1>3
    <3> QED BY <1>0, <1>1, <1>4, <2>2, <3>1
  <2> QED BY <1>1, <2>1, <2>2
<1>7. ASSUME NEW i \in 1..(n + 1)
      PROVE  sent'[Len(delivered) + i] = queue'[b[i]]
  <2>1. CASE i \in 1..n
    <3>1. Len(delivered) + i \in 1..Len(sent)
      BY <1>2, <1>3, <2>1
    <3>2. sent'[Len(delivered) + i] = queue[at[i]]
      BY <1>2, <1>3, <2>1, <3>1
    <3>3. queue'[b[i]] = queue[at[i]]
      BY <1>1, <1>3, <1>4, <2>1
    <3> QED BY <3>2, <3>3
  <2>2. CASE i = n + 1
    <3>1. Len(delivered) + i = Len(sent) + 1
      BY <1>2, <1>3, <2>2
    <3> QED BY <1>1, <1>2, <1>4, <2>2, <3>1
  <2>3. i \in 1..n \/ i = n + 1
    BY <1>3
  <2> QED BY <2>1, <2>2, <2>3
<1>8. \A i \in 1..Len(delivered) : sent'[i] = delivered[i]
  BY <1>2, <1>3
<1>9. Len(sent') = Len(delivered) + (n + 1)
  BY <1>2, <1>3
<1>10. Pending(n + 1, b)'
  <2>1. Places(n + 1, b)'
    BY <1>5, <1>6 DEF Places
  <2> QED BY <1>4, <1>7, <1>8, <1>9, <2>1 DEF Pending
<1> QED BY <1>10

(* The first of the queue is taken, and handed on unless it is a time-out. *)
LEMMA FirstTaken ==
  ASSUME TypeOK, queue # <<>>, queue' = Tail(queue), sent' = sent,
         delivered' = IF Head(queue) = Timeout THEN delivered
                      ELSE Append(delivered, Head(queue)),
         NEW n, NEW at, Pending(n, at)
  PROVE  \E m, b : Pending(m, b)'
<1>1. /\ Len(queue) \in Nat \ {0} /\ Len(queue') = Len(queue) - 1
      /\ Head(queue) = queue[1] /\ queue[1] \in Events \cup {Timeout}
      /\ \A k \in 1..(Len(queue) - 1) : queue'[k] = queue[k + 1]
  <2>1. queue \in Seq(Events \cup {Timeout})
    BY DEF TypeOK
  <2>2. Len(queue) \in Nat \ {0}
    BY <2>1, EmptySeq, LenProperties
  <2> QED BY <2>1, <2>2, HeadTailProperties, ElementOfSeq
<1>2. Len(sent) \in Nat /\ Len(delivered) \in Nat
  BY LenProperties DEF TypeOK
<1>3. /\ n \in Nat /\ \A i \in 1..n : at[i] \in 1..Len(queue)
      /\ \A i, j \in 1..n : i < j => at[i] < at[j]
      /\ \A k \in 1..Len(queue) : queue[k] # Timeout <=> \E i \in 1..n : at[i] = k
      /\ Len(sent) = Len(delivered) + n
      /\ \A i \in 1..Len(delivered) : sent[i] = delivered[i]
      /\ \A i \in 1..n : sent[Len(delivered) + i] = queue[at[i]]
  BY DEF Pending, Places
<1>4. CASE queue[1] = Timeout
  <2> DEFINE b == [i \in 1..n |-> at[i] - 1]
  <2>1. \A i \in 1..n : at[i] # 1
    BY <1>1, <1>3, <1>4
  <2>2. b \in [1..n -> 1..Len(queue')] /\ \A i \in 1..n : b[i] + 1 = at[i]
    BY <1>1, <1>3, <2>1
  <2> HIDE DEF b
  <2>3. ASSUME NEW i \in 1..n, NEW j \in 1..n, i < j
        PROVE  b[i] < b[j]
    <3>1. at[i] < at[j] /\ b[i] + 1 = at[i] /\ b[j] + 1 = at[j]
      BY <1>3, <2>2, <2>3
    <3> QED BY <1>1, <2>2, <3>1
  <2>4. ASSUME NEW k \in 1..Len(queue')
        PROVE  queue'[k] # Timeout <=> \E i \in 1..n : b[i] = k
    <3>1. k + 1 \in 1..Len(queue) /\ queue'[k] = queue[k + 1]
      BY <1>1
    <3>2. \A i \in 1..n : at[i] = k + 1 <=> b[i] = k
      BY <1>1, <2>2
    <3> QED BY <1>3, <3>1, <3>2
  <2>5. ASSUME NEW i \in 1..n
        PROVE  sent'[Len(delivered') + i] = queue'[b[i]]
    <3>1. queue'[b[i]] = queue[at[i]]
      BY <1>1, <2>2
    <3> QED BY <1>1, <1>3, <1>4, <3>1
  <2>6. Pending(n, b)'
    BY <1>1, <1>3, <1>4, <2>2, <2>3, <2>4, <2>5 DEF Pending, Places
  <2> QED BY <2>6
<1>5. CASE queue[1] # Timeout
  <2> DEFINE b == [i \in 1..(n - 1) |-> at[i + 1] - 1]
  <2>1. n \in Nat \ {0} /\ at[1] = 1
    <3>1. PICK i \in 1..n : at[i] = 1
      BY <1>1, <1>3, <1>5
    <3>2. i = 1
      <4>1. CASE i > 1
        <5>1. 1 \in 1..n
          BY <1>3, <4>1
        <5>2. at[1] < at[i] /\ at[1] \in 1..Len(queue)
          BY <1>3, <3>1, <4>1, <5>1
        <5> QED BY <1>1, <3>1, <5>2
      <4> QED BY <1>3, <4>1
    <3> QED BY <1>3, <3>1, <3>2
  <2>2. ASSUME NEW i \in 1..(n - 1) PROVE at[i + 1] \in 2..Len(queue)
    <3>1. 1 \in 1..n /\ i + 1 \in 1..n /\ 1 < i + 1
      BY <2>1
    <3> QED BY <1>1, <1>3, <2>1, <3>1
  <2>3. b \in [1..(n - 1) -> 1..Len(queue')]
        /\ \A i \in 1..(n - 1) : b[i] + 1 = at[i + 1]
    BY <1>1, <2>2
  <2> HIDE DEF b
  <2>4. ASSUME NEW i \in 1..(n - 1), NEW j \in 1..(n - 1), i < j
        PROVE  b[i] < b[j]
    <3>1. i + 1 \in 1..n /\ j + 1 \in 1..n /\ i + 1 < j + 1
      BY <2>1, <2>4
    <3>2. at[i + 1] < at[j + 1]
      BY <1>3, <3>1
    <3>3. b[i] + 1 = at[i + 1] /\ b[j] + 1 = at[j + 1]
      BY <2>3
    <3>4. b[i] \in Nat /\ b[j] \in Nat
      BY <1>1, <2>3
    <3> QED BY <3>2, <3>3, <3>4
  <2>5. ASSUME NEW k \in 1..Len(queue')
        PROVE  queue'[k] # Timeout <=> \E i \in 1..(n - 1) : b[i] = k
    <3>1. k + 1 \in 1..Len(queue) /\ queue'[k] = queue[k + 1] /\ k + 1 # 1
      BY <1>1
    <3>2. \A i \in 1..(n - 1) : i + 1 \in 1..n /\ (at[i + 1] = k + 1 <=> b[i] = k)
      <4>1. \A i \in 1..(n - 1) : b[i] \in Nat /\ b[i] + 1 = at[i + 1]
        BY <1>1, <2>3
      <4> QED BY <1>1, <2>1, <4>1
    <3>3. \A i \in 1..n : i # 1 => i - 1 \in 1..(n - 1) /\ (i - 1) + 1 = i
      BY <2>1
    <3>4. (\E i \in 1..n : at[i] = k + 1) <=> \E i \in 1..(n - 1) : b[i] = k
      BY <2>1, <3>1, <3>2, <3>3
    <3> QED BY <1>3, <3>1, <3>4
  <2>6. /\ Len(delivered') = Len(delivered) + 1
        /\ \A i \in 1..Len(delivered) : delivered'[i] = delivered[i]
        /\ delivered'[Len(delivered) + 1] = queue[1]
    <3>1. queue[1] \in Events /\ delivered' = Append(delivered, queue[1])
      BY <1>1, <1>5
    <3> QED BY <3>1, AppendProperties DEF TypeOK
  <2>7. \A i \in 1..Len(delivered') : sent'[i] = delivered'[i]
    <3>1. 1 \in 1..n
      BY <2>1
    <3>2. sent[Len(delivered) + 1] = queue[1]
      BY <1>3, <2>1, <3>1
    <3> QED BY <1>2, <1>3, <2>6, <3>2
  <2>8. ASSUME NEW i \in 1..(n - 1)
        PROVE  sent'[Len(delivered') + i] = queue'[b[i]]
    <3>1. /\ i + 1 \in 1..n
          /\ Len(delivered') + i = Len(delivered) + (i + 1)
      BY <1>2, <2>1, <2>6
    <3>2. queue'[b[i]] = queue[b[i] + 1]
      BY <1>1, <2>3
    <3> QED BY <1>3, <2>3, <3>1, <3>2
  <2>9. n - 1 \in Nat /\ Len(sent') = Len(delivered') + (n - 1)
    BY <1>2, <1>3, <2>1, <2>6
  <2>10. Pending(n - 1, b)'
    BY <2>3, <2>4, <2>5, <2>7, <2>8, <2>9 DEF Pending, Places
  <2> QED BY <2>10
<1> QED BY <1>4, <1>5

LEMMA OrderStep == TypeOK /\ OrderInv /\ [Next]_vars => OrderInv'
<1> SUFFICES ASSUME TypeOK, OrderInv, [Next]_vars PROVE OrderInv'
  OBVIOUS
<1>a. /\ HasCallback
      /\ alive /\ Callbacks = {TRUE} => \E n, at : Pending(n, at)
  BY DEF OrderInv
<1>1. ASSUME UNCHANGED <<pc, callback, alive>>,
             ASSUME NEW n, NEW at, Pending(n, at) PROVE \E m, b : Pending(m, b)'
      PROVE  OrderInv'
  BY <1>a, <1>1 DEF OrderInv, HasCallback
<1>2. ASSUME UNCHANGED <<queue, sent, delivered, alive>>, HasCallback'
      PROVE  OrderInv'
  <2>1. ASSUME NEW n, NEW at, Pending(n, at) PROVE Pending(n, at)'
    BY <1>2, <2>1 DEF Pending, Places
  <2> QED BY <1>a, <1>2, <2>1 DEF OrderInv
<1>3. ASSUME NEW id \in Events, IsrSend(id) \/ \E s \in Senders : SendLink(s, id)
      PROVE  OrderInv'
  BY <1>1, <1>3, EventQueued DEF IsrSend, SendLink, Link, RecordSend, callVars
<1>4. CASE EventTimer
  BY <1>1, <1>4, TimeoutQueued DEF EventTimer, Link, callVars
<1>5. CASE GetTake
  <2>1. queue # <<>> /\ queue' = Tail(queue) /\ sent' = sent /\ alive' = alive
    BY <1>5 DEF GetTake
  <2>2. HasCallback'
    BY <1>a, <1>5 DEF GetTake, Dispatch, HasCallback
  <2>3. ASSUME Callbacks = {TRUE}
        PROVE  delivered' = IF Head(queue) = Timeout THEN delivered
                            ELSE Append(delivered, Head(queue))
    BY <1>a, <1>5, <2>3 DEF GetTake, Dispatch, Hand, HasCallback
  <2>4. ASSUME NEW n, NEW at, Pending(n, at), Callbacks = {TRUE}
        PROVE  \E m, b : Pending(m, b)'
    BY <2>1, <2>3, <2>4, FirstTaken
  <2> QED BY <1>a, <2>1, <2>2, <2>4 DEF OrderInv
<1>6. ASSUME NEW id \in Events \cup {Any}, NEW tick \in Waits, NEW cb \in Callbacks,
             GetCall(id, tick, cb)
      PROVE  OrderInv'
  <2>1. Callbacks = {TRUE} => callback'
    BY <1>6 DEF GetCall
  <2> QED BY <1>2, <1>6, <2>1 DEF GetCall, queueVars, HasCallback
<1>7. CASE \/ GetNone \/ GetCheck("empty", "arm") \/ GetCheck("arm", "remain")
           \/ GetRemain \/ GetStart \/ GetWait \/ GetDone \/ DelayWait
  <2>1. UNCHANGED <<queue, sent, delivered, alive, callback>>
    BY <1>7 DEF GetNone, GetCheck, GetRemain, GetStart, GetWait, GetDone, DelayWait,
                queueVars, callVars
  <2>2. pc \in {"idle", "done", "delay"} => pc' \in {"idle", "done", "delay"}
    BY <1>7 DEF GetNone, GetCheck, GetRemain, GetStart, GetWait, GetDone, DelayWait, Goto
  <2> QED BY <1>a, <1>2, <2>1, <2>2 DEF HasCallback
<1>8. CASE \/ DelayTimer \/ Tick \/ UNCHANGED vars \/ \E s \in Senders : SendNotify(s)
  BY <1>a, <1>2, <1>8 DEF DelayTimer, Tick, SendNotify, vars, queueVars, callVars,
                          HasCallback
<1>9. ASSUME NEW tick \in Waits \ {0}, DelayCall(tick) PROVE OrderInv'
  BY <1>2, <1>9 DEF DelayCall, Goto, queueVars, HasCallback
<1>10. CASE Exit
  BY <1>10 DEF Exit, OrderInv, HasCallback
<1> QED
  BY <1>3, <1>4, <1>5, <1>6, <1>7, <1>8, <1>9, <1>10
  DEF Next, Send, Call, GetStep, TimerIrq

(* Every event sent is delivered or still queued, in the order sent, for   *)
(* any senders, events and waits, time-outs between them included.         *)
THEOREM EventsInOrder == Spec => []InOrder
<1>1. TypeOK /\ OrderInv => InOrder
  <2> SUFFICES ASSUME TypeOK, OrderInv, alive, Callbacks = {TRUE}
               PROVE  LET n == Len(sent) - Len(delivered)
                      IN \E at \in [1..n -> 1..Len(queue)] :
                           /\ Places(n, at)
                           /\ sent = delivered \o [i \in 1..n |-> queue[at[i]]]
    BY DEF InOrder
  <2>1. PICK n, at : Pending(n, at)
    BY DEF OrderInv
  <2>2. /\ n \in Nat /\ at \in [1..n -> 1..Len(queue)]
        /\ \A i \in 1..n : queue[at[i]] # Timeout
    BY <2>1 DEF Pending, Places
  <2>3. Len(queue) \in Nat /\ \A k \in 1..Len(queue) : queue[k] \in Events \cup {Timeout}
    BY LenProperties, ElementOfSeq DEF TypeOK
  <2>4. n = Len(sent) - Len(delivered)
    BY <2>1, LenProperties DEF Pending, TypeOK
  <2> DEFINE waiting == [i \in 1..n |-> queue[at[i]]]
  <2>5. waiting \in Seq(Events) /\ Len(waiting) = n /\ \A i \in 1..n : waiting[i] = queue[at[i]]
    <3>1. \A i \in 1..n : queue[at[i]] \in Events
      BY <2>2, <2>3
    <3> QED BY <2>2, <3>1, SeqDef, LenProperties
  <2> HIDE DEF waiting
  <2>6. sent = delivered \o waiting
    <3>1. sent \in Seq(Events) /\ delivered \in Seq(Events)
      BY DEF TypeOK
    <3>2. /\ Len(sent) = Len(delivered) + Len(waiting)
          /\ \A i \in 1..Len(delivered) : sent[i] = delivered[i]
          /\ \A i \in 1..Len(waiting) : sent[Len(delivered) + i] = waiting[i]
      BY <2>1, <2>5 DEF Pending
    <3> QED BY <2>5, <3>1, <3>2, SplitsAt
  <2> QED
    BY <2>1, <2>2, <2>3, <2>4, <2>6 DEF Pending, waiting
<1> QED BY <1>1, OrderInit, OrderStep, TypeCorrect, PTL DEF Spec, TypeInv
=============================================================================

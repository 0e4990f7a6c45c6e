------------------------------ MODULE CoreTimer ------------------------------
(***************************************************************************)
(* The software timers of bsp/air105/hal/core_timer.c: a list of running   *)
(* timers ordered by deadline, multiplexed over one hardware timer.        *)
(*                                                                         *)
(* Three kinds of steps interleave:                                        *)
(*   - SystemTimerIrqHandler, cut wherever an interrupt of a higher        *)
(*     priority can preempt it (pc is its program counter);                *)
(*   - the client calls Timer_Create/Start/Stop/Release, each of which     *)
(*     touches the list inside one critical section and is one step.       *)
(*     Tasks call only while the handler is not running (one core); the    *)
(*     callbacks and the preempting interrupts call what InHandlerStart    *)
(*     and InHandlerStop say;                                              *)
(*   - the clock and the hardware timer.                                   *)
(*                                                                         *)
(* The instant MaxTime stands for every later one: the clock stops there   *)
(* and the hardware timer has run out whatever it was loaded with.         *)
(***************************************************************************)
EXTENDS Integers, Sequences, SequencesExt

CONSTANTS
  Timers,         (* Timer_t objects                                          *)
  Ticks,          (* the delays clients ask for                               *)
  MaxTime,        (* bound on the clock                                       *)
  MaxBurst,       (* bound on client calls between two clock ticks            *)
  Lead,           (* the hardware is loaded to run out this much early (4)    *)
  MinPass,        (* load when the deadline is too close (SYS_TIMER_1US/4)    *)
  MaxPass,        (* largest load (0xfffffffe)                                *)
  Usage,          (* <<t, repeat>>: the repeat flag t's owner starts it with  *)
  InHandlerStart, (* timers a callback or a preempting ISR may start          *)
  InHandlerStop,  (* timers a callback or a preempting ISR may stop           *)
  None            (* no timer                                                 *)

ASSUME TimerAssumption ==
  /\ Ticks \subseteq Nat
  /\ MaxTime \in Nat \ {0} /\ MaxBurst \in Nat
  /\ Lead \in Nat /\ MinPass \in Nat \ {0} /\ MaxPass \in Nat \ {0}
  /\ Usage \subseteq Timers \X BOOLEAN
  /\ InHandlerStart \subseteq Timers /\ InHandlerStop \subseteq Timers
  /\ None \notin Timers /\ None \notin Nat

VARIABLES
  now,        (* GetSysTick()                                             *)
  list,       (* prvTimerCtrl.Head: the linked timers, first to last      *)
  target,     (* TargetTick of each timer                                 *)
  add,        (* AddTick of each timer: its period, 0 for a one-shot      *)
  alive,      (* the timers that are allocated                            *)
  nextTick,   (* prvTimerCtrl.NextTick: what the hardware is loaded for   *)
  sleepFlush, (* prvTimerCtrl.SleepFlush                                  *)
  hwOn,       (* the hardware timer is enabled                            *)
  hwAt,       (* the instant it runs out at, if nothing is slept          *)
  slept,      (* history: time slept since it was loaded                  *)
  irq,        (* its interrupt is pending                                 *)
  pc,         (* where SystemTimerIrqHandler is                           *)
  cur,        (* the timer it is serving                                  *)
  stopped,    (* history: stopped by a client and not started since       *)
  rearmed,    (* history: a call changed NextTick during this handler run *)
  burst       (* history: client calls since the last clock tick          *)

clientVars == <<alive, stopped, burst>>
hwVars     == <<hwOn, hwAt, slept, irq>>
listVars   == <<list, target, add>>
vars == <<now, listVars, clientVars, nextTick, sleepFlush, hwVars, pc, cur,
          rearmed>>

Linked == ToSet(list)

(* The clock has run since CoreTick_Init: NextTick = 0 is never an instant. *)
Init ==
  /\ now = 1
  /\ list = <<>>
  /\ target = [t \in Timers |-> 0]
  /\ add = [t \in Timers |-> 0]
  /\ alive = {}
  /\ nextTick = 0
  /\ sleepFlush = FALSE
  /\ hwOn = FALSE /\ hwAt = 0 /\ slept = 0 /\ irq = FALSE
  /\ pc = "idle"
  /\ cur = None
  /\ stopped = {}
  /\ rearmed = FALSE
  /\ burst = 0

-----------------------------------------------------------------------------
(***************************************************************************)
(* The list.  Insert links t before the first timer due strictly later, so *)
(* equal deadlines keep their order; linking a node that is still linked   *)
(* leaves it in the list twice, which is how the corrupted list of the     *)
(* code shows here.                                                        *)
(***************************************************************************)
Insert(l, t, due) ==
  LET later == {i \in 1..Len(l) : due[t] < due[l[i]]}
  IN  IF later = {} THEN Append(l, t)
      ELSE InsertAt(l, CHOOSE i \in later : \A j \in later : i <= j, t)

Unlink(l, t) ==
  LET places == {i \in 1..Len(l) : l[i] = t}
  IN  IF places = {} THEN l ELSE RemoveAt(l, CHOOSE i \in places : TRUE)

(***************************************************************************)
(* The load for a deadline, and Timer_SetNextIsr on the list and deadlines *)
(* the surrounding step leaves behind.                                     *)
(***************************************************************************)
Pass(due) ==
  IF due > now + Lead
  THEN IF due - (now + Lead) >= MaxPass THEN MaxPass ELSE due - (now + Lead)
  ELSE MinPass

LoadDisabled(due) ==                               \* mutant: not enabled again
  /\ nextTick' = due
  /\ hwOn' = FALSE
  /\ irq' = FALSE
  /\ hwAt' = now + Pass(due)
  /\ slept' = 0

Load(due) ==
  /\ nextTick' = due
  /\ hwOn' = TRUE
  /\ irq' = FALSE
  /\ hwAt' = now + Pass(due)
  /\ slept' = 0

SetNextIsr ==
  \/ /\ list' = <<>>
     /\ hwOn' = FALSE
     /\ nextTick' = 0
     /\ UNCHANGED <<hwAt, slept, irq>>
  \/ /\ list' # <<>>
     /\ nextTick = target'[Head(list')]
     /\ UNCHANGED <<hwVars, nextTick>>
  \/ /\ list' # <<>>
     /\ nextTick # target'[Head(list')]
     /\ Load(target'[Head(list')])

-----------------------------------------------------------------------------
(***************************************************************************)
(* Clients.  Outside the handler any task or interrupt may call; while it  *)
(* runs only its callback and, unless interrupts are masked for the wakeup *)
(* run, the interrupts that preempt it.                                    *)
(***************************************************************************)
Preemptible == pc = "call" \/ ~sleepFlush

NoteRearm == rearmed' = (rearmed \/ (pc # "idle" /\ nextTick' # nextTick))

CountCall ==
  /\ burst < MaxBurst
  /\ burst' = burst + 1

TimerCreate(t) ==
  /\ pc = "idle"
  /\ t \notin alive
  /\ alive' = alive \cup {t}
  /\ target' = [target EXCEPT ![t] = 0]
  /\ add' = [add EXCEPT ![t] = 0]
  /\ stopped' = stopped \ {t}
  /\ CountCall
  /\ UNCHANGED <<now, list, nextTick, sleepFlush, hwVars, pc, cur, rearmed>>

Period(d, repeat) == IF repeat THEN d ELSE 0

(* No driver starts a timer without a delay from the handler: one due at   *)
(* the instant NextTick was clamped to would be left without an interrupt. *)
TimerStart(t, d, repeat) ==
  /\ t \in alive
  /\ <<t, repeat>> \in Usage
  /\ pc = "idle" \/ (Preemptible /\ t \in InHandlerStart /\ d > 0)
  /\ now + d <= MaxTime
  /\ target' = [target EXCEPT ![t] = now + d]
  /\ add' = [add EXCEPT ![t] = Period(d, repeat)]
  /\ list' = Insert(Unlink(list, t), t, target')
  /\ SetNextIsr
  /\ NoteRearm
  /\ stopped' = stopped \ {t}
  /\ CountCall
  /\ UNCHANGED <<now, alive, sleepFlush, pc, cur>>

StopHeadOnly(t) ==                                 \* mutant: others stay linked
  /\ list' = IF list # <<>> /\ Head(list) = t THEN Tail(list) ELSE list
  /\ UNCHANGED <<target, add>>
  /\ SetNextIsr
  /\ NoteRearm

(* Reprogramming is only needed, and only done, when the head goes.        *)
StopBody(t) ==
  /\ list' = Unlink(list, t)
  /\ UNCHANGED <<target, add>>
  /\ IF list # <<>> /\ Head(list) = t THEN SetNextIsr
     ELSE UNCHANGED <<hwVars, nextTick>>
  /\ NoteRearm

TimerStop(t) ==
  /\ t \in alive
  /\ pc = "idle" \/ (Preemptible /\ t \in InHandlerStop)
  /\ StopBody(t)
  /\ stopped' = stopped \cup {t}
  /\ CountCall
  /\ UNCHANGED <<now, alive, sleepFlush, pc, cur>>

TimerRelease(t) ==
  /\ t \in alive
  /\ pc = "idle"
  /\ StopBody(t)
  /\ alive' = alive \ {t}
  /\ stopped' = stopped \cup {t}
  /\ CountCall
  /\ UNCHANGED <<now, sleepFlush, pc, cur>>

-----------------------------------------------------------------------------
(***************************************************************************)
(* The clock, the hardware timer and the sleep of core_pm.c.               *)
(***************************************************************************)
Tick ==
  /\ now < MaxTime
  /\ now' = now + 1
  /\ burst' = 0
  /\ UNCHANGED <<listVars, alive, stopped, nextTick, sleepFlush, hwVars, pc, cur,
                 rearmed>>

HwRunOut ==
  /\ hwOn /\ ~irq
  /\ hwAt <= now \/ now = MaxTime
  /\ irq' = TRUE
  /\ UNCHANGED <<now, listVars, clientVars, nextTick, sleepFlush, hwOn, hwAt, slept,
                 pc, cur, rearmed>>

(***************************************************************************)
(* PM_Sleep: interrupts are masked and all channels of TIMM0 stand still,  *)
(* the one of the tick and the one of the timers: what was slept is added  *)
(* to the tick by hand, and the hardware timer has as much left to count   *)
(* as before.  Timer_WakeupRun runs the handler with SleepFlush set if     *)
(* NextTick is past, and leaves the hardware as it is if it is not.        *)
(***************************************************************************)
Sleep(d) ==
  /\ pc = "idle"
  /\ now + d <= MaxTime
  /\ now' = now + d
  /\ hwAt' = hwAt + d
  /\ slept' = slept + d
  /\ burst' = IF d = 0 THEN burst ELSE 0
  /\ IF now' >= nextTick
     THEN pc' = "eoi" /\ sleepFlush' = TRUE
     ELSE UNCHANGED <<pc, sleepFlush>>
  /\ UNCHANGED <<listVars, alive, stopped, nextTick, hwOn, irq, cur, rearmed>>

-----------------------------------------------------------------------------
(***************************************************************************)
(* SystemTimerIrqHandler.                                                  *)
(***************************************************************************)
Goto(from, to) == pc = from /\ pc' = to

Enter ==
  /\ irq
  /\ Goto("idle", "eoi")
  /\ UNCHANGED <<now, listVars, clientVars, nextTick, sleepFlush, hwVars, cur,
                 rearmed>>

ClearIrq ==
  /\ Goto("eoi", "off")
  /\ irq' = FALSE
  /\ UNCHANGED <<now, listVars, clientVars, nextTick, sleepFlush, hwOn, hwAt, slept,
                 cur, rearmed>>

Disable ==
  /\ Goto("off", "compare")
  /\ hwOn' = FALSE
  /\ UNCHANGED <<now, listVars, clientVars, nextTick, sleepFlush, hwAt, slept, irq,
                 cur, rearmed>>

CompareNever ==                                    \* mutant: early wakeup ignored
  /\ Goto("compare", "pick")
  /\ UNCHANGED <<now, listVars, clientVars, nextTick, sleepFlush, hwVars, cur,
                 rearmed>>

(* The hardware runs out early: Lead before the deadline, or at MaxPass.   *)
Compare ==
  /\ pc = "compare"
  /\ pc' = IF nextTick > now THEN "clamp" ELSE "pick"
  /\ UNCHANGED <<now, listVars, clientVars, nextTick, sleepFlush, hwVars, cur,
                 rearmed>>

Clamp ==
  /\ Goto("clamp", "pick")
  /\ nextTick' = now
  /\ UNCHANGED <<now, listVars, clientVars, sleepFlush, hwVars, cur,
                 rearmed>>

(* llist_traversal with Timer_CheckTo: the first timer NextTick covers.    *)
Due == {i \in 1..Len(list) : target[list[i]] <= nextTick}
FirstDue == list[CHOOSE i \in Due : \A j \in Due : i <= j]

Pick ==
  /\ Due # {}
  /\ Goto("pick", "call")
  /\ cur' = FirstDue
  /\ list' = Unlink(list, FirstDue)
  /\ UNCHANGED <<now, target, add, clientVars, nextTick, sleepFlush, hwVars, rearmed>>

NothingDue ==
  /\ Due = {}
  /\ Goto("pick", "next")
  /\ UNCHANGED <<now, listVars, clientVars, nextTick, sleepFlush, hwVars, cur,
                 rearmed>>

(* The callback returns, then AddTick is read: cur must still be allocated.*)
Return ==
  /\ pc = "call"
  /\ pc' = IF add[cur] # 0 THEN "relink" ELSE "pick"
  /\ UNCHANGED <<now, listVars, clientVars, nextTick, sleepFlush, hwVars, cur,
                 rearmed>>

(* What GetSysTick() reads: at the horizon the time has passed that the    *)
(* hardware was loaded for.                                                *)
Present == IF now = MaxTime /\ nextTick > now THEN nextTick ELSE now

(* Timer_Update: a period after the last deadline, or after now on wakeup. *)
NextDue(t) == (IF sleepFlush THEN Present ELSE target[t]) + add[t]

Relink ==
  /\ Goto("relink", "pick")
  /\ target' = [target EXCEPT ![cur] = NextDue(cur)]
  /\ list' = Insert(list, cur, target')
  /\ UNCHANGED <<now, add, clientVars, nextTick, sleepFlush, hwVars, cur,
                 rearmed>>

Leave ==
  /\ Goto("next", "idle")
  /\ UNCHANGED listVars
  /\ SetNextIsr
  /\ sleepFlush' = FALSE
  /\ cur' = None
  /\ rearmed' = FALSE
  /\ UNCHANGED <<now, clientVars>>

Handler ==
  \/ ClearIrq \/ Disable \/ Compare \/ Clamp
  \/ Pick \/ NothingDue \/ Return \/ Relink \/ Leave

-----------------------------------------------------------------------------
Client ==
  \E t \in Timers :
    \/ TimerCreate(t)
    \/ \E d \in Ticks, repeat \in BOOLEAN : TimerStart(t, d, repeat)
    \/ TimerStop(t)
    \/ TimerRelease(t)

Next ==
  \/ Client
  \/ Tick
  \/ HwRunOut
  \/ \E d \in Ticks : Sleep(d)
  \/ Enter
  \/ Handler

(***************************************************************************)
(* Time passes, the hardware counts, and an interrupt is served: an ISR    *)
(* runs to its end whatever the tasks do.  Clients are not fair.           *)
(***************************************************************************)
Fairness ==
  /\ WF_vars(Tick)
  /\ WF_vars(HwRunOut)
  /\ WF_vars(Enter)
  /\ WF_vars(Handler)

Spec == Init /\ [][Next]_vars /\ Fairness

-----------------------------------------------------------------------------
TypeOK ==
  /\ now \in 1..MaxTime
  /\ list \in Seq(Timers)
  /\ target \in [Timers -> Nat]
  /\ add \in [Timers -> Nat]
  /\ alive \subseteq Timers
  /\ nextTick \in Nat
  /\ sleepFlush \in BOOLEAN
  /\ hwOn \in BOOLEAN /\ hwAt \in Nat /\ slept \in Nat /\ irq \in BOOLEAN
  /\ pc \in {"idle", "eoi", "off", "compare", "clamp", "pick",
             "call", "relink", "next"}
  /\ cur \in Timers \cup {None}
  /\ stopped \subseteq Timers
  /\ rearmed \in BOOLEAN
  /\ burst \in 0..MaxBurst

(***************************************************************************)
(* The list the handler walks stays in deadline order and holds a timer    *)
(* once, whatever Timer_Start, Timer_Stop and the handler's re-linking of  *)
(* repeating timers interleave to (core_timer.c:93-103, 152-168, 251-309). *)
(***************************************************************************)
Ordered ==
  \A i, j \in 1..Len(list) : i < j =>
    target[list[i]] <= target[list[j]] /\ list[i] # list[j]

(***************************************************************************)
(* No lost wakeup: whenever the handler is not running and a timer waits,  *)
(* the hardware is loaded for the first deadline and runs out in time for  *)
(* it, or its interrupt is already pending (core_timer.c:56-91).  Stopping *)
(* the head, re-linking behind the handler's back or being preempted       *)
(* between the last traversal and Timer_SetNextIsr must not lose it.       *)
(* In time means: a board that sleeps with the hardware loaded and wakes   *)
(* before the deadline is late by what it slept, and by no more, since     *)
(* Timer_WakeupRun does not load it again (core_timer.c:210-220).          *)
(***************************************************************************)
Armed ==
  pc = "idle" /\ list # <<>> =>
    LET due == target[Head(list)] IN
      /\ nextTick = due
      /\ hwOn \/ irq
      /\ ~irq => hwAt <= due + slept \/ hwAt <= now + MinPass

(***************************************************************************)
(* A released timer is neither linked nor still to be touched by the       *)
(* handler, which reads AddTick after the callback (core_timer.c:152,311). *)
(***************************************************************************)
NoDangling ==
  /\ Linked \subseteq alive
  /\ pc \in {"call", "relink"} => cur \in alive

(* The list, the hardware and the handler agree.                           *)
Inv == TypeOK /\ Ordered /\ Armed /\ NoDangling

(***************************************************************************)
(* Timer_Stop is final until the next Timer_Start: a stopped timer is not  *)
(* linked and the handler will not link it again (core_timer.c:152,294).   *)
(***************************************************************************)
StopIsFinal ==
  \A t \in stopped :
    /\ t \notin Linked
    /\ ~(pc = "relink" /\ cur = t)
    /\ ~(pc = "call" /\ cur = t /\ add[t] # 0)

(***************************************************************************)
(* The module implements the promise: a linked timer is a request, and the *)
(* callback is called once for it, not never, and not early unless a       *)
(* Timer_Start or Timer_Stop moved NextTick while the handler was under    *)
(* way: Timer_CheckTo then compares with a deadline still to come and the  *)
(* first timer is served at once (core_timer.c:85, 105-117, 119-318).      *)
(***************************************************************************)
Promise == INSTANCE TimerPromise WITH
  Instants <- Nat,
  Off      <- None,
  pending  <- [t \in Timers |-> IF t \in Linked THEN target[t] ELSE None],
  serving  <- IF pc = "call" THEN cur ELSE None,
  moved    <- rearmed

ImplementsTimers == Promise!PromiseSpec
=============================================================================

------------------------- MODULE CoreHwTimer_proofs -------------------------
(***************************************************************************)
(* One hardware timer of CoreHwTimer for every queue, every number of      *)
(* repeats and every number of pulses.                                     *)
(*                                                                         *)
(* The PWM: the half periods the handler has served and the level of the   *)
(* output always make up the pulses given.  The queue: its operations keep *)
(* their shape while the interpreter overwrites them, so that it never     *)
(* runs past the END and an armed pin always finds a capture; and the pin  *)
(* changes and waits counted are those of the loops that are over and of   *)
(* the part of the loop that was interpreted.                              *)
(***************************************************************************)
EXTENDS CoreHwTimer, FiniteSetTheorems, TLAPS

Typed ==
  /\ Operation \in [Slots -> Ops] /\ PinExists \in [Slots -> BOOLEAN]
  /\ TotalCount \in Nat /\ CmdQueuePos \in 0..MaxCmds /\ TotalRepeat \in Nat
  /\ CurCount \in Nat /\ RepeatCnt \in Nat
  /\ tim \in {"off", "on", "masked"}
  /\ handler \in {"none", "queue", "end", "pwm"}
  /\ ctx \in {"none", "task", "tim", "exti"}
  /\ pc \in {"none", "idle", "start", "run"}
  /\ IsQueueRunning \in BOOLEAN /\ ContinueDelay \in BOOLEAN /\ high \in BOOLEAN
  /\ line \in BOOLEAN /\ pend \in BOOLEAN /\ exti \in BOOLEAN /\ half \in Halves
  /\ told \in BOOLEAN /\ disturbed \in BOOLEAN
  /\ ios \in Nat /\ waits \in Nat

(* Who runs, and what the interrupt line may bring.                        *)
Control ==
  /\ saved = <<>> \/ \E h \in Halves : saved = <<h>>
  /\ half # "no" \/ saved # <<>> => ctx # "none" /\ IsQueueRunning
  /\ ctx = "task" => IsQueueRunning
  /\ IsQueueRunning => pc # "none" /\ handler \in {"queue", "end"} /\ dones = 0
  /\ line /\ handler # "pwm" => IsQueueRunning
  /\ line /\ handler = "pwm" => pc = "none" /\ tim # "off"
  /\ tim = "on" /\ ~IsQueueRunning => handler = "pwm" /\ line
  /\ pc = "run" => IsQueueRunning /\ ~line
  /\ pc # "none" => TotalCount = MaxCmds
  /\ pend /\ ~IsQueueRunning => handler = "pwm" /\ line /\ tim = "on"
  /\ dones \in 0..1

-----------------------------------------------------------------------------
LEMMA Numbers ==
  /\ MaxCmds \in Nat /\ MaxCmds > 0
  /\ \A p \in Programs : p \in Seq(Ops) /\ Len(p) <= MaxCmds
  /\ \A n \in Repeats \union Pulses : n \in Nat
BY HwTimerAssumption DEF HwTimerAssumption

LEMMA MaxIsNat == MaxCmds \in Nat
BY HwTimerAssumption DEF HwTimerAssumption

LEMMA MinOfTwo ==
  ASSUME NEW a \in Int, NEW b \in Int
  PROVE  Min({a, b}) = IF a <= b THEN a ELSE b
<1> DEFINE m == IF a <= b THEN a ELSE b
<1>1. m \in {a, b} /\ \A y \in {a, b} : m <= y
  OBVIOUS
<1>2. \A x \in {a, b} : (\A y \in {a, b} : x <= y) => x = m
  OBVIOUS
<1> QED
  BY <1>1, <1>2 DEF Min

LEMMA RepeatedIsNat == Typed => Repeated \in Nat
<1> SUFFICES ASSUME Typed PROVE Repeated \in Nat
  OBVIOUS
<1>1. RepeatCnt \in Nat /\ TotalRepeat \in Nat
  BY DEF Typed
<1>2. Min({RepeatCnt, TotalRepeat}) \in Nat
  BY <1>1, MinOfTwo
<1> QED
  BY <1>1, <1>2 DEF Repeated

(* The two ends of the PWM's handler.                                      *)
LEMMA PwmIrqEnds ==
  ASSUME PwmIrq
  PROVE  \/ /\ ContinueDelay /\ CurCount' = CurCount + 1 /\ CurCount + 1 >= TotalCount
            /\ tim' = "off" /\ line' = FALSE /\ TotalCount' = 0
            /\ IsQueueRunning' = FALSE /\ ContinueDelay' = ContinueDelay
         \/ /\ CurCount' = (IF ContinueDelay THEN CurCount + 1 ELSE CurCount)
            /\ ContinueDelay => ~(CurCount + 1 >= TotalCount)
            /\ ContinueDelay' = ~ContinueDelay
            /\ UNCHANGED <<tim, line, TotalCount, IsQueueRunning>>
<1>1. CASE ContinueDelay /\ AllPulses(CurCount + 1)
  BY <1>1 DEF PwmIrq, AllPulses
<1>2. CASE ~(ContinueDelay /\ AllPulses(CurCount + 1))
  BY <1>2 DEF PwmIrq, AllPulses
<1> QED
  BY <1>1, <1>2

(* Back to an interpreter that was interrupted, or to the task.            *)
LEMMA LeaveGoesBack ==
  ASSUME Control, Leave
  PROVE  /\ ctx' \in {"none", "task", "exti"} /\ half' \in Halves /\ saved' = <<>>
         /\ ctx' # "none" => saved # <<>>
         /\ half' # "no" => ctx' # "none"
<1>1. CASE saved = <<>>
  BY <1>1 DEF Leave, Halves
<1>2. CASE saved # <<>>
  <2>1. saved[1] \in Halves
    <3>1. PICK h \in Halves : saved = <<h>>
      BY <1>2 DEF Control
    <3> QED
      BY <3>1
  <2> QED
    BY <1>2, <2>1 DEF Leave
<1> QED
  BY <1>1, <1>2

LEMMA TypedKeeps == Typed /\ Control /\ [Next]_vars => Typed'
<1> SUFFICES ASSUME Typed, Control, [Next]_vars PROVE Typed'
  OBVIOUS
<1> USE DEF cmds, queue, run, chip, who, user, trace, pwm, bounds
<1>1. CASE HWTimer_Stop
  BY <1>1 DEF HWTimer_Stop, Stopped, Typed
<1>2. CASE HWTimer_ClearOperationQueue
  BY <1>2, Numbers DEF HWTimer_ClearOperationQueue, Typed
<1>3. CASE \E r \in Repeats : HWTimer_InitOperationQueue(r)
  BY <1>3, Numbers DEF HWTimer_InitOperationQueue, Typed, Ops
<1>4. CASE \E p \in Programs : AddOperations(p)
  <2>1. PICK p \in Programs : AddOperations(p)
    BY <1>4
  <2>2. p \in Seq(Ops) /\ Len(p) \in Nat /\ Len(p) <= MaxCmds /\ MaxCmds \in Nat
    BY Numbers
  <2>3. TotalCount = MaxCmds
    BY <2>1 DEF AddOperations, Control
  <2>4. CmdQueuePos' = Len(p)
    BY <2>1, <2>2, <2>3, MinOfTwo DEF AddOperations
  <2>5. Operation' \in [Slots -> Ops]
    <3>1. Operation' = [i \in Slots |-> IF i < CmdQueuePos' THEN p[i + 1] ELSE Operation[i]]
      BY <2>1 DEF AddOperations
    <3>2. \A i \in Slots : i < CmdQueuePos' => p[i + 1] \in Ops
      BY <2>2, <2>4 DEF Slots
    <3>3. \A i \in Slots : Operation[i] \in Ops
      BY DEF Typed
    <3> QED
      BY <3>1, <3>2, <3>3
  <2>6. PinExists' \in [Slots -> BOOLEAN]
    <3>1. PinExists' = [i \in Slots |-> IF i < CmdQueuePos' THEN p[i + 1] # "CAP"
                                                            ELSE PinExists[i]]
      BY <2>1 DEF AddOperations
    <3>2. \A i \in Slots : PinExists[i] \in BOOLEAN
      BY DEF Typed
    <3> QED
      BY <3>1, <3>2
  <2> QED
    <3>1. CmdQueuePos' \in 0..MaxCmds
      BY <2>2, <2>4
    <3>2. UNCHANGED <<TotalCount, TotalRepeat, run, chip, exti, who, pc, trace, pwm>>
      BY <2>1, Zenon DEF AddOperations
    <3>3. disturbed' \in BOOLEAN
      <4>1. disturbed' = FALSE
        BY <2>1, Zenon DEF AddOperations
      <4> QED
        BY <4>1
    <3>4. /\ UNCHANGED <<TotalCount, TotalRepeat, CurCount, RepeatCnt, tim, handler, ctx,
                         pc, ios, waits>>
          /\ UNCHANGED <<IsQueueRunning, ContinueDelay, high, line, pend, exti, half, told>>
      BY <3>2
    <3> QED
      BY <2>5, <2>6, <3>1, <3>3, <3>4 DEF Typed
<1>5. CASE StartTest
  BY <1>5 DEF StartTest, Typed
<1>6. CASE StartBegin
  BY <1>6 DEF StartBegin, Typed, Ops
<1>7. CASE StartEnd
  BY <1>7 DEF StartEnd, Typed
<1>8. CASE Interpret
  <2> USE DEF Interprets, GoOn
  <2>1. CASE OperationIO
    BY <2>1 DEF OperationIO, Counted, Typed
  <2>2. CASE OperationCB
    <3>1. Operation' \in [Slots -> Ops] /\ told' \in BOOLEAN
      BY <2>2 DEF OperationCB, Typed, Ops
    <3> QED
      BY <2>2, <3>1 DEF OperationCB, Typed
  <2>3. CASE OperationDelay
    BY LeaveGoesBack, <2>3 DEF OperationDelay, Typed
  <2>4. CASE OperationRepeat
    BY LeaveGoesBack, <2>4 DEF OperationRepeat, Typed
  <2>5. CASE OperationCaptureSet
    BY <2>5 DEF OperationCaptureSet, Typed, Halves
  <2>6. CASE OperationCapture
    <3>1. Operation' \in [Slots -> Ops] /\ PinExists' \in [Slots -> BOOLEAN]
      BY <2>6 DEF OperationCapture, Typed, Ops
    <3> QED
      BY <2>6, <3>1 DEF OperationCapture, Typed, Halves
  <2>7. CASE OperationCaptureHalf
    <3>1. half' \in Halves /\ ctx' \in {"none", "task", "tim", "exti"}
      BY LeaveGoesBack, <2>7 DEF OperationCaptureHalf, Typed, Halves
    <3> QED
      BY <2>7, <3>1 DEF OperationCaptureHalf, Typed
  <2>11. CASE OperationCaptureSetHalf
    BY LeaveGoesBack, <2>11 DEF OperationCaptureSetHalf, Typed
  <2>12. CASE OperationCaptureCB
    <3>1. Operation' \in [Slots -> Ops]
      BY <2>12 DEF OperationCaptureCB, Typed, Ops
    <3> QED
      BY LeaveGoesBack, <2>12, <3>1 DEF OperationCaptureCB, Typed
  <2>8. CASE OperationCaptureEnd
    BY <2>8 DEF OperationCaptureEnd, Typed
  <2>9. CASE OperationEnd
    BY LeaveGoesBack, <2>9, RepeatedIsNat DEF OperationEnd, Typed
  <2>10. CASE LoopOver
    BY LeaveGoesBack, <2>10 DEF LoopOver, Typed
  <2> QED
    BY <1>8, <2>1, <2>2, <2>3, <2>4, <2>5, <2>6, <2>7, <2>8, <2>9, <2>10, <2>11, <2>12
       DEF Interpret
<1>9. CASE Expire
  <2>1. high' \in BOOLEAN /\ pend' \in BOOLEAN
    BY <1>9 DEF Expire, Typed
  <2> QED
    BY <1>9, <2>1 DEF Expire, Typed
<1>10. CASE TimerIrq
  <2>1. waits' \in Nat
    <3>1. waits' = waits \/ waits' = waits + 1
      BY <1>10 DEF TimerIrq, Counted
    <3> QED
      BY <3>1 DEF Typed
  <2>2. disturbed' \in BOOLEAN
    <3>1. disturbed' = (disturbed \/ ctx = "exti")
      BY <1>10 DEF TimerIrq
    <3> QED
      BY <3>1
  <2> QED
    BY <1>10, <2>1, <2>2 DEF TimerIrq, Typed, Halves
<1>11. CASE EndIrq
  BY <1>11 DEF EndIrq, Stopped, Typed
<1>12. CASE PinIrq
  <2>1. disturbed' = (disturbed \/ ctx = "task")
    BY <1>12 DEF PinIrq
  <2>2. disturbed' \in BOOLEAN
    BY <2>1
  <2> QED
    BY <1>12, <2>2 DEF PinIrq, Typed, Halves
<1>13. CASE \E n \in Pulses : HWTimer_SetPWM(n)
  <2>1. PICK n \in Pulses : HWTimer_SetPWM(n)
    BY <1>13
  <2>2. n \in Nat
    BY Numbers
  <2>3. line' \in BOOLEAN /\ handler' \in {"none", "queue", "end", "pwm"}
        /\ tim' \in {"off", "on", "masked"}
    BY <2>1 DEF HWTimer_SetPWM, Typed
  <2> QED
    BY <2>1, <2>2, <2>3 DEF HWTimer_SetPWM, Typed
<1>14. CASE PwmIrq
  <2>1. /\ ContinueDelay' \in BOOLEAN /\ line' \in BOOLEAN /\ pend' \in BOOLEAN
        /\ IsQueueRunning' \in BOOLEAN /\ tim' \in {"off", "on", "masked"}
        /\ TotalCount' \in Nat /\ CurCount' \in Nat
    <3>1. pend' = FALSE
      BY <1>14 DEF PwmIrq
    <3>2. ContinueDelay' \in BOOLEAN
      <4>1. ContinueDelay' = ContinueDelay \/ ContinueDelay' = ~ContinueDelay
        BY <1>14, PwmIrqEnds
      <4>2. ContinueDelay \in BOOLEAN
        BY DEF Typed
      <4> QED
        BY <4>1, <4>2
    <3>3. line' \in BOOLEAN /\ IsQueueRunning' \in BOOLEAN
      <4>1. /\ line' = line \/ line' = FALSE
            /\ IsQueueRunning' = IsQueueRunning \/ IsQueueRunning' = FALSE
        BY <1>14, PwmIrqEnds
      <4>2. line \in BOOLEAN /\ IsQueueRunning \in BOOLEAN
        BY DEF Typed
      <4> QED
        BY <4>1, <4>2
    <3>4. tim' \in {"off", "on", "masked"} /\ TotalCount' \in Nat
      <4>1. /\ tim' = tim \/ tim' = "off"
            /\ TotalCount' = TotalCount \/ TotalCount' = 0
        BY <1>14, PwmIrqEnds
      <4>2. tim \in {"off", "on", "masked"} /\ TotalCount \in Nat
        BY DEF Typed
      <4> QED
        BY <4>1, <4>2
    <3>5. CurCount' \in Nat
      <4>1. CurCount' = CurCount \/ CurCount' = CurCount + 1
        BY <1>14, PwmIrqEnds
      <4> QED
        BY <4>1 DEF Typed
    <3> QED
      BY <3>1, <3>2, <3>3, <3>4, <3>5
  <2> QED
    BY <1>14, <2>1 DEF PwmIrq, Typed
<1>15. CASE UNCHANGED vars
  BY <1>15 DEF vars, Typed
<1> QED
  BY <1>1, <1>2, <1>3, <1>4, <1>5, <1>6, <1>7, <1>8, <1>9, <1>10, <1>11, <1>12,
     <1>13, <1>14, <1>15 DEF Next

LEMMA ControlKeeps == Typed /\ Control /\ [Next]_vars => Control'
<1> SUFFICES ASSUME Typed, Control, [Next]_vars PROVE Control'
  OBVIOUS
<1> USE DEF cmds, queue, run, chip, who, user, trace, pwm, bounds
<1>1. CASE HWTimer_Stop
  BY <1>1 DEF HWTimer_Stop, Stopped, Control
<1>2. CASE HWTimer_ClearOperationQueue
  BY <1>2 DEF HWTimer_ClearOperationQueue, Control
<1>3. CASE \E r \in Repeats : HWTimer_InitOperationQueue(r)
  BY <1>3, Numbers DEF HWTimer_InitOperationQueue, Control
<1>4. CASE \E p \in Programs : AddOperations(p)
  BY <1>4 DEF AddOperations, Control
<1>5. CASE StartTest
  BY <1>5 DEF StartTest, Control
<1>6. CASE StartBegin
  BY <1>6 DEF StartBegin, Control
<1>7. CASE StartEnd
  BY <1>7 DEF StartEnd, Control
<1>8. CASE Interpret
  <2> USE DEF Interprets, GoOn
  <2>1. CASE OperationIO
    BY <2>1 DEF OperationIO, Control
  <2>2. CASE OperationCB
    BY <2>2 DEF OperationCB, Control
  <2>3. CASE OperationDelay
    BY LeaveGoesBack, <2>3 DEF OperationDelay, Control
  <2>4. CASE OperationRepeat
    BY LeaveGoesBack, <2>4 DEF OperationRepeat, Control
  <2>5. CASE OperationCaptureSet
    BY <2>5 DEF OperationCaptureSet, Control
  <2>6. CASE OperationCapture
    BY <2>6 DEF OperationCapture, Control
  <2>7. CASE OperationCaptureHalf
    BY LeaveGoesBack, <2>7 DEF OperationCaptureHalf, Control
  <2>11. CASE OperationCaptureSetHalf
    BY LeaveGoesBack, <2>11 DEF OperationCaptureSetHalf, Control
  <2>12. CASE OperationCaptureCB
    BY LeaveGoesBack, <2>12 DEF OperationCaptureCB, Control
  <2>8. CASE OperationCaptureEnd
    BY <2>8 DEF OperationCaptureEnd, Control
  <2>9. CASE OperationEnd
    BY LeaveGoesBack, <2>9 DEF OperationEnd, Control
  <2>10. CASE LoopOver
    BY LeaveGoesBack, <2>10 DEF LoopOver, Control
  <2> QED
    BY <1>8, <2>1, <2>2, <2>3, <2>4, <2>5, <2>6, <2>7, <2>8, <2>9, <2>10, <2>11, <2>12
       DEF Interpret
<1>9. CASE Expire
  BY <1>9 DEF Expire, Control, Typed
<1>10. CASE TimerIrq
  BY <1>10 DEF TimerIrq, Control, Typed
<1>11. CASE EndIrq
  BY <1>11 DEF EndIrq, Stopped, Control
<1>12. CASE PinIrq
  <2>1. saved' = <<>> \/ (ctx = "task" /\ saved' = <<half>> /\ half \in Halves)
    BY <1>12 DEF PinIrq, Typed
  <2>2. saved' # <<>> => IsQueueRunning
    BY <1>12 DEF PinIrq, Control
  <2> QED
    BY <1>12, <2>1, <2>2 DEF PinIrq, Control
<1>13. CASE \E n \in Pulses : HWTimer_SetPWM(n)
  BY <1>13, Numbers DEF HWTimer_SetPWM, Control
<1>14. CASE PwmIrq
  BY <1>14 DEF PwmIrq, Control
<1>15. CASE UNCHANGED vars
  BY <1>15 DEF vars, Control
<1> QED
  BY <1>1, <1>2, <1>3, <1>4, <1>5, <1>6, <1>7, <1>8, <1>9, <1>10, <1>11, <1>12,
     <1>13, <1>14, <1>15 DEF Next

-----------------------------------------------------------------------------
(* The pulses of a PWM.                                                    *)

(* It runs: the handler has counted the pulses of every interrupt it took, *)
(* and ContinueDelay says which half of the period the output is in; ...   *)
Active ==
  /\ tim = "on" /\ line /\ handler = "pwm" /\ pc = "none"
  /\ TotalCount = asked /\ ~IsQueueRunning
  /\ CurCount \in Nat /\ CurCount < asked
  /\ high = (IF pend THEN ~ContinueDelay ELSE ContinueDelay)
  /\ pulses = CurCount + (IF pend /\ ContinueDelay THEN 1 ELSE 0)

(* ... or the last interrupt has stopped it.                               *)
Finished == tim = "off" /\ ~line /\ ~pend /\ ~IsQueueRunning /\ pulses = asked

Pwm == asked \in Nat /\ pulses \in Nat /\ (asked > 0 => Active \/ Finished)

LEMMA PwmKeeps == Typed /\ Control /\ Pwm /\ [Next]_vars => Pwm'
<1> SUFFICES ASSUME Typed, Control, Pwm, [Next]_vars PROVE Pwm'
  OBVIOUS
<1> USE DEF cmds, queue, run, chip, who, user, trace, pwm, bounds
<1>0. asked > 0 => ~IsQueueRunning
  BY DEF Pwm, Active, Finished
<1>1. CASE HWTimer_Stop
  BY <1>1 DEF HWTimer_Stop, Pwm
<1>2. CASE HWTimer_ClearOperationQueue
  BY <1>2 DEF HWTimer_ClearOperationQueue, Pwm, Active, Finished
<1>3. CASE \E r \in Repeats : HWTimer_InitOperationQueue(r)
  BY <1>3 DEF HWTimer_InitOperationQueue, Pwm, Active, Finished
<1>4. CASE \E p \in Programs : AddOperations(p)
  BY <1>4 DEF AddOperations, Pwm, Active, Finished
<1>5. CASE StartTest
  BY <1>5 DEF StartTest, Pwm, Active, Finished
<1>6. CASE StartBegin
  BY <1>6 DEF StartBegin, Pwm
<1>7. CASE StartEnd
  BY <1>0, <1>7 DEF StartEnd, Control, Pwm
<1>8. CASE Interpret
  <2>1. UNCHANGED <<asked, pulses>>
    BY <1>8 DEF Interpret, OperationIO, OperationCB, OperationDelay, OperationRepeat,
       OperationCaptureSet, OperationCaptureSetHalf, OperationCapture,
       OperationCaptureHalf, OperationCaptureCB, OperationCaptureEnd, OperationEnd,
       LoopOver
  <2>2. CASE LoopOver
    BY <2>1, <2>2 DEF LoopOver, Pwm, Active, Finished
  <2>3. CASE ~LoopOver
    <3>1. IsQueueRunning
      BY <1>8, <2>3 DEF Interpret, OperationIO, OperationCB, OperationDelay,
         OperationRepeat, OperationCaptureSet, OperationCaptureSetHalf, OperationCapture,
         OperationCaptureHalf, OperationCaptureCB, OperationCaptureEnd, OperationEnd, Interprets, Control
    <3> QED
      BY <1>0, <2>1, <3>1 DEF Pwm
  <2> QED
    BY <2>2, <2>3
<1>9. CASE Expire
  BY <1>9 DEF Expire, Pwm, Active, Finished, Typed
<1>10. CASE TimerIrq
  BY <1>10 DEF TimerIrq, Pwm, Active, Finished
<1>11. CASE EndIrq
  BY <1>0, <1>11 DEF EndIrq, Pwm, Control
<1>12. CASE PinIrq
  BY <1>12 DEF PinIrq, Pwm, Active, Finished
<1>13. CASE \E n \in Pulses : HWTimer_SetPWM(n)
  <2>1. PICK n \in Pulses : HWTimer_SetPWM(n)
    BY <1>13
  <2>2. n \in Nat /\ ~pend
    BY <2>1, Numbers DEF HWTimer_SetPWM, Control
  <2> QED
    <3>1. CASE n > 0
      <4>1. /\ TotalCount' = n /\ CurCount' = 0 /\ ContinueDelay' = FALSE
            /\ pc' = "none" /\ handler' = "pwm" /\ line' = TRUE /\ tim' = "on"
            /\ high' = FALSE /\ asked' = n /\ pulses' = 0 /\ pend' = FALSE
            /\ IsQueueRunning' = FALSE
        BY <2>1, <2>2, <3>1 DEF HWTimer_SetPWM, Typed
      <4>2. /\ high' = (IF pend' THEN ~ContinueDelay' ELSE ContinueDelay')
            /\ (IF pend' /\ ContinueDelay' THEN 1 ELSE 0) = 0
        BY <4>1, Zenon
      <4>3. Active'
        BY <2>2, <3>1, <4>1, <4>2 DEF Active
      <4> QED
        BY <2>2, <4>1, <4>3 DEF Pwm
    <3>2. CASE n = 0
      BY <2>1, <3>2 DEF HWTimer_SetPWM, Pwm
    <3> QED
      BY <2>2, <3>1, <3>2
<1>14. CASE PwmIrq
  <2>1. /\ line /\ pend /\ pend' = FALSE
        /\ UNCHANGED <<handler, pc, high, asked, pulses>>
    BY <1>14 DEF PwmIrq
  <2>2. asked > 0 => Active
    BY <2>1 DEF Pwm, Finished
  <2>3. CASE asked = 0
    BY <2>1, <2>3 DEF Pwm
  <2>4. CASE asked > 0 /\ tim' = "off"
    BY <1>14, <2>1, <2>2, <2>4, PwmIrqEnds DEF Pwm, Active, Finished, Typed
  <2>5. CASE asked > 0 /\ tim' # "off"
    <3>1. Active /\ pend = TRUE /\ high = ~ContinueDelay /\ CurCount \in Nat
          /\ pulses = CurCount + (IF ContinueDelay THEN 1 ELSE 0)
      BY <2>1, <2>2, <2>5 DEF Active, Typed
    <3>2. /\ CurCount' = (IF ContinueDelay THEN CurCount + 1 ELSE CurCount)
          /\ ContinueDelay => ~(CurCount + 1 >= TotalCount)
          /\ ContinueDelay' = ~ContinueDelay
          /\ UNCHANGED <<tim, line, TotalCount, IsQueueRunning>>
      BY <1>14, <2>5, PwmIrqEnds
    <3>3. CurCount' \in Nat /\ CurCount' < asked' /\ pulses' = CurCount'
      BY <2>1, <2>5, <3>1, <3>2 DEF Active, Pwm
    <3>4. high' = ContinueDelay' /\ pend' = FALSE
      BY <2>1, <3>1, <3>2
    <3> QED
      BY <2>1, <3>1, <3>2, <3>3, <3>4 DEF Pwm, Active
  <2> QED
    BY <2>3, <2>4, <2>5 DEF Pwm
<1>15. CASE UNCHANGED vars
  BY <1>15 DEF vars, Pwm, Active, Finished
<1> QED
  BY <1>1, <1>2, <1>3, <1>4, <1>5, <1>6, <1>7, <1>8, <1>9, <1>10, <1>11, <1>12,
     <1>13, <1>14, <1>15 DEF Next

LEMMA InitBase == Init => Typed /\ Control /\ Pwm
<1> SUFFICES ASSUME Init PROVE Typed /\ Control /\ Pwm
  OBVIOUS
<1>1. Typed
  <2>1. Operation \in [Slots -> Ops] /\ PinExists \in [Slots -> BOOLEAN]
    BY DEF Init, Ops
  <2>2. 0 \in 0..MaxCmds
    BY Numbers
  <2> QED
    BY <2>1, <2>2 DEF Init, Typed, Halves
<1>2. Control
  BY DEF Init, Control
<1>3. Pwm
  BY DEF Init, Pwm
<1> QED
  BY <1>1, <1>2, <1>3

(* The PWM gives as many pulses as were asked for, never one more.         *)
THEOREM PulsesAsAsked == Spec => []PulsesExact
<1>1. Typed /\ Control /\ Pwm => PulsesExact
  BY DEF Pwm, Active, Finished, PulsesExact, Typed
<1> QED
  BY <1>1, InitBase, TypedKeeps, ControlKeeps, PwmKeeps, PTL DEF Spec

-----------------------------------------------------------------------------
(* The queue.                                                              *)

Alone == saved = <<>>

After(i) == IF i + 1 < CmdQueuePos THEN Operation[i + 1] ELSE "END"

(* So it stays while the interpreter overwrites operations; a capture that *)
(* was overwritten by an end does not disarm, but has another one behind.  *)
Shape ==
  \A i \in 0..(CmdQueuePos - 1) :
    /\ Operation[i] = "SET" => After(i) = "CAP"
    /\ Operation[i] = "CAP" => After(i) \in {"CAP", "CAPEND"}
    /\ Operation[i] = "CAPEND" /\ ~PinExists[i] => After(i) \in {"CAP", "CAPEND"}

Place ==
  /\ IsQueueRunning => CurCount \in 0..CmdQueuePos /\ Operation[CmdQueuePos] = "END"
  /\ half # "no" => Operation[CurCount] = half

Queue == Alone /\ Shape /\ Place

LEMMA LeaveEnds ==
  ASSUME Alone, Leave
  PROVE  ctx' = "none" /\ half' = "no" /\ saved' = <<>>
BY DEF Alone, Leave

(* An operation that is not the last one has one behind it.                *)
LEMMA Inside ==
  ASSUME Typed, Control, Place, IsQueueRunning, Operation[CurCount] # "END"
  PROVE  /\ CurCount \in Nat /\ CmdQueuePos \in Nat /\ CurCount < CmdQueuePos
         /\ CurCount \in Slots /\ CurCount + 1 \in Slots /\ CmdQueuePos \in Slots
         /\ CurCount \in 0..(CmdQueuePos - 1)
<1>1. CurCount \in 0..CmdQueuePos /\ CurCount # CmdQueuePos
  BY DEF Place
<1>2. CmdQueuePos \in 0..MaxCmds /\ MaxCmds \in Nat
  BY Numbers DEF Typed
<1> QED
  BY <1>1, <1>2 DEF Slots

LEMMA HalfInside ==
  ASSUME Typed, Control, Place, half # "no"
  PROVE  /\ IsQueueRunning /\ Operation[CurCount] = half /\ half \in {"SET", "CAP"}
         /\ CurCount \in Nat /\ CmdQueuePos \in Nat /\ CurCount < CmdQueuePos
         /\ CurCount \in Slots /\ CurCount + 1 \in Slots
<1>1. IsQueueRunning /\ Operation[CurCount] = half /\ half \in {"SET", "CAP"}
  BY DEF Control, Place, Typed, Halves
<1> QED
  BY <1>1, Inside

LEMMA SameQueue ==
  ASSUME Queue,
         UNCHANGED <<Operation, PinExists, CmdQueuePos, CurCount, IsQueueRunning,
                     half, saved>>
  PROVE  Queue'
<1>1. Alone'
  BY DEF Queue, Alone
<1>2. Shape'
  BY DEF Queue, Shape, After
<1>3. Place'
  BY DEF Queue, Place
<1> QED
  BY <1>1, <1>2, <1>3 DEF Queue

(* One operation on; the operations are left alone.                        *)
LEMMA QueueGoesOn ==
  ASSUME Typed, Control, Queue, IsQueueRunning, Operation[CurCount] # "END",
         UNCHANGED <<Operation, PinExists, CmdQueuePos, IsQueueRunning>>,
         CurCount' = CurCount + 1, half' = "no", saved' = <<>>
  PROVE  Queue'
<1>1. Alone'
  BY DEF Queue, Alone
<1>2. Shape'
  BY DEF Queue, Shape, After
<1>3. Place'
  BY Inside DEF Queue, Place
<1> QED
  BY <1>1, <1>2, <1>3 DEF Queue

LEMMA AddKeepsQueue ==
  ASSUME CapturesClosed, Typed, Control,
         NEW p \in Programs, AddOperations(p)
  PROVE  Queue'
<1>1. p \in Seq(Ops) /\ Len(p) \in Nat /\ Len(p) <= MaxCmds /\ MaxCmds \in Nat
  BY Numbers
<1>2. TotalCount = MaxCmds /\ ~IsQueueRunning /\ half = "no" /\ saved = <<>>
  BY DEF AddOperations, Control
<1>3. CmdQueuePos' = Len(p)
  BY <1>1, <1>2, MinOfTwo DEF AddOperations
<1>4. /\ Operation' = [i \in Slots |-> IF i < CmdQueuePos' THEN p[i + 1] ELSE Operation[i]]
      /\ PinExists' = [i \in Slots |-> IF i < CmdQueuePos' THEN p[i + 1] # "CAP"
                                                           ELSE PinExists[i]]
      /\ UNCHANGED <<IsQueueRunning, half, saved, ctx, exti, CurCount>>
  BY DEF AddOperations, run, who
<1>5. \A i \in Slots : /\ i < Len(p) => Operation'[i] = p[i + 1]
                                       /\ PinExists'[i] = (p[i + 1] # "CAP")
                       /\ ~(i < Len(p)) => Operation'[i] = Operation[i]
  BY <1>3, <1>4
<1>6. Alone'
  BY <1>2, <1>4 DEF Alone
<1>7. Shape'
  <2> SUFFICES ASSUME NEW i \in 0..(Len(p) - 1)
               PROVE  /\ Operation'[i] = "SET" => After(i)' = "CAP"
                      /\ Operation'[i] = "CAP" => After(i)' \in {"CAP", "CAPEND"}
                      /\ Operation'[i] = "CAPEND" => PinExists'[i]
    BY <1>3, Zenon DEF Shape
  <2>1. i \in Slots /\ i < Len(p) /\ i + 1 \in 1..Len(p)
    BY <1>1 DEF Slots
  <2>2. Operation'[i] = p[i + 1] /\ PinExists'[i] = (p[i + 1] # "CAP")
    BY <1>5, <2>1
  <2>3. ASSUME i + 1 < Len(p) PROVE After(i)' = p[(i + 1) + 1]
    <3>1. i + 1 \in Slots
      BY <1>1, <2>1, <2>3 DEF Slots
    <3> QED
      BY <1>3, <1>5, <2>3, <3>1 DEF After
  <2>4. /\ p[i + 1] = "SET" => i + 1 < Len(p) /\ p[(i + 1) + 1] = "CAP"
        /\ p[i + 1] = "CAP" => i + 1 < Len(p) /\ p[(i + 1) + 1] \in {"CAP", "CAPEND"}
    BY <2>1 DEF CapturesClosed
  <2> QED
    BY <2>2, <2>3, <2>4
<1>8. Place'
  BY <1>2, <1>4 DEF Place
<1> QED
  BY <1>6, <1>7, <1>8 DEF Queue

(* A call-back that ends the queue: nothing before it relied on what was   *)
(* there.                                                                  *)
LEMMA CBKeepsQueue ==
  ASSUME Typed, Control, Queue, OperationCB PROVE Queue'
<1>1. /\ IsQueueRunning /\ Operation[CurCount] = "CB" /\ ctx # "none" /\ half = "no"
      /\ CurCount' = CurCount + 1
      /\ UNCHANGED <<PinExists, CmdQueuePos, IsQueueRunning, ctx, half, saved, exti>>
  BY DEF OperationCB, Interprets, GoOn, queue, who
<1>2. CASE Operation' = Operation
  BY <1>1, <1>2, QueueGoesOn DEF Queue, Alone, Typed
<1>3. CASE Operation' = [Operation EXCEPT ![CurCount + 1] = "END"]
  <2>1. /\ CurCount \in Nat /\ CmdQueuePos \in Nat /\ CurCount < CmdQueuePos
        /\ CmdQueuePos \in Slots
    BY <1>1, Inside DEF Queue
  <2>2. \A i \in Slots : Operation'[i] = IF i = CurCount + 1 THEN "END" ELSE Operation[i]
    BY <1>3 DEF Typed
  <2>3. Alone'
    BY <1>1, <2>2 DEF Queue, Alone
  <2>4. Shape'
    <3> SUFFICES ASSUME NEW i \in 0..(CmdQueuePos - 1)
                 PROVE  /\ Operation'[i] = "SET" => After(i)' = "CAP"
                        /\ Operation'[i] = "CAP" => After(i)' \in {"CAP", "CAPEND"}
                        /\ Operation'[i] = "CAPEND" /\ ~PinExists[i] =>
                             After(i)' \in {"CAP", "CAPEND"}
      BY <1>1, Zenon DEF Shape
    <3>1. i \in Slots /\ i \in Nat /\ (i + 1 < CmdQueuePos => i + 1 \in Slots)
      BY <2>1, MaxIsNat DEF Slots
    <3>2. CASE i = CurCount \/ i = CurCount + 1
      BY <1>1, <2>1, <2>2, <3>1, <3>2
    <3>3. CASE i # CurCount /\ i # CurCount + 1
      <4>1. Operation'[i] = Operation[i] /\ After(i)' = After(i)
        BY <1>1, <2>1, <2>2, <3>1, <3>3 DEF After
      <4> QED
        BY <4>1 DEF Queue, Shape
    <3> QED
      BY <3>2, <3>3
  <2>5. Place'
    BY <1>1, <2>1, <2>2 DEF Queue, Place
  <2> QED
    BY <2>3, <2>4, <2>5 DEF Queue
<1> QED
  BY <1>2, <1>3 DEF OperationCB

(* A capture: the next operation is one of the capture's too.              *)
LEMMA CaptureFacts ==
  ASSUME Typed, Control, Queue, OperationCapture
  PROVE  /\ IsQueueRunning /\ Operation[CurCount] = "CAP" /\ ctx # "none"
         /\ CurCount \in Nat /\ CmdQueuePos \in Nat /\ CurCount + 1 < CmdQueuePos
         /\ CmdQueuePos \in Slots /\ CurCount + 1 \in Slots
         /\ Operation[CurCount + 1] \in {"CAP", "CAPEND"}
         /\ \A i \in Slots : i # CurCount + 1 => Operation'[i] = Operation[i]
         /\ Operation'[CurCount + 1] \in {Operation[CurCount + 1], "CAPEND"}
         /\ \A i \in Slots : i # CurCount => PinExists'[i] = PinExists[i]
         /\ half' = "CAP"
         /\ UNCHANGED <<CmdQueuePos, CurCount, IsQueueRunning, ctx, saved, exti>>
<1>1. /\ IsQueueRunning /\ Operation[CurCount] = "CAP" /\ ctx # "none" /\ half' = "CAP"
      /\ UNCHANGED <<CmdQueuePos, CurCount, IsQueueRunning, ctx, saved, exti>>
  BY DEF OperationCapture, Interprets, queue, run
<1>2. /\ CurCount \in Nat /\ CmdQueuePos \in Nat /\ CurCount < CmdQueuePos
      /\ CmdQueuePos \in Slots /\ CurCount + 1 \in Slots /\ CurCount \in Slots
      /\ CurCount \in 0..(CmdQueuePos - 1)
  BY <1>1, Inside DEF Queue
<1>3. After(CurCount) \in {"CAP", "CAPEND"}
  BY <1>1, <1>2 DEF Queue, Shape
<1>4. CurCount + 1 < CmdQueuePos /\ Operation[CurCount + 1] \in {"CAP", "CAPEND"}
  BY <1>3 DEF After
<1>5. \/ Operation' = [Operation EXCEPT ![CurCount + 1] = "CAPEND"]
      \/ Operation' = Operation
  BY DEF OperationCapture
<1>6. /\ \A i \in Slots : i # CurCount + 1 => Operation'[i] = Operation[i]
      /\ Operation'[CurCount + 1] \in {Operation[CurCount + 1], "CAPEND"}
  BY <1>2, <1>5 DEF Typed
<1>7. \A i \in Slots : i # CurCount => PinExists'[i] = PinExists[i]
  BY DEF OperationCapture, Typed
<1> QED
  BY <1>1, <1>2, <1>4, <1>6, <1>7

LEMMA CaptureKeepsQueue ==
  ASSUME Typed, Control, Queue, OperationCapture PROVE Queue'
<1>1. CurCount \in Slots /\ CurCount # CurCount + 1 /\ CmdQueuePos # CurCount + 1
  <2>1. CurCount \in Nat /\ CmdQueuePos \in Nat /\ CurCount + 1 < CmdQueuePos
        /\ CmdQueuePos \in Slots
    BY CaptureFacts
  <2> QED
    BY <2>1, MaxIsNat DEF Slots
<1>2. Alone'
  BY CaptureFacts DEF Queue, Alone
<1>3. Shape'
  <2> SUFFICES ASSUME NEW i \in 0..(CmdQueuePos - 1)
               PROVE  /\ Operation'[i] = "SET" => After(i)' = "CAP"
                      /\ Operation'[i] = "CAP" => After(i)' \in {"CAP", "CAPEND"}
                      /\ Operation'[i] = "CAPEND" /\ ~PinExists'[i] =>
                           After(i)' \in {"CAP", "CAPEND"}
    BY CaptureFacts, Zenon DEF Shape
  <2>1. i \in Slots /\ i \in Nat /\ (i + 1 < CmdQueuePos => i + 1 \in Slots)
    <3>1. CmdQueuePos \in Slots
      BY CaptureFacts
    <3> QED
      BY <3>1, MaxIsNat DEF Slots
  <2>2. CASE i = CurCount
    <3>1. Operation'[i] = "CAP" /\ After(i)' \in {"CAP", "CAPEND"}
      BY <1>1, <2>2, CaptureFacts DEF After
    <3> QED
      BY <3>1
  <2>3. CASE i = CurCount + 1
    <3>1. Operation'[i] \in {"CAP", "CAPEND"} /\ PinExists'[i] = PinExists[i]
      BY <1>1, <2>3, CaptureFacts
    <3>2. After(i)' = After(i)
      <4>1. i + 1 # CurCount + 1
        BY <2>3, CaptureFacts
      <4> QED
        BY <2>1, <4>1, CaptureFacts DEF After
    <3>3. ~PinExists[i] \/ Operation[i] = "CAP" => After(i) \in {"CAP", "CAPEND"}
      BY <2>3, CaptureFacts DEF Queue, Shape
    <3>4. Operation'[i] = "CAP" => Operation[i] = "CAP"
      BY <2>3, CaptureFacts
    <3> QED
      BY <3>1, <3>2, <3>3, <3>4
  <2>4. CASE i # CurCount /\ i # CurCount + 1
    <3>1. i + 1 # CurCount + 1
      BY <2>1, <2>4, CaptureFacts
    <3>2. /\ Operation'[i] = Operation[i] /\ PinExists'[i] = PinExists[i]
          /\ After(i)' = After(i)
      BY <2>1, <2>4, <3>1, CaptureFacts DEF After
    <3> QED
      BY <3>2 DEF Queue, Shape
  <2> QED
    BY <2>2, <2>3, <2>4
<1>4. Place'
  BY <1>1, CaptureFacts DEF Queue, Place
<1> QED
  BY <1>2, <1>3, <1>4 DEF Queue

LEMMA HalfKeepsQueue ==
  ASSUME Typed, Control, Queue, OperationCaptureHalf \/ OperationCaptureSetHalf
  PROVE  Queue'
<1>1. half # "no" /\ CurCount' = CurCount + 1
      /\ UNCHANGED <<Operation, PinExists, CmdQueuePos, IsQueueRunning>>
  BY DEF OperationCaptureHalf, OperationCaptureSetHalf, cmds, queue
<1>2. half' = "no" /\ saved' = <<>>
  BY LeaveEnds DEF OperationCaptureHalf, OperationCaptureSetHalf, Queue, Alone
<1>3. IsQueueRunning /\ Operation[CurCount] # "END"
  BY <1>1, HalfInside DEF Queue
<1> QED
  BY <1>1, <1>2, <1>3, QueueGoesOn

LEMMA InterpretKeepsQueue ==
  ASSUME Typed, Control, Queue, Interpret, ~disturbed' PROVE Queue'
<1> USE DEF cmds, queue, run, chip, who
<1>1. CASE OperationIO
  BY <1>1, QueueGoesOn DEF OperationIO, Interprets, GoOn, Queue, Alone, Typed
<1>2. CASE OperationCB
  BY <1>2, CBKeepsQueue
<1>3. CASE OperationDelay
  BY <1>3, QueueGoesOn, LeaveEnds DEF OperationDelay, Interprets, Queue, Alone
<1>4. CASE OperationRepeat
  BY <1>4, QueueGoesOn, LeaveEnds DEF OperationRepeat, Interprets, Queue, Alone
<1>5. CASE OperationCaptureSet
  <2>1. /\ UNCHANGED <<Operation, PinExists, CmdQueuePos, CurCount, IsQueueRunning, saved>>
        /\ half' = "SET" /\ Operation[CurCount] = "SET"
    BY <1>5 DEF OperationCaptureSet, Interprets
  <2>2. Alone' /\ Shape' /\ Place'
    BY <2>1 DEF Queue, Alone, Shape, After, Place
  <2> QED
    BY <2>2 DEF Queue
<1>6. CASE OperationCapture
  BY <1>6, CaptureKeepsQueue
<1>7. CASE OperationCaptureHalf \/ OperationCaptureSetHalf
  BY <1>7, HalfKeepsQueue
<1>11. CASE OperationCaptureCB
  BY <1>11 DEF OperationCaptureCB
<1>8. CASE OperationCaptureEnd
  BY <1>8, QueueGoesOn DEF OperationCaptureEnd, Interprets, GoOn, Queue, Alone, Typed
<1>9. CASE OperationEnd
  <2>1. /\ CurCount' = 0 /\ saved' = <<>> /\ half' = "no"
        /\ UNCHANGED <<Operation, PinExists, CmdQueuePos, IsQueueRunning>>
    BY <1>9, LeaveEnds DEF OperationEnd, Interprets, GoOn, Queue, Alone, Typed
  <2>2. Alone'
    BY <2>1 DEF Queue, Alone
  <2>3. Shape'
    BY <2>1 DEF Queue, Shape, After
  <2>4. Place'
    BY <2>1, MaxIsNat DEF Queue, Place, Typed
  <2> QED
    BY <2>2, <2>3, <2>4 DEF Queue
<1>10. CASE LoopOver
  BY <1>10, SameQueue, LeaveEnds DEF LoopOver, Queue, Alone, Typed
<1> QED
  BY <1>1, <1>2, <1>3, <1>4, <1>5, <1>6, <1>7, <1>8, <1>9, <1>10, <1>11 DEF Interpret

LEMMA StartKeepsQueue ==
  ASSUME Typed, Control, Queue, StartBegin PROVE Queue'
<1>1. /\ Operation' = [Operation EXCEPT ![CmdQueuePos] = "END"]
      /\ CurCount' = 0 /\ ctx' = "task" /\ ctx = "none"
      /\ UNCHANGED <<PinExists, CmdQueuePos, exti, half, saved>>
  BY DEF StartBegin, queue
<1>2. CmdQueuePos \in Slots /\ CmdQueuePos \in Nat
  BY MaxIsNat DEF Typed, Slots
<1>3. \A i \in Slots : Operation'[i] = IF i = CmdQueuePos THEN "END" ELSE Operation[i]
  BY <1>1 DEF Typed
<1>4. Alone'
  BY <1>1, <1>3 DEF Queue, Alone
<1>5. Shape'
  <2>1. \A i \in 0..(CmdQueuePos - 1) : i \in Slots /\ i # CmdQueuePos
                                        /\ (i + 1 < CmdQueuePos => i + 1 \in Slots)
    BY <1>2, MaxIsNat DEF Slots
  <2>2. \A i \in 0..(CmdQueuePos - 1) : Operation'[i] = Operation[i] /\ After(i)' = After(i)
    BY <1>1, <1>2, <1>3, <2>1 DEF After
  <2> QED
    BY <1>1, <2>2 DEF Queue, Shape
<1>6. Place'
  BY <1>1, <1>2, <1>3 DEF Place, Control
<1> QED
  BY <1>4, <1>5, <1>6 DEF Queue

(* What was disturbed stays so until the queue is built again.             *)
Built == \E p \in Programs : AddOperations(p)

LEMMA StaysDisturbed ==
  ASSUME [Next]_vars, ~Built, disturbed
  PROVE  disturbed'
<1> USE DEF bounds, Built
<1>1. CASE Interpret
  BY <1>1 DEF Interpret, OperationIO, OperationCB, OperationDelay, OperationRepeat,
     OperationCaptureSet, OperationCaptureSetHalf, OperationCapture,
     OperationCaptureHalf, OperationCaptureCB, OperationCaptureEnd, OperationEnd, LoopOver
<1>2. CASE HWTimer_Stop \/ HWTimer_ClearOperationQueue
           \/ \E r \in Repeats : HWTimer_InitOperationQueue(r)
  BY <1>2 DEF HWTimer_Stop, HWTimer_ClearOperationQueue, HWTimer_InitOperationQueue
<1>3. CASE StartTest \/ StartBegin \/ StartEnd
  BY <1>3 DEF StartTest, StartBegin, StartEnd
<1>4. CASE Expire \/ TimerIrq \/ EndIrq \/ PinIrq
  BY <1>4 DEF Expire, TimerIrq, EndIrq, PinIrq
<1>5. CASE (\E n \in Pulses : HWTimer_SetPWM(n)) \/ PwmIrq
  BY <1>5 DEF HWTimer_SetPWM, PwmIrq
<1>6. CASE UNCHANGED vars
  BY <1>6 DEF vars
<1> QED
  BY <1>1, <1>2, <1>3, <1>4, <1>5, <1>6 DEF Next

LEMMA QueueKeeps ==
  ASSUME Typed, Control, Queue, [Next]_vars, ~Built, ~disturbed'
  PROVE  Queue'
<1> USE DEF cmds, queue, run, chip, who, user, Built
<1>1. CASE HWTimer_Stop
  <2>1. UNCHANGED <<Operation, PinExists, CmdQueuePos, CurCount, half, saved, ctx, exti>>
        /\ IsQueueRunning' = FALSE /\ half = "no"
    BY <1>1 DEF HWTimer_Stop, Stopped, Control
  <2>2. Alone' /\ Shape' /\ Place'
    BY <2>1 DEF Queue, Alone, Shape, After, Place
  <2> QED
    BY <2>2 DEF Queue
<1>2. CASE HWTimer_ClearOperationQueue
  <2>1. UNCHANGED <<Operation, PinExists, CurCount, half, saved, ctx, exti>>
        /\ ~IsQueueRunning' /\ half = "no" /\ CmdQueuePos' = 0
    BY <1>2 DEF HWTimer_ClearOperationQueue, Control
  <2>2. Alone' /\ Shape' /\ Place'
    BY <2>1 DEF Queue, Alone, Shape, Place
  <2> QED
    BY <2>2 DEF Queue
<1>3. CASE \E r \in Repeats : HWTimer_InitOperationQueue(r)
  <2>1. UNCHANGED <<CurCount, half, saved, ctx, exti>>
        /\ ~IsQueueRunning' /\ half = "no" /\ CmdQueuePos' = 0
        /\ Operation' = [i \in Slots |-> "END"]
    BY <1>3 DEF HWTimer_InitOperationQueue, Control
  <2>2. Alone' /\ Shape' /\ Place'
    BY <2>1 DEF Queue, Alone, Shape, Place
  <2> QED
    BY <2>2 DEF Queue
<1>5. CASE StartTest \/ StartEnd
  BY <1>5, SameQueue DEF StartTest, StartEnd, Queue, Alone
<1>6. CASE StartBegin
  BY <1>6, StartKeepsQueue
<1>7. CASE Interpret
  BY <1>7, InterpretKeepsQueue
<1>8. CASE Expire
  BY <1>8, SameQueue DEF Expire, Queue, Alone
<1>9. CASE TimerIrq
  <2>1. UNCHANGED <<Operation, PinExists, CmdQueuePos, CurCount, IsQueueRunning>>
        /\ half' = "no" /\ ctx = "none" /\ saved' = <<>>
    BY <1>9 DEF TimerIrq, Queue, Alone
  <2>2. Alone' /\ Shape' /\ Place'
    BY <2>1 DEF Queue, Alone, Shape, After, Place
  <2> QED
    BY <2>2 DEF Queue
<1>10. CASE EndIrq
  <2>1. UNCHANGED <<Operation, PinExists, CmdQueuePos, CurCount, half, saved, ctx, exti>>
        /\ IsQueueRunning' = FALSE /\ half = "no"
    BY <1>10 DEF EndIrq, Stopped, Control
  <2>2. Alone' /\ Shape' /\ Place'
    BY <2>1 DEF Queue, Alone, Shape, After, Place
  <2> QED
    BY <2>2 DEF Queue
<1>11. CASE PinIrq
  <2>1. UNCHANGED <<Operation, PinExists, CmdQueuePos, CurCount, IsQueueRunning>>
        /\ half' = "no" /\ ctx = "none" /\ saved' = <<>>
    BY <1>11 DEF PinIrq
  <2>2. Alone' /\ Shape' /\ Place'
    BY <2>1 DEF Queue, Alone, Shape, After, Place
  <2> QED
    BY <2>2 DEF Queue
<1>12. CASE \E n \in Pulses : HWTimer_SetPWM(n)
  <2>1. UNCHANGED <<Operation, PinExists, CmdQueuePos, half, saved, ctx, exti>>
        /\ ~IsQueueRunning' /\ half = "no"
    BY <1>12 DEF HWTimer_SetPWM, Control
  <2>2. Alone' /\ Shape' /\ Place'
    BY <2>1 DEF Queue, Alone, Shape, After, Place
  <2> QED
    BY <2>2 DEF Queue
<1>13. CASE PwmIrq
  <2>1. UNCHANGED <<Operation, PinExists, CmdQueuePos, half, saved, ctx, exti>>
        /\ ~IsQueueRunning' /\ half = "no"
    <3>1. UNCHANGED <<Operation, PinExists, CmdQueuePos, half, saved, ctx, exti>>
      BY <1>13 DEF PwmIrq
    <3>2. ~IsQueueRunning /\ half = "no"
      BY <1>13 DEF PwmIrq, Control
    <3>3. IsQueueRunning' = IsQueueRunning \/ IsQueueRunning' = FALSE
      BY <1>13, PwmIrqEnds
    <3> QED
      BY <3>1, <3>2, <3>3
  <2>2. Alone' /\ Shape' /\ Place'
    BY <2>1 DEF Queue, Alone, Shape, After, Place
  <2> QED
    BY <2>2 DEF Queue
<1>14. CASE UNCHANGED vars
  BY <1>14, SameQueue DEF vars, Queue, Alone
<1> QED
  BY <1>1, <1>2, <1>3, <1>5, <1>6, <1>7, <1>8, <1>9, <1>10, <1>11, <1>12,
     <1>13, <1>14 DEF Next

-----------------------------------------------------------------------------
(* The capture pin: as long as it is armed, the interpreter is at one of   *)
(* the operations of a capture, or still inside the one that arms it.      *)

Armed ==
  ~disturbed /\ exti /\ IsQueueRunning =>
    /\ ctx = "none" => /\ Operation[CurCount] = "CAP" /\ CurCount > 0
                       /\ Operation[CurCount - 1] \in {"SET", "CAP"}
    /\ ctx # "none" => Operation[CurCount] \in {"CAP", "CAPEND"} \/ half = "SET"

LEMMA SameArmed ==
  ASSUME Armed, UNCHANGED <<Operation, CurCount, disturbed, exti, ctx, half>>,
         IsQueueRunning' => IsQueueRunning
  PROVE  Armed'
BY DEF Armed

(* What is behind the operation that is being interpreted.                 *)
LEMMA Behind ==
  ASSUME Typed, Control, Queue, IsQueueRunning, Operation[CurCount] # "END"
  PROVE  LET o == Operation[CurCount]
         IN  /\ CurCount \in Nat
             /\ o = "SET" => Operation[CurCount + 1] = "CAP"
             /\ o = "CAP" => Operation[CurCount + 1] \in {"CAP", "CAPEND"}
             /\ o = "CAPEND" /\ ~PinExists[CurCount] =>
                  Operation[CurCount + 1] \in {"CAP", "CAPEND"}
<1>1. CurCount \in 0..(CmdQueuePos - 1) /\ CurCount \in Nat
  BY Inside DEF Queue
<1>2. After(CurCount) # "END" => Operation[CurCount + 1] = After(CurCount)
  BY DEF After
<1> QED
  BY <1>1, <1>2 DEF Queue, Shape

LEMMA ArmedKeeps ==
  ASSUME Typed, Control, Queue, Armed, [Next]_vars, ~Built, ~disturbed'
  PROVE  Armed'
<1> USE DEF cmds, queue, run, chip, who, user, bounds, Built
<1>1. CASE HWTimer_Stop \/ EndIrq
  BY <1>1 DEF HWTimer_Stop, EndIrq, Stopped, Armed
<1>2. CASE HWTimer_ClearOperationQueue \/ StartTest \/ StartEnd
  BY <1>2, SameArmed DEF HWTimer_ClearOperationQueue, StartTest, StartEnd
<1>3. CASE \E r \in Repeats : HWTimer_InitOperationQueue(r)
  BY <1>3 DEF HWTimer_InitOperationQueue, Armed
<1>5. CASE StartBegin
  BY <1>5 DEF StartBegin, Armed
<1>6. CASE Interpret
  <2> USE DEF Interprets, GoOn
  <2>1. CASE OperationIO
    BY <2>1 DEF OperationIO, Armed
  <2>2. CASE OperationCB
    BY <2>2 DEF OperationCB, Armed
  <2>3. CASE OperationDelay
    BY <2>3 DEF OperationDelay, Armed
  <2>4. CASE OperationRepeat
    BY <2>4 DEF OperationRepeat, Armed
  <2>5. CASE OperationCaptureSet
    BY <2>5 DEF OperationCaptureSet, Armed
  <2>6. CASE OperationCapture
    <3>1. CurCount \in Slots /\ CurCount # CurCount + 1
      <4>1. CurCount \in Nat /\ CurCount + 1 \in Slots
        BY <2>6, CaptureFacts
      <4> QED
        BY <4>1, MaxIsNat DEF Slots
    <3>2. Operation'[CurCount] = "CAP"
      BY <2>6, <3>1, CaptureFacts
    <3> QED
      BY <2>6, <3>2, CaptureFacts DEF Armed
  <2>7. CASE OperationCaptureHalf
    <3>1. /\ CurCount \in Nat /\ Operation[CurCount] = "CAP" /\ IsQueueRunning
          /\ Operation[CurCount + 1] \in {"CAP", "CAPEND"}
      <4>1. half = "CAP"
        BY <2>7 DEF OperationCaptureHalf
      <4> QED
        BY <4>1, HalfInside, Behind DEF Queue
    <3>2. /\ CurCount' = CurCount + 1
          /\ UNCHANGED <<Operation, disturbed, exti, IsQueueRunning>>
          /\ ctx' = "none" => Operation[CurCount + 1] # "CAPEND" \/ ctx = "none"
      BY <2>7 DEF OperationCaptureHalf
    <3>3. ctx # "none"
      BY <2>7 DEF OperationCaptureHalf, Control
    <3> QED
      BY <3>1, <3>2, <3>3 DEF Armed
  <2>11. CASE OperationCaptureSetHalf
    <3>1. /\ CurCount \in Nat /\ Operation[CurCount] = "SET"
          /\ Operation[CurCount + 1] = "CAP"
      <4>1. half = "SET"
        BY <2>11 DEF OperationCaptureSetHalf
      <4> QED
        BY <4>1, HalfInside, Behind DEF Queue
    <3>2. CurCount' = CurCount + 1 /\ Operation' = Operation /\ ctx' = "none"
      BY <2>11, LeaveEnds DEF OperationCaptureSetHalf, Queue
    <3> QED
      BY <3>1, <3>2 DEF Armed
  <2>12. CASE OperationCaptureCB
    BY <2>12 DEF OperationCaptureCB
  <2>8. CASE OperationCaptureEnd
    BY <2>8, Behind DEF OperationCaptureEnd, Armed
  <2>9. CASE OperationEnd
    BY <2>9 DEF OperationEnd, Armed
  <2>10. CASE LoopOver
    BY <2>10 DEF LoopOver, Armed
  <2> QED
    BY <1>6, <2>1, <2>2, <2>3, <2>4, <2>5, <2>6, <2>7, <2>8, <2>9, <2>10, <2>11,
       <2>12 DEF Interpret
<1>7. CASE Expire
  BY <1>7, SameArmed DEF Expire
<1>8. CASE TimerIrq
  BY <1>8 DEF TimerIrq, Armed
<1>9. CASE PinIrq
  BY <1>9 DEF PinIrq, Armed
<1>10. CASE \E n \in Pulses : HWTimer_SetPWM(n)
  BY <1>10 DEF HWTimer_SetPWM, Armed
<1>11. CASE PwmIrq
  <2>1. ~IsQueueRunning
    BY <1>11 DEF PwmIrq, Control
  <2>2. IsQueueRunning' = IsQueueRunning \/ IsQueueRunning' = FALSE
    BY <1>11, PwmIrqEnds
  <2> QED
    BY <2>1, <2>2 DEF Armed
<1>12. CASE UNCHANGED vars
  BY <1>12, SameArmed DEF vars
<1> QED
  BY <1>1, <1>2, <1>3, <1>5, <1>6, <1>7, <1>8, <1>9, <1>10, <1>11, <1>12 DEF Next

-----------------------------------------------------------------------------
(* The counts.                                                             *)

Among(f, kinds, n) == {i \in 0..(n - 1) : f[i] \in kinds}
Upto(kinds) == Cardinality(Among(Operation, kinds, CurCount))

(* A delay was started whose interrupt has not come.                       *)
Waiting == ctx = "none" /\ CurCount > 0 /\ Operation[CurCount - 1] \in Delays

(* Of the loops that are over and of the one that runs.                    *)
Sums ==
  /\ ios = RepeatCnt * Count({"IO"}) + Upto({"IO"})
  /\ waits + (IF Waiting THEN 1 ELSE 0) = RepeatCnt * Count(Delays) + Upto(Delays)
  /\ \A j \in 0..(CurCount - 1) : Operation[j] # "END"

AllSums ==
  /\ ios = TotalRepeat * Count({"IO"})
  /\ waits = TotalRepeat * Count(Delays)

Counting == IsQueueRunning /\ ~disturbed

Progress ==
  Counting =>
    /\ TotalRepeat > 0 /\ handler = "queue" => RepeatCnt < TotalRepeat /\ (~told => Sums)
    /\ handler = "end" => /\ TotalRepeat > 0 /\ RepeatCnt = TotalRepeat
                          /\ ctx = "none" /\ ~exti
                          /\ ~told => AllSums

LEMMA AmongFinite ==
  ASSUME NEW f, NEW kinds, NEW n \in Nat
  PROVE  /\ IsFiniteSet(Among(f, kinds, n))
         /\ Cardinality(Among(f, kinds, n)) \in Nat
<1>1. IsFiniteSet(0..(n - 1))
  BY FS_Interval
<1>2. Among(f, kinds, n) \subseteq 0..(n - 1)
  BY DEF Among
<1>3. IsFiniteSet(Among(f, kinds, n))
  BY <1>1, <1>2, FS_Subset
<1> QED
  BY <1>3, FS_CardinalityType

LEMMA OneMore ==
  ASSUME NEW f, NEW kinds, NEW n \in Nat
  PROVE  Cardinality(Among(f, kinds, n + 1)) =
           Cardinality(Among(f, kinds, n)) + (IF f[n] \in kinds THEN 1 ELSE 0)
<1>1. CASE f[n] \in kinds
  <2>1. Among(f, kinds, n + 1) = Among(f, kinds, n) \union {n}
    BY <1>1 DEF Among
  <2>2. n \notin Among(f, kinds, n)
    BY DEF Among
  <2> QED
    BY <1>1, <2>1, <2>2, AmongFinite, FS_AddElement
<1>2. CASE f[n] \notin kinds
  <2>1. Among(f, kinds, n + 1) = Among(f, kinds, n)
    BY <1>2 DEF Among
  <2> QED
    BY <1>2, <2>1, AmongFinite
<1> QED
  BY <1>1, <1>2

LEMMA NoneYet ==
  ASSUME NEW f, NEW kinds PROVE Cardinality(Among(f, kinds, 0)) = 0
<1>1. Among(f, kinds, 0) = {}
  BY DEF Among
<1> QED
  BY <1>1, FS_EmptySet

(* A loop of the queue ends at its first END.                              *)
LEMMA CountIsWhole ==
  ASSUME NEW kinds, "END" \notin kinds, NEW n \in Nat, CmdQueuePos \in Nat,
         n <= CmdQueuePos, Operation[n] = "END",
         \A j \in 0..(n - 1) : Operation[j] # "END"
  PROVE  Count(kinds) = Cardinality(Among(Operation, kinds, n))
<1> DEFINE all == {i \in 0..(CmdQueuePos - 1) :
                    Operation[i] \in kinds /\ \A j \in 0..i : Operation[j] # "END"}
<1>1. \A i \in all : i \in Among(Operation, kinds, n)
  <2> SUFFICES ASSUME NEW i \in all PROVE i \in Among(Operation, kinds, n)
    OBVIOUS
  <2>1. i \in Nat /\ Operation[i] \in kinds /\ \A j \in 0..i : Operation[j] # "END"
    OBVIOUS
  <2>2. ~(n <= i)
    BY <2>1
  <2> QED
    BY <2>1, <2>2 DEF Among
<1>2. \A i \in Among(Operation, kinds, n) : i \in all
  <2> SUFFICES ASSUME NEW i \in Among(Operation, kinds, n) PROVE i \in all
    OBVIOUS
  <2>1. i \in 0..(n - 1) /\ Operation[i] \in kinds
    BY DEF Among
  <2>2. i \in 0..(CmdQueuePos - 1) /\ \A j \in 0..i : j \in 0..(n - 1)
    BY <2>1
  <2> QED
    BY <2>1, <2>2
<1>3. all = Among(Operation, kinds, n)
  BY <1>1, <1>2
<1> QED
  BY <1>3 DEF Count

LEMMA CountFinite == ASSUME NEW kinds, CmdQueuePos \in Nat PROVE Count(kinds) \in Nat
<1> DEFINE all == {i \in 0..(CmdQueuePos - 1) :
                    Operation[i] \in kinds /\ \A j \in 0..i : Operation[j] # "END"}
<1>1. IsFiniteSet(0..(CmdQueuePos - 1)) /\ all \subseteq 0..(CmdQueuePos - 1)
  BY FS_Interval
<1>2. IsFiniteSet(all)
  BY <1>1, FS_Subset
<1>3. Cardinality(all) \in Nat
  BY <1>2, FS_CardinalityType
<1> QED
  BY <1>3 DEF Count

(* A capture's operation in place of another changes no count.             *)
LEMMA CountSame ==
  ASSUME NEW kinds, CmdQueuePos' = CmdQueuePos, CmdQueuePos \in 0..MaxCmds,
         \A i \in Slots : /\ Operation'[i] \in kinds <=> Operation[i] \in kinds
                          /\ Operation'[i] = "END" <=> Operation[i] = "END"
  PROVE  Count(kinds)' = Count(kinds)
<1>1. \A i \in 0..(CmdQueuePos - 1) : i \in Slots /\ \A j \in 0..i : j \in Slots
  BY MaxIsNat DEF Slots
<1>2. {i \in 0..(CmdQueuePos' - 1) :
         Operation'[i] \in kinds /\ \A j \in 0..i : Operation'[j] # "END"}
      = {i \in 0..(CmdQueuePos - 1) :
           Operation[i] \in kinds /\ \A j \in 0..i : Operation[j] # "END"}
  BY <1>1
<1> QED
  BY <1>2 DEF Count

LEMMA SameProgress ==
  ASSUME Progress,
         UNCHANGED <<Operation, CmdQueuePos, CurCount, RepeatCnt, TotalRepeat, handler,
                     ios, waits, told, disturbed, ctx>>,
         exti' => exti \/ ctx # "none",
         IsQueueRunning' => IsQueueRunning
  PROVE  Progress'
<1>1. Count({"IO"})' = Count({"IO"}) /\ Count(Delays)' = Count(Delays)
  BY DEF Count
<1>2. Upto({"IO"})' = Upto({"IO"}) /\ Upto(Delays)' = Upto(Delays)
  BY DEF Upto
<1>3. Waiting' = Waiting
  BY DEF Waiting
<1>4. Sums => Sums'
  BY <1>1, <1>2, <1>3 DEF Sums
<1>5. AllSums => AllSums'
  BY <1>1 DEF AllSums
<1> QED
  BY <1>4, <1>5 DEF Progress, Counting

(* One operation on.  The counts grow by what the operation is, and a wait *)
(* is counted by the interrupt that ends it.                               *)
LEMMA OneOn ==
  ASSUME Typed, Control, Queue, Progress, IsQueueRunning, ctx # "none",
         Operation[CurCount] # "END",
         UNCHANGED <<Operation, CmdQueuePos, RepeatCnt, TotalRepeat, handler, waits,
                     told, disturbed>>,
         CurCount' = CurCount + 1,
         ios' = IF Operation[CurCount] = "IO" THEN Counted(ios) ELSE ios,
         Operation[CurCount] \in Delays <=> ctx' = "none" /\ Operation[CurCount] \in Delays
  PROVE  Progress'
<1>1. CurCount \in Nat /\ CurCount' > 0 /\ CurCount' - 1 = CurCount
  BY Inside DEF Queue
<1>2. ASSUME Counting PROVE handler = "queue" /\ handler' = "queue"
  BY <1>2 DEF Progress, Control
<1>3. ASSUME Counting, TotalRepeat > 0, ~told, Sums PROVE Sums'
  <2>1. Count({"IO"})' = Count({"IO"}) /\ Count(Delays)' = Count(Delays)
    BY DEF Count
  <2>2. /\ Upto({"IO"})' = Upto({"IO"}) + (IF Operation[CurCount] \in {"IO"} THEN 1 ELSE 0)
        /\ Upto(Delays)' = Upto(Delays) + (IF Operation[CurCount] \in Delays THEN 1 ELSE 0)
    BY <1>1, OneMore DEF Upto
  <2>3. /\ Upto({"IO"}) \in Nat /\ Upto(Delays) \in Nat
        /\ Count({"IO"}) \in Nat /\ Count(Delays) \in Nat
    BY <1>1, AmongFinite, CountFinite, MaxIsNat DEF Upto, Typed
  <2>4. ios' = ios + (IF Operation[CurCount] \in {"IO"} THEN 1 ELSE 0)
    <3>1. Counted(ios) = ios + 1 /\ ios \in Nat
      BY <1>3 DEF Counted, Counting, Typed
    <3> QED
      BY <3>1
  <2>5. ~Waiting /\ (Waiting' <=> Operation[CurCount] \in Delays)
    BY <1>1 DEF Waiting
  <2>6. ios' = RepeatCnt' * Count({"IO"})' + Upto({"IO"})'
    <3> DEFINE one == IF Operation[CurCount] \in {"IO"} THEN 1 ELSE 0
               p == RepeatCnt * Count({"IO"})
    <3>1. ios = p + Upto({"IO"}) /\ p \in Nat /\ one \in Nat
      BY <1>3, <2>3 DEF Sums, Typed
    <3>2. RepeatCnt' * Count({"IO"})' = p
      BY <2>1
    <3> HIDE DEF one, p
    <3>3. ios' = ios + one /\ Upto({"IO"})' = Upto({"IO"}) + one
      BY <2>2, <2>4 DEF one
    <3> QED
      BY <2>3, <3>1, <3>2, <3>3
  <2>7. waits' + (IF Waiting' THEN 1 ELSE 0) = RepeatCnt' * Count(Delays)' + Upto(Delays)'
    <3> DEFINE one == IF Operation[CurCount] \in Delays THEN 1 ELSE 0
               p == RepeatCnt * Count(Delays)
    <3>1. waits + 0 = p + Upto(Delays) /\ p \in Nat /\ one \in Nat /\ waits \in Nat
      BY <1>3, <2>3, <2>5 DEF Sums, Typed
    <3>2. RepeatCnt' * Count(Delays)' = p
      BY <2>1
    <3>3. (IF Waiting' THEN 1 ELSE 0) = one
      BY <2>5
    <3> HIDE DEF one, p
    <3>4. Upto(Delays)' = Upto(Delays) + one
      BY <2>2 DEF one
    <3> QED
      BY <2>3, <3>1, <3>2, <3>3, <3>4
  <2>8. \A j \in 0..(CurCount' - 1) : Operation'[j] # "END"
    BY <1>1, <1>3 DEF Sums
  <2> QED
    BY <2>6, <2>7, <2>8 DEF Sums
<1>4. Counting' => Counting
  BY DEF Counting
<1> QED
  BY <1>2, <1>3, <1>4 DEF Progress

(* A capture counts nothing, whatever it puts behind itself.               *)
LEMMA CaptureKeepsProgress ==
  ASSUME Typed, Control, Queue, Progress, OperationCapture PROVE Progress'
<1>1. /\ UNCHANGED <<CmdQueuePos, CurCount, RepeatCnt, TotalRepeat, handler, ios, waits,
                     told, disturbed, exti, ctx, IsQueueRunning>>
      /\ ctx # "none"
  BY DEF OperationCapture, Interprets, queue, run, chip, trace, bounds
<1>2. CurCount \in Nat /\ CurCount + 1 \in Slots /\ CurCount + 1 < CmdQueuePos
      /\ CmdQueuePos \in 0..MaxCmds
  BY CaptureFacts DEF Typed
<1>3. ASSUME NEW kinds \in {{"IO"}, Delays}, NEW i \in Slots
      PROVE  /\ Operation'[i] \in kinds <=> Operation[i] \in kinds
             /\ Operation'[i] = "END" <=> Operation[i] = "END"
  <2>1. CASE i = CurCount + 1
    <3>1. Operation[i] \in {"CAP", "CAPEND"} /\ Operation'[i] \in {"CAP", "CAPEND"}
      BY <2>1, CaptureFacts
    <3> QED
      BY <3>1 DEF Delays
  <2>2. CASE i # CurCount + 1
    BY <2>2, CaptureFacts
  <2> QED
    BY <2>1, <2>2
<1>4. ASSUME NEW kinds \in {{"IO"}, Delays}
      PROVE  Count(kinds)' = Count(kinds) /\ Upto(kinds)' = Upto(kinds)
  <2>1. Count(kinds)' = Count(kinds)
    BY <1>1, <1>2, <1>3, CountSame
  <2>2. \A i \in 0..(CurCount - 1) : i \in Slots
    BY <1>2, MaxIsNat DEF Slots
  <2>3. Among(Operation', kinds, CurCount) = Among(Operation, kinds, CurCount)
    BY <1>3, <2>2 DEF Among
  <2> QED
    BY <1>1, <2>1, <2>3 DEF Upto
<1>5. ~Waiting /\ ~Waiting'
  BY <1>1 DEF Waiting
<1>6. ASSUME Sums PROVE Sums'
  <2>1. \A j \in 0..(CurCount - 1) : j \in Slots
    BY <1>2, MaxIsNat DEF Slots
  <2>2. \A j \in 0..(CurCount - 1) : Operation'[j] # "END"
    BY <1>3, <1>6, <2>1 DEF Sums
  <2>3. /\ Count({"IO"})' = Count({"IO"}) /\ Upto({"IO"})' = Upto({"IO"})
        /\ Count(Delays)' = Count(Delays) /\ Upto(Delays)' = Upto(Delays)
    BY <1>4
  <2> QED
    BY <1>1, <1>5, <1>6, <2>2, <2>3 DEF Sums
<1>7. AllSums => AllSums'
  BY <1>1, <1>4 DEF AllSums
<1> QED
  BY <1>1, <1>6, <1>7 DEF Progress, Counting

(* The end of a loop: what was counted up to it is the whole loop.         *)
LEMMA EndKeepsProgress ==
  ASSUME Typed, Control, Queue, Armed, Progress, OperationEnd PROVE Progress'
<1>1. /\ IsQueueRunning /\ ctx # "none" /\ half = "no" /\ Operation[CurCount] = "END"
      /\ CurCount' = 0 /\ RepeatCnt' = Repeated
      /\ UNCHANGED <<Operation, CmdQueuePos, TotalRepeat, ios, waits, told, disturbed,
                     exti, IsQueueRunning>>
  BY DEF OperationEnd, Interprets, cmds, queue, trace, bounds
<1>2. \/ /\ TotalRepeat # 0 /\ Repeated >= TotalRepeat
         /\ handler' = "end" /\ ctx' = "none"
      \/ /\ ~(TotalRepeat # 0 /\ Repeated >= TotalRepeat)
         /\ UNCHANGED <<handler, ctx>>
  BY LeaveEnds DEF OperationEnd, AllRepeated, GoOn, who, Queue
<1> SUFFICES ASSUME Counting PROVE Progress'
  BY <1>1 DEF Progress, Counting
<1>3. /\ CurCount \in Nat /\ CmdQueuePos \in Nat /\ CurCount <= CmdQueuePos
      /\ RepeatCnt \in Nat /\ TotalRepeat \in Nat
  BY <1>1, MaxIsNat DEF Queue, Place, Typed
<1>4. handler = "queue" /\ ~exti
  BY <1>1 DEF Progress, Control, Counting, Armed
<1>5. CASE TotalRepeat = 0
  <2>1. handler' = "queue" /\ TotalRepeat' = 0
    BY <1>1, <1>2, <1>4, <1>5
  <2> QED
    BY <2>1 DEF Progress
<1>6. CASE TotalRepeat > 0
  <2>1. RepeatCnt < TotalRepeat /\ (~told => Sums)
    BY <1>4, <1>6 DEF Progress
  <2>2. RepeatCnt' = RepeatCnt + 1
    BY <1>1, <1>3, <1>6, <2>1, MinOfTwo DEF Repeated
  <2>3. ASSUME ~told
        PROVE  /\ ios = (RepeatCnt + 1) * Count({"IO"})
               /\ waits = (RepeatCnt + 1) * Count(Delays)
    <3>1. Sums /\ ~Waiting
      BY <1>1, <2>1, <2>3 DEF Waiting
    <3>2. Count({"IO"}) = Upto({"IO"}) /\ Count(Delays) = Upto(Delays)
      BY <1>1, <1>3, <3>1, CountIsWhole DEF Sums, Upto, Delays
    <3>3. Count({"IO"}) \in Nat /\ Count(Delays) \in Nat
      BY <1>3, CountFinite
    <3>4. \A a, c \in Nat : (a + 1) * c = a * c + c
      OBVIOUS
    <3>5. /\ (RepeatCnt + 1) * Count({"IO"}) = RepeatCnt * Count({"IO"}) + Count({"IO"})
          /\ (RepeatCnt + 1) * Count(Delays) = RepeatCnt * Count(Delays) + Count(Delays)
      BY <1>3, <3>3, <3>4
    <3>6. waits + 0 = RepeatCnt * Count(Delays) + Upto(Delays) /\ waits \in Nat
          /\ ios = RepeatCnt * Count({"IO"}) + Upto({"IO"})
      BY <3>1 DEF Sums, Typed
    <3> QED
      BY <3>2, <3>5, <3>6
  <2>4. Count({"IO"})' = Count({"IO"}) /\ Count(Delays)' = Count(Delays)
    BY <1>1 DEF Count
  <2>5. CASE RepeatCnt + 1 >= TotalRepeat
    <3>1. handler' = "end" /\ ctx' = "none" /\ ~exti' /\ RepeatCnt' = TotalRepeat
          /\ TotalRepeat' > 0 /\ RepeatCnt + 1 = TotalRepeat
      BY <1>1, <1>2, <1>3, <1>4, <1>6, <2>1, <2>2, <2>5
    <3>2. ~told' => AllSums'
      BY <1>1, <2>3, <2>4, <3>1 DEF AllSums
    <3> QED
      BY <1>1, <3>1, <3>2 DEF Progress
  <2>6. CASE ~(RepeatCnt + 1 >= TotalRepeat)
    <3>1. handler' = "queue" /\ ctx' # "none" /\ RepeatCnt' < TotalRepeat'
      BY <1>1, <1>2, <1>3, <1>4, <2>2, <2>6
    <3>2. ASSUME ~told PROVE Sums'
      <4>1. Upto({"IO"})' = 0 /\ Upto(Delays)' = 0
        BY <1>1, NoneYet DEF Upto
      <4>2. ~Waiting'
        BY <3>1 DEF Waiting
      <4>3. Count({"IO"})' \in Nat /\ Count(Delays)' \in Nat /\ RepeatCnt' \in Nat
            /\ waits \in Nat /\ ios \in Nat
        BY <1>3, <2>2, <2>4, CountFinite DEF Typed
      <4>4. ios' = RepeatCnt' * Count({"IO"})' /\ waits' = RepeatCnt' * Count(Delays)'
        BY <1>1, <2>2, <2>3, <2>4, <3>2
      <4>5. ios' = RepeatCnt' * Count({"IO"})' + Upto({"IO"})'
        BY <1>1, <4>1, <4>3, <4>4
      <4>6. waits' + (IF Waiting' THEN 1 ELSE 0)
              = RepeatCnt' * Count(Delays)' + Upto(Delays)'
        BY <1>1, <4>1, <4>2, <4>3, <4>4
      <4>7. \A j \in 0..(CurCount' - 1) : Operation'[j] # "END"
        BY <1>1
      <4> QED
        BY <4>5, <4>6, <4>7 DEF Sums
    <3> QED
      BY <1>1, <3>1, <3>2 DEF Progress
  <2> QED
    BY <1>3, <2>5, <2>6
<1> QED
  BY <1>3, <1>5, <1>6

LEMMA InterpretKeepsProgress ==
  ASSUME Typed, Control, Queue, Armed, Progress, Interpret PROVE Progress'
<1> USE DEF cmds, queue, run, chip, who, user, trace, bounds
<1> USE DEF Interprets, GoOn, Delays
<1>1. CASE OperationIO
  BY <1>1, OneOn DEF OperationIO
<1>2. CASE OperationCB
  <2>1. CASE UNCHANGED <<Operation, told>>
    BY <1>2, <2>1, OneOn DEF OperationCB
  <2>2. CASE told' = TRUE /\ ~UNCHANGED <<Operation, told>>
    <3>1. /\ IsQueueRunning /\ ctx # "none"
          /\ UNCHANGED <<RepeatCnt, TotalRepeat, handler, disturbed, IsQueueRunning>>
      BY <1>2 DEF OperationCB
    <3> QED
      BY <2>2, <3>1 DEF Progress, Counting, Control
  <2> QED
    BY <1>2, <2>1, <2>2 DEF OperationCB
<1>3. CASE OperationDelay
  BY <1>3, OneOn, LeaveEnds DEF OperationDelay, Queue
<1>4. CASE OperationRepeat
  BY <1>4, OneOn, LeaveEnds DEF OperationRepeat, Queue
<1>5. CASE OperationCaptureSet
  BY <1>5, SameProgress DEF OperationCaptureSet
<1>6. CASE OperationCapture
  BY <1>6, CaptureKeepsProgress
<1>7. CASE OperationCaptureHalf \/ OperationCaptureSetHalf
  <2>1. half # "no" /\ CurCount' = CurCount + 1
        /\ UNCHANGED <<Operation, CmdQueuePos, RepeatCnt, TotalRepeat, handler, ios,
                       waits, told, disturbed>>
    BY <1>7 DEF OperationCaptureHalf, OperationCaptureSetHalf
  <2>2. ctx # "none" /\ IsQueueRunning /\ Operation[CurCount] \in {"SET", "CAP"}
    BY <2>1, HalfInside DEF Control, Queue
  <2> QED
    BY <2>1, <2>2, OneOn
<1>11. CASE OperationCaptureCB
  BY <1>11 DEF OperationCaptureCB, Progress, Counting
<1>8. CASE OperationCaptureEnd
  BY <1>8, OneOn DEF OperationCaptureEnd
<1>9. CASE OperationEnd
  BY <1>9, EndKeepsProgress
<1>10. CASE LoopOver
  BY <1>10 DEF LoopOver, Progress, Counting
<1> QED
  BY <1>1, <1>2, <1>3, <1>4, <1>5, <1>6, <1>7, <1>8, <1>9, <1>10, <1>11 DEF Interpret

(* A start: nothing is counted yet, and no pin is armed unless it says so. *)
LEMMA StartKeepsProgress ==
  ASSUME Typed, Control, Queue, StartBegin PROVE Progress'
<1>1. /\ CurCount' = 0 /\ RepeatCnt' = 0 /\ ios' = 0 /\ waits' = 0
      /\ handler' = "queue" /\ ctx' = "task"
      /\ UNCHANGED <<CmdQueuePos, TotalRepeat>>
  BY DEF StartBegin, queue
<1>2. Count({"IO"})' \in Nat /\ Count(Delays)' \in Nat
  <2>1. CmdQueuePos' \in Nat
    BY <1>1, MaxIsNat DEF Typed
  <2>2. ASSUME NEW kinds PROVE Count(kinds)' \in Nat
    <3> DEFINE all == {i \in 0..(CmdQueuePos' - 1) :
                        Operation'[i] \in kinds /\ \A j \in 0..i : Operation'[j] # "END"}
    <3>1. IsFiniteSet(0..(CmdQueuePos' - 1)) /\ all \subseteq 0..(CmdQueuePos' - 1)
      <4>1. 0 \in Int /\ CmdQueuePos' - 1 \in Int
        BY <2>1
      <4>2. IsFiniteSet(0..(CmdQueuePos' - 1))
        BY <4>1, FS_Interval
      <4> QED
        BY <4>2
    <3>2. IsFiniteSet(all)
      BY <3>1, FS_Subset
    <3>3. Cardinality(all) \in Nat
      BY <3>2, FS_CardinalityType
    <3> QED
      BY <3>3 DEF Count
  <2> QED
    BY <2>2
<1>3. Upto({"IO"})' = 0 /\ Upto(Delays)' = 0
  BY <1>1, NoneYet DEF Upto
<1>4. ~Waiting'
  BY <1>1 DEF Waiting
<1>5. RepeatCnt' * Count({"IO"})' = 0 /\ RepeatCnt' * Count(Delays)' = 0
  BY <1>1, <1>2
<1>6. Sums'
  <2>1. waits' + (IF Waiting' THEN 1 ELSE 0) = 0
    BY <1>1, <1>4
  <2>2. \A j \in 0..(CurCount' - 1) : Operation'[j] # "END"
    BY <1>1
  <2> QED
    BY <1>1, <1>3, <1>5, <2>1, <2>2 DEF Sums
<1> QED
  BY <1>1, <1>6 DEF Progress

(* The interrupt of a wait counts it.                                      *)
LEMMA TimerIrqKeepsProgress ==
  ASSUME Typed, Control, Queue, Progress, TimerIrq, ~disturbed' PROVE Progress'
<1>1. /\ handler = "queue" /\ ctx = "none" /\ ctx' = "tim"
      /\ waits' = IF Waited THEN Counted(waits) ELSE waits
      /\ UNCHANGED <<Operation, CmdQueuePos, CurCount, RepeatCnt, TotalRepeat, handler,
                     ios, told, IsQueueRunning>>
  BY DEF TimerIrq, cmds, queue, run
<1>0. disturbed' = disturbed
  <2>1. disturbed' = (disturbed \/ ctx = "exti")
    BY DEF TimerIrq
  <2> QED
    BY <1>1, <2>1 DEF Typed
<1>2. ASSUME Counting, TotalRepeat > 0, ~told, Sums PROVE Sums'
  <2>1. Count({"IO"})' = Count({"IO"}) /\ Count(Delays)' = Count(Delays)
    BY <1>1 DEF Count
  <2>2. Upto({"IO"})' = Upto({"IO"}) /\ Upto(Delays)' = Upto(Delays)
    BY <1>1 DEF Upto
  <2>3. ~Waiting' /\ (Waiting <=> Waited)
    <3>1. CurCount \in 0..CmdQueuePos /\ CmdQueuePos \in 0..MaxCmds /\ MaxCmds \in Nat
      BY <1>2, MaxIsNat DEF Counting, Queue, Place, Typed
    <3>2. CurCount > 0 <=> CurCount - 1 \in Slots
      BY <3>1 DEF Slots
    <3> QED
      BY <1>1, <3>2 DEF Waiting, Waited
  <2>4. waits' = waits + (IF Waiting THEN 1 ELSE 0) /\ waits' + 0 = waits'
    <3>1. Counted(waits) = waits + 1 /\ waits \in Nat
      BY <1>2 DEF Counted, Counting, Typed
    <3> QED
      BY <1>1, <2>3, <3>1
  <2>5. waits' + (IF Waiting' THEN 1 ELSE 0) = waits + (IF Waiting THEN 1 ELSE 0)
    BY <2>3, <2>4
  <2> QED
    BY <1>1, <1>2, <2>1, <2>2, <2>5 DEF Sums
<1> QED
  BY <1>0, <1>1, <1>2 DEF Progress, Counting

(* An edge enters at a capture, where nothing waits for a delay.           *)
LEMMA PinIrqKeepsProgress ==
  ASSUME Typed, Armed, Progress, PinIrq, ~disturbed' PROVE Progress'
<1>1. /\ exti /\ ctx = "none" /\ ctx' = "exti"
      /\ UNCHANGED <<Operation, CmdQueuePos, CurCount, RepeatCnt, TotalRepeat, handler,
                     ios, waits, told, IsQueueRunning>>
  BY DEF PinIrq, cmds, queue, run, chip, trace
<1>0. disturbed' = disturbed
  <2>1. disturbed' = (disturbed \/ ctx = "task")
    BY DEF PinIrq
  <2> QED
    BY <1>1, <2>1 DEF Typed
<1>2. ASSUME Counting, TotalRepeat > 0, ~told, Sums PROVE Sums'
  <2>1. Count({"IO"})' = Count({"IO"}) /\ Count(Delays)' = Count(Delays)
    BY <1>1 DEF Count
  <2>2. Upto({"IO"})' = Upto({"IO"}) /\ Upto(Delays)' = Upto(Delays)
    BY <1>1 DEF Upto
  <2>3. ~Waiting' /\ ~Waiting
    BY <1>1, <1>2 DEF Waiting, Armed, Counting, Delays
  <2> QED
    BY <1>1, <1>2, <2>1, <2>2, <2>3 DEF Sums
<1> QED
  BY <1>0, <1>1, <1>2 DEF Progress, Counting

LEMMA ProgressKeeps ==
  ASSUME Typed, Control, Queue, Armed, Progress, [Next]_vars, ~Built, ~disturbed'
  PROVE  Progress'
<1> USE DEF cmds, queue, run, chip, who, user, trace, bounds, Built
<1>1. CASE HWTimer_Stop \/ EndIrq
  BY <1>1 DEF HWTimer_Stop, EndIrq, Stopped, Progress, Counting
<1>2. CASE HWTimer_ClearOperationQueue
  BY <1>2 DEF HWTimer_ClearOperationQueue, Progress, Counting
<1>3. CASE StartTest \/ StartEnd
  BY <1>3, SameProgress DEF StartTest, StartEnd
<1>4. CASE \E r \in Repeats : HWTimer_InitOperationQueue(r)
  BY <1>4 DEF HWTimer_InitOperationQueue, Progress, Counting
<1>6. CASE StartBegin
  BY <1>6, StartKeepsProgress
<1>7. CASE Interpret
  BY <1>7, InterpretKeepsProgress
<1>8. CASE Expire
  BY <1>8, SameProgress DEF Expire
<1>9. CASE TimerIrq
  BY <1>9, TimerIrqKeepsProgress
<1>10. CASE PinIrq
  BY <1>10, PinIrqKeepsProgress
<1>11. CASE \E n \in Pulses : HWTimer_SetPWM(n)
  BY <1>11 DEF HWTimer_SetPWM, Progress, Counting
<1>12. CASE PwmIrq
  <2>1. ~IsQueueRunning
    BY <1>12 DEF PwmIrq, Control
  <2>2. IsQueueRunning' = IsQueueRunning \/ IsQueueRunning' = FALSE
    BY <1>12, PwmIrqEnds
  <2> QED
    BY <2>1, <2>2 DEF Progress, Counting
<1>13. CASE UNCHANGED vars
  BY <1>13, SameProgress DEF vars
<1> QED
  BY <1>1, <1>2, <1>3, <1>4, <1>6, <1>7, <1>8, <1>9, <1>10, <1>11, <1>12,
     <1>13 DEF Next

-----------------------------------------------------------------------------
(* Once disturbed, nothing is claimed of the queue until it is built again. *)
QueueInv == Typed /\ Control /\ (~disturbed => Queue /\ Armed /\ Progress)

LEMMA QueueInvKeeps ==
  ASSUME CapturesClosed
  PROVE  QueueInv /\ [Next]_vars => QueueInv'
<1> SUFFICES ASSUME QueueInv, [Next]_vars PROVE QueueInv'
  OBVIOUS
<1>1. Typed /\ Control /\ Typed' /\ Control'
  BY TypedKeeps, ControlKeeps DEF QueueInv
<1>2. ASSUME ~disturbed' PROVE Queue' /\ Armed' /\ Progress'
  <2>1. CASE Built
    <3>1. PICK p \in Programs : AddOperations(p)
      BY <2>1 DEF Built
    <3>2. Queue'
      BY <1>1, <3>1, AddKeepsQueue
    <3>3. ~IsQueueRunning'
      BY <3>1 DEF AddOperations, run
    <3> QED
      BY <3>2, <3>3 DEF Armed, Progress, Counting
  <2>2. CASE ~Built
    <3>1. ~disturbed
      BY <1>2, <2>2, StaysDisturbed
    <3>2. Queue /\ Armed /\ Progress
      BY <3>1 DEF QueueInv
    <3> QED
      BY <1>1, <1>2, <2>2, <3>2, QueueKeeps, ArmedKeeps, ProgressKeeps
  <2> QED
    BY <2>1, <2>2
<1> QED
  BY <1>1, <1>2 DEF QueueInv

LEMMA QueueInvHolds ==
  ASSUME CapturesClosed
  PROVE  Spec => []QueueInv
<1>1. Init => QueueInv
  <2> SUFFICES ASSUME Init PROVE QueueInv
    OBVIOUS
  <2>1. Queue
    BY DEF Init, Queue, Alone, Shape, Place
  <2>2. Armed /\ Progress
    BY DEF Init, Armed, Progress, Counting
  <2> QED
    BY <2>1, <2>2, InitBase DEF QueueInv
<1> QED
  BY <1>1, QueueInvKeeps, PTL DEF Spec

(* As long as nothing disturbs a queue, the interpreter stays within it    *)
(* and its repeats, and while an edge of the pin can enter it, it is at a  *)
(* capture: no edge cuts a delay short.                                    *)
THEOREM StaysInRange ==
  ASSUME CapturesClosed
  PROVE  Spec => []Inv
<1>1. QueueInv => TypeOK
  BY DEF QueueInv, Typed, TypeOK
<1>2. QueueInv => InRange
  <2> SUFFICES ASSUME QueueInv, IsQueueRunning, ~disturbed
               PROVE  /\ CurCount <= CmdQueuePos /\ Operation[CmdQueuePos] = "END"
                      /\ TotalRepeat > 0 => RepeatCnt <= TotalRepeat
    BY DEF InRange
  <2>1. CmdQueuePos \in Nat /\ RepeatCnt \in Nat /\ TotalRepeat \in Nat
    BY MaxIsNat DEF QueueInv, Typed
  <2>2. CurCount <= CmdQueuePos /\ Operation[CmdQueuePos] = "END"
    BY <2>1 DEF QueueInv, Queue, Place
  <2>3. handler \in {"queue", "end"}
    BY DEF QueueInv, Control
  <2>4. TotalRepeat > 0 => RepeatCnt < TotalRepeat \/ RepeatCnt = TotalRepeat
    BY <2>3 DEF QueueInv, Progress, Counting
  <2> QED
    BY <2>1, <2>2, <2>4
<1>3. QueueInv => EdgesAreCaptures
  BY DEF QueueInv, Armed, EdgesAreCaptures
<1>4. QueueInv => Inv
  BY <1>1, <1>2, <1>3 DEF Inv
<1> QED
  BY <1>4, QueueInvHolds, PTL

(* When a queue that nothing disturbed is about to report success, every   *)
(* repeat has made every pin change and waited once for every delay; any   *)
(* queue reports once per start.                                           *)
THEOREM DoneIsDone ==
  ASSUME CapturesClosed
  PROVE  Spec => []DoneMeansDone
<1>1. QueueInv => DoneMeansDone
  BY DEF QueueInv, Control, Progress, Counting, AllSums, DoneMeansDone
<1> QED
  BY <1>1, QueueInvHolds, PTL

-----------------------------------------------------------------------------
(* Queues that use no capture.                                             *)

CaptureFree ==
  /\ ~exti /\ ctx # "exti" /\ half = "no" /\ saved = <<>> /\ ~disturbed
  /\ \A i \in Slots : Operation[i] \notin {"SET", "CAP"}

LEMMA SameCaptureFree ==
  ASSUME CaptureFree, UNCHANGED <<Operation, exti, ctx, half, saved, disturbed>>
  PROVE  CaptureFree'
BY DEF CaptureFree

LEMMA CaptureFreeInterprets ==
  ASSUME Typed, CaptureFree, Interpret
  PROVE  CaptureFree'
<1> USE DEF bounds, who, cmds, Interprets, GoOn
<1>1. ASSUME CurCount \in Slots PROVE Operation[CurCount] \notin {"SET", "CAP"}
  BY <1>1 DEF CaptureFree
<1>2. ASSUME Leave
      PROVE  ctx' = "none" /\ half' = "no" /\ saved' = <<>>
  BY <1>2 DEF Leave, CaptureFree
<1>3. CASE OperationIO \/ OperationCaptureEnd
  <2>1. UNCHANGED <<Operation, ctx, half, saved, disturbed>>
    BY <1>3 DEF OperationIO, OperationCaptureEnd
  <2>2. exti' = exti \/ exti' = (exti /\ ~PinExists[CurCount])
    BY <1>3 DEF OperationIO, OperationCaptureEnd
  <2>3. ~exti'
    BY <2>2 DEF CaptureFree
  <2> QED
    BY <2>1, <2>3 DEF CaptureFree
<1>4. CASE OperationCB
  <2>1. Operation' = Operation \/ Operation' = [Operation EXCEPT ![CurCount + 1] = "END"]
    BY <1>4 DEF OperationCB
  <2>2. \A i \in Slots : Operation'[i] \notin {"SET", "CAP"}
    BY <2>1 DEF CaptureFree, Typed
  <2>3. UNCHANGED <<exti, ctx, half, saved, disturbed>>
    BY <1>4 DEF OperationCB
  <2> QED
    BY <2>2, <2>3 DEF CaptureFree
<1>5. CASE OperationDelay \/ OperationRepeat
  BY <1>2, <1>5 DEF OperationDelay, OperationRepeat, CaptureFree
<1>6. CASE OperationCaptureSet \/ OperationCapture
  BY <1>1, <1>6 DEF OperationCaptureSet, OperationCapture
<1>7. CASE OperationCaptureSetHalf \/ OperationCaptureHalf \/ OperationCaptureCB
  BY <1>7 DEF OperationCaptureSetHalf, OperationCaptureHalf, OperationCaptureCB, CaptureFree
<1>8. CASE OperationEnd
  BY <1>2, <1>8 DEF OperationEnd, CaptureFree
<1>9. CASE LoopOver
  BY <1>2, <1>9 DEF LoopOver, CaptureFree
<1> QED
  BY <1>3, <1>4, <1>5, <1>6, <1>7, <1>8, <1>9 DEF Interpret

LEMMA CaptureFreeKeeps ==
  ASSUME \A p \in Programs : \A i \in 1..Len(p) : p[i] \notin {"SET", "CAP"}
  PROVE  Typed /\ Control /\ CaptureFree /\ [Next]_vars => CaptureFree'
<1> SUFFICES ASSUME Typed, Control, CaptureFree, [Next]_vars PROVE CaptureFree'
  OBVIOUS
<1> USE DEF cmds, who, bounds
<1>1. CASE HWTimer_Stop \/ HWTimer_ClearOperationQueue \/ StartTest \/ StartEnd
           \/ Expire \/ EndIrq \/ PwmIrq
  <2>1. UNCHANGED <<Operation, exti, ctx, half, saved, disturbed>>
    BY <1>1 DEF HWTimer_Stop, HWTimer_ClearOperationQueue, StartTest, StartEnd, Expire,
       EndIrq, PwmIrq
  <2> QED
    BY <2>1, SameCaptureFree
<1>2. CASE \E r \in Repeats : HWTimer_InitOperationQueue(r)
  BY <1>2 DEF HWTimer_InitOperationQueue, CaptureFree
<1>3. CASE \E p \in Programs : AddOperations(p)
  <2>1. PICK p \in Programs : AddOperations(p)
    BY <1>3
  <2>2. p \in Seq(Ops) /\ Len(p) \in Nat /\ TotalCount \in Nat
    BY Numbers DEF Typed
  <2>3. CmdQueuePos' <= Len(p) /\ CmdQueuePos' \in Nat
    BY <2>1, <2>2, MinOfTwo DEF AddOperations
  <2>4. \A i \in Slots : Operation'[i] = IF i < CmdQueuePos' THEN p[i + 1] ELSE Operation[i]
    BY <2>1 DEF AddOperations
  <2>5. ASSUME NEW i \in Slots PROVE Operation'[i] \notin {"SET", "CAP"}
    <3>1. CASE i < CmdQueuePos'
      <4>1. i + 1 \in 1..Len(p)
        BY <2>2, <2>3, <3>1, MaxIsNat DEF Slots
      <4> QED
        BY <2>4, <3>1, <4>1
    <3>2. CASE ~(i < CmdQueuePos')
      BY <2>4, <3>2 DEF CaptureFree
    <3> QED
      BY <3>1, <3>2
  <2> QED
    BY <2>1, <2>5 DEF AddOperations, CaptureFree
<1>4. CASE StartBegin
  <2>1. \A i \in Slots : Operation'[i] = IF i = CmdQueuePos THEN "END" ELSE Operation[i]
    BY <1>4 DEF StartBegin, Typed
  <2>2. \A i \in Slots : Operation'[i] \notin {"SET", "CAP"}
    BY <2>1 DEF CaptureFree
  <2> QED
    BY <1>4, <2>2 DEF StartBegin, CaptureFree
<1>5. CASE Interpret
  BY <1>5, CaptureFreeInterprets
<1>6. CASE TimerIrq
  BY <1>6 DEF TimerIrq, CaptureFree
<1>7. CASE PinIrq
  BY <1>7 DEF PinIrq, CaptureFree
<1>8. CASE \E n \in Pulses : HWTimer_SetPWM(n)
  BY <1>8, SameCaptureFree DEF HWTimer_SetPWM
<1>9. CASE UNCHANGED vars
  BY <1>9, SameCaptureFree DEF vars
<1> QED
  BY <1>1, <1>2, <1>3, <1>4, <1>5, <1>6, <1>7, <1>8, <1>9 DEF Next

(* Nothing disturbs a queue that uses no capture, whatever interrupts: for *)
(* it the two theorems above hold without their exception.                 *)
THEOREM Undisturbed ==
  ASSUME \A p \in Programs : \A i \in 1..Len(p) : p[i] \notin {"SET", "CAP"}
  PROVE  Spec => []~disturbed
<1>1. Init => Typed /\ Control /\ CaptureFree
  BY InitBase DEF Init, CaptureFree
<1>2. CaptureFree => ~disturbed
  BY DEF CaptureFree
<1> QED
  BY <1>1, <1>2, TypedKeeps, ControlKeeps, CaptureFreeKeeps, PTL DEF Spec
=============================================================================

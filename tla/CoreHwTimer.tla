---------------------------- MODULE CoreHwTimer ----------------------------
(***************************************************************************)
(* One hardware timer of bsp/air105/hal/core_hwtimer.c: the interpreter of *)
(* a queue of operations (pin changes, delays, captures, call-backs) that  *)
(* runs in interrupts, and the counting of PWM pulses, which shares its    *)
(* counters.                                                               *)
(*                                                                         *)
(* The interpreter is entered from three places: the task that starts the  *)
(* queue, the timer interrupt (priority 0, above every other), and, while  *)
(* a capture is armed, the pin interrupt.  Nothing keeps them apart: the   *)
(* pin interrupts the task, and the timer interrupts the pin, inside the   *)
(* interpreter, which then goes on with a CurCount that was moved.  It is  *)
(* one loop in the code and one action per operation here, two for those   *)
(* of a capture, which such an interrupt can split.  Pin operations are    *)
(* one operation, IO; times are left out: a running timer may expire at    *)
(* any moment between two entries of the interpreter.                      *)
(***************************************************************************)
EXTENDS Integers, SequencesExt, FiniteSetsExt

CONSTANTS
  Programs,     (* the queues the user may build                           *)
  Repeats,      (* how often to run one, 0 for ever                        *)
  Pulses,       (* the pulse counts asked of the PWM, 0 for ever           *)
  MaxCmds,      (* the size a queue is initialised with                    *)
  MaxStarts     (* bound on the starts                                     *)

Delays == {"ONE", "CONT", "REPEAT"}
Ops == {"IO", "CB", "ONE", "CONT", "REPEAT", "SET", "CAP", "CAPEND", "END"}

ASSUME HwTimerAssumption ==
  /\ MaxCmds \in Nat \ {0} /\ MaxStarts \in Nat
  /\ \A p \in Programs : p \in Seq(Ops) /\ Len(p) <= MaxCmds
  /\ Repeats \subseteq Nat /\ Pulses \subseteq Nat

(* What the interpreter takes for granted of a queue: the pin of a capture *)
(* is armed right before the capture, and a capture has one behind it to   *)
(* go on with or its end, which it may have to put there.                  *)
CapturesClosed ==
  \A p \in Programs : \A i \in 1..Len(p) :
    /\ p[i] = "SET" => i < Len(p) /\ p[i + 1] = "CAP"
    /\ p[i] = "CAP" => i < Len(p) /\ p[i + 1] \in {"CAP", "CAPEND"}

VARIABLES
  Operation, PinExists,  (* Cmd: the operations; is PinOrDelay a pin?      *)
  TotalCount, TotalRepeat, CmdQueuePos, CurCount, RepeatCnt,
  IsQueueRunning, ContinueDelay,
  tim,       (* the timer: "off", "on", or "masked" (no interrupt)         *)
  high,      (* the level of the PWM output                                *)
  handler,   (* of the timer interrupt: "none", "queue", "end" or "pwm"    *)
  line,      (* the timer interrupt is on                                  *)
  pend,      (* ... and pending                                            *)
  exti,      (* an edge of the capture pin enters the interpreter          *)
  ctx,       (* who interprets: "none", "task", "tim", "exti"              *)
  half,      (* ... and is inside this operation, or "no"                  *)
  saved,     (* an interpreter was interrupted: <<>> or <<half>>           *)
  pc,                        (* the user's task                            *)
  starts, dones,             (* history: starts, calls of CmdDoneCB with 0 *)
  ios, waits, told,          (* history: IOs and waits of this start; has a
                                call-back asked to end the queue?          *)
  outside,   (* history: ExtiCB was written outside of its bounds          *)
  disturbed, (* history: since the queue was built, a start found a capture
                pin armed, an interpreter was interrupted by another, or a
                capture's call-back asked for the end                      *)
  asked, pulses              (* history: of the PWM                        *)

cmds  == <<Operation, PinExists>>
queue == <<TotalCount, TotalRepeat, CmdQueuePos>>
run   == <<CurCount, RepeatCnt, IsQueueRunning, ContinueDelay>>
chip  == <<tim, handler, line, pend>>
who   == <<ctx, half, saved>>
user  == <<pc, starts>>
trace == <<dones, ios, waits, told>>
pwm   == <<high, asked, pulses>>
bounds == <<outside, disturbed>>
vars == <<cmds, queue, run, chip, exti, who, user, trace, bounds, pwm>>

Slots == 0..MaxCmds
Halves == {"no", "SET", "CAP"}

Init ==
  /\ Operation = [i \in Slots |-> "END"] /\ PinExists = [i \in Slots |-> FALSE]
  /\ TotalCount = 0 /\ TotalRepeat = 0 /\ CmdQueuePos = 0
  /\ CurCount = 0 /\ RepeatCnt = 0
  /\ IsQueueRunning = FALSE /\ ContinueDelay = FALSE
  /\ tim = "off" /\ handler = "none" /\ line = FALSE /\ pend = FALSE
  /\ exti = FALSE
  /\ ctx = "none" /\ half = "no" /\ saved = <<>>
  /\ pc = "none"
  /\ starts = 0 /\ dones = 0 /\ ios = 0 /\ waits = 0 /\ told = FALSE
  /\ outside = FALSE /\ disturbed = FALSE
  /\ high = FALSE /\ asked = 0 /\ pulses = 0

-----------------------------------------------------------------------------
(* The user's task.                                                        *)

(* HWTimer_Stop: it silences the timer, not the pin of a capture.          *)
Stopped ==
  /\ line' = FALSE /\ pend' = FALSE /\ tim' = "off"
  /\ IsQueueRunning' = FALSE /\ ContinueDelay' = FALSE

HWTimer_Stop ==
  /\ pc \in {"none", "idle"} /\ ctx = "none"
  /\ Stopped
  /\ high' = FALSE /\ asked' = 0
  /\ UNCHANGED <<cmds, queue, CurCount, RepeatCnt, handler, exti, who, user, trace,
                 bounds, pulses>>

(* HWTimer_InitOperationQueue; zalloc makes every operation an END.  A     *)
(* running queue is stopped first: see StartTest for that.  The timer is   *)
(* not in use for a PWM, whose TotalCount this would replace.              *)
HWTimer_InitOperationQueue(rep) ==
  /\ pc \in {"none", "idle"} /\ ctx = "none" /\ ~IsQueueRunning
  /\ tim = "off"
  /\ TotalCount' = MaxCmds /\ TotalRepeat' = rep /\ CmdQueuePos' = 0
  /\ Operation' = [i \in Slots |-> "END"]
  /\ PinExists' = [i \in Slots |-> FALSE]
  /\ pc' = "idle"
  /\ UNCHANGED <<run, chip, exti, who, starts, trace, bounds, pwm>>

(* HWTimer_AddOperation of every operation of a program; what does not fit *)
(* is dropped.  A CAP is added with pin 0xff.                              *)
AddOperations(p) ==
  /\ pc = "idle" /\ ctx = "none" /\ ~IsQueueRunning /\ CmdQueuePos = 0
  /\ CmdQueuePos' = Min({Len(p), TotalCount})
  /\ Operation' = [i \in Slots |-> IF i < CmdQueuePos' THEN p[i + 1] ELSE Operation[i]]
  /\ PinExists' = [i \in Slots |-> IF i < CmdQueuePos' THEN p[i + 1] # "CAP"
                                                       ELSE PinExists[i]]
  /\ disturbed' = FALSE
  /\ UNCHANGED <<TotalCount, TotalRepeat, run, chip, exti, who, pc, starts,
                 trace, outside, pwm>>

HWTimer_ClearOperationQueue ==
  /\ pc = "idle" /\ ctx = "none" /\ ~IsQueueRunning
  /\ CmdQueuePos > 0
  /\ CmdQueuePos' = 0
  /\ UNCHANGED <<cmds, TotalCount, TotalRepeat, run, chip, exti, who, pc,
                 starts, trace, bounds, pwm>>

(* HWTimer_StartOperationQueue reads IsQueueRunning, on which only the     *)
(* call-back of the start before depends, ...                              *)
StartTest ==
  /\ pc = "idle" /\ ctx = "none" /\ starts < MaxStarts
  /\ CmdQueuePos > 0
  /\ pc' = "start" /\ starts' = starts + 1
  /\ UNCHANGED <<cmds, queue, run, chip, exti, who, trace, bounds, pwm>>

(* ... stops the timer, calls CmdDoneCB with an error if it was running,   *)
(* and enters the interpreter with the timer interrupt off; ...            *)
StartBegin ==
  /\ pc = "start" /\ ctx = "none"
  /\ line' = FALSE /\ pend' = FALSE /\ tim' = "off"
  /\ handler' = "queue"
  /\ Operation' = [Operation EXCEPT ![CmdQueuePos] = "END"]
  /\ CurCount' = 0 /\ RepeatCnt' = 0
  /\ IsQueueRunning' = TRUE /\ ContinueDelay' = FALSE
  /\ ctx' = "task" /\ pc' = "run"
  /\ dones' = 0 /\ ios' = 0 /\ waits' = 0 /\ told' = FALSE
  /\ disturbed' = (disturbed \/ exti)
  /\ asked' = 0 /\ high' = FALSE
  /\ UNCHANGED <<PinExists, queue, exti, half, saved, starts,
                 outside, pulses>>

StartSilent ==                 \* mutant: the interrupt is not turned on
  /\ pc = "run" /\ ctx = "none"
  /\ pc' = "idle"
  /\ UNCHANGED <<cmds, queue, run, chip, exti, who, starts,
                 trace, bounds, pwm>>

(* ... when the first wait is reached, the interrupt goes on.              *)
StartEnd ==
  /\ pc = "run" /\ ctx = "none"
  /\ line' = TRUE
  /\ pc' = "idle"
  /\ UNCHANGED <<cmds, queue, run, tim, handler, pend, exti, who, starts, trace, bounds, pwm>>

-----------------------------------------------------------------------------
(* The interpreter, prvHWTimer_StartOperationQueue.                        *)

(* An interpreter that was moved past the array takes nothing from there:  *)
(* what lies behind it is not modelled.                                    *)
Interprets(op) ==
  /\ ctx # "none" /\ half = "no" /\ IsQueueRunning
  /\ CurCount \in Slots /\ Operation[CurCount] = op

(* OPERATION_OUT_IRQ: back to what was interrupted.                        *)
Leave ==
  IF saved # <<>>
    THEN ctx' = (IF ctx = "tim" THEN "exti" ELSE "task") /\ half' = saved[1] /\ saved' = <<>>
    ELSE ctx' = "none" /\ half' = "no" /\ saved' = <<>>

GoOn == UNCHANGED who

(* What an endless queue does is not counted, nor what a disturbed one     *)
(* does, to keep it finite; such a one repeats beyond its end.             *)
Counted(n) == IF TotalRepeat = 0 \/ disturbed THEN n ELSE n + 1
Repeated == IF TotalRepeat = 0 THEN 0 ELSE Min({RepeatCnt, TotalRepeat}) + 1

OperationIO ==
  /\ Interprets("IO")
  /\ CurCount' = CurCount + 1
  /\ ios' = Counted(ios)
  /\ GoOn
  /\ UNCHANGED <<cmds, queue, RepeatCnt, IsQueueRunning, ContinueDelay, chip, exti,
                 user, dones, waits, told, bounds, pwm>>

(* The call-back may call HWTimer_AddEndCmdInOperationQueue.               *)
OperationCB ==
  /\ Interprets("CB")
  /\ \/ UNCHANGED <<Operation, told>>
     \/ /\ Operation' = [Operation EXCEPT ![CurCount + 1] = "END"]
        /\ told' = TRUE
  /\ CurCount' = CurCount + 1
  /\ GoOn
  /\ UNCHANGED <<PinExists, queue, RepeatCnt, IsQueueRunning, ContinueDelay, chip,
                 exti, user, dones, ios, waits, bounds, pwm>>

(* prvHWTimer_OperationDelayOnce and prvHWTimer_OperationDelay, with       *)
(* START_HWTIMER.                                                          *)
OperationDelay ==
  /\ Interprets("ONE") \/ Interprets("CONT")
  /\ ContinueDelay' = (Operation[CurCount] = "CONT")
  /\ tim' = "on"
  /\ CurCount' = CurCount + 1
  /\ Leave
  /\ UNCHANGED <<cmds, queue, RepeatCnt, IsQueueRunning, handler, line, pend, exti,
                 user, trace, bounds, pwm>>

OperationRepeat ==
  /\ Interprets("REPEAT")
  /\ CurCount' = CurCount + 1
  /\ Leave
  /\ UNCHANGED <<cmds, queue, RepeatCnt, IsQueueRunning, ContinueDelay, chip, exti,
                 user, trace, bounds, pwm>>

(* prvHWTimer_OperationCaptureSet: from here on edges may enter, ...       *)
OperationCaptureSet ==
  /\ Interprets("SET")
  /\ tim' = "on" /\ exti' = TRUE
  /\ ContinueDelay' = FALSE
  /\ half' = "SET"
  /\ UNCHANGED <<cmds, queue, CurCount, RepeatCnt, IsQueueRunning, handler, line, pend,
                 ctx, saved, user, trace, bounds, pwm>>

(* ... and in the task they do so before the capture is the next one.      *)
OperationCaptureSetHalf ==
  /\ half = "SET"
  /\ CurCount' = CurCount + 1
  /\ Leave
  /\ UNCHANGED <<cmds, queue, RepeatCnt, IsQueueRunning, ContinueDelay, chip, exti,
                 user, trace, bounds, pwm>>

(* prvHWTimer_OperationCapture: the pin is noted; a timer that is off says *)
(* that the time is over, and the next operation becomes a CAPEND, ...     *)
OperationCapture ==
  /\ Interprets("CAP")
  /\ PinExists' = [PinExists EXCEPT ![CurCount] = (ctx = "exti")]
  /\ Operation' = IF tim = "off" THEN [Operation EXCEPT ![CurCount + 1] = "CAPEND"]
                                 ELSE Operation
  /\ half' = "CAP"
  /\ UNCHANGED <<queue, run, chip, exti, ctx, saved, user, trace, bounds, pwm>>

(* ... which is executed at once.                                          *)
OperationCaptureHalf ==
  /\ half = "CAP" /\ CurCount + 1 \in Slots
  /\ CurCount' = CurCount + 1
  /\ IF Operation[CurCount + 1] = "CAPEND" THEN half' = "no" /\ UNCHANGED <<ctx, saved>>
                                           ELSE Leave
  /\ UNCHANGED <<cmds, queue, RepeatCnt, IsQueueRunning, ContinueDelay, chip, exti,
                 user, trace, bounds, pwm>>

(* prvHWTimer_OperationCaptureCB: the call-back of a capture may call      *)
(* HWTimer_AddEndCmdInOperationQueue, which "may only be called in an      *)
(* OP_QUEUE_CMD_CB" (core_hwtimer.h:97): the END replaces the next capture *)
(* or the end of this one, and the pin stays armed.                        *)
OperationCaptureCB ==
  /\ half = "CAP" /\ CurCount + 1 \in Slots
  /\ Operation' = [Operation EXCEPT ![CurCount + 1] = "END"]
  /\ CurCount' = CurCount + 1
  /\ Leave
  /\ told' = TRUE /\ disturbed' = TRUE
  /\ UNCHANGED <<PinExists, queue, RepeatCnt, IsQueueRunning, ContinueDelay, chip, exti,
                 user, dones, ios, waits, outside, pwm>>

CaptureEndArmed ==             \* mutant: the pin's interrupt stays armed
  /\ Interprets("CAPEND")
  /\ outside' = (outside \/ ~PinExists[CurCount])
  /\ tim' = "off"
  /\ CurCount' = CurCount + 1
  /\ GoOn
  /\ UNCHANGED <<cmds, queue, RepeatCnt, IsQueueRunning, ContinueDelay, handler, line,
                 pend, exti, user, trace, disturbed, pwm>>

OperationCaptureEnd ==
  /\ Interprets("CAPEND")
  /\ exti' = (exti /\ ~PinExists[CurCount])
  /\ outside' = (outside \/ ~PinExists[CurCount])
  /\ tim' = "off"
  /\ CurCount' = CurCount + 1
  /\ GoOn
  /\ UNCHANGED <<cmds, queue, RepeatCnt, IsQueueRunning, ContinueDelay, handler, line,
                 pend, user, trace, disturbed, pwm>>

OneMoreRepeat(n) == n > TotalRepeat   \* mutant: one repeat too many
AllRepeated(n) == n >= TotalRepeat

OperationEnd ==
  /\ Interprets("END")
  /\ CurCount' = 0
  /\ RepeatCnt' = Repeated
  /\ IF TotalRepeat # 0 /\ AllRepeated(Repeated)
       THEN handler' = "end" /\ tim' = "on" /\ Leave
       ELSE GoOn /\ UNCHANGED <<handler, tim>>
  /\ UNCHANGED <<cmds, queue, IsQueueRunning, ContinueDelay, line, pend, exti, user,
                 trace, bounds, pwm>>

(* The loop ends: the queue was stopped.                                   *)
LoopOver ==
  /\ ctx # "none" /\ half = "no" /\ ~IsQueueRunning
  /\ Leave
  /\ UNCHANGED <<cmds, queue, run, chip, exti, user, trace, bounds, pwm>>

Interpret ==
  \/ OperationIO \/ OperationCB \/ OperationDelay \/ OperationRepeat
  \/ OperationCaptureSet \/ OperationCaptureSetHalf
  \/ OperationCapture \/ OperationCaptureHalf \/ OperationCaptureCB
  \/ OperationCaptureEnd \/ OperationEnd \/ LoopOver

-----------------------------------------------------------------------------
(* Interrupts.                                                             *)

(* The timer runs on after it expires.  It does not expire while the       *)
(* interpreter runs in the task or in its own interrupt, nor twice before  *)
(* a half period of the PWM is served.                                     *)
Expire ==
  /\ tim = "on" /\ ctx \notin {"task", "tim"}
  /\ ~pend
  /\ pend' = TRUE
  /\ IF handler = "pwm" THEN high' = ~high /\ pulses' = pulses + (IF high THEN 1 ELSE 0)
                        ELSE UNCHANGED <<high, pulses>>
  /\ UNCHANGED <<cmds, queue, run, tim, handler, line, exti, who, user, trace,
                 bounds, asked>>

(* The operation before the cursor is a delay, which is over.              *)
Waited == CurCount - 1 \in Slots /\ Operation[CurCount - 1] \in Delays

(* prvHWTimer_IrqHandlerOperationQueue, above the pin's interrupt.         *)
TimerIrq ==
  /\ handler = "queue" /\ line /\ pend
  /\ ctx \in {"none", "exti"}
  /\ pend' = FALSE
  /\ tim' = IF ContinueDelay THEN tim ELSE "off"
  /\ ctx' = "tim" /\ half' = "no"
  /\ saved' = IF ctx = "exti" THEN <<half>> ELSE <<>>
  /\ disturbed' = (disturbed \/ ctx = "exti")
  /\ waits' = IF Waited THEN Counted(waits) ELSE waits
  /\ UNCHANGED <<cmds, queue, run, handler, line, exti, user, dones, ios, told,
                 outside, pwm>>

(* prvHWTimer_IrqHandlerEndOperationQueue, of a lower priority.            *)
EndIrq ==
  /\ handler = "end" /\ line /\ pend /\ ctx = "none"
  /\ Stopped
  /\ dones' = dones + 1
  /\ UNCHANGED <<cmds, queue, CurCount, RepeatCnt, handler, exti, who, user, ios,
                 waits, told, bounds, pwm>>

(* prvHWTimer_OperationQueuExti, from the pin's interrupt.  The task that  *)
(* interprets has only the timer's line off.                               *)
PinIrq ==
  /\ exti /\ ctx \in {"none", "task"}
  /\ ctx' = "exti" /\ half' = "no"
  /\ saved' = IF ctx = "task" THEN <<half>> ELSE <<>>
  /\ disturbed' = (disturbed \/ ctx = "task")
  /\ UNCHANGED <<cmds, queue, run, chip, exti, user, trace, outside, pwm>>

-----------------------------------------------------------------------------
(* PWM.                                                                    *)

(* HWTimer_SetPWM of a timer that is stopped.  Its TotalCount is the one   *)
(* of the queue, which has to be initialised before it is used again.      *)
HWTimer_SetPWM(n) ==
  /\ pc \in {"none", "idle"} /\ ctx = "none"
  /\ ~IsQueueRunning /\ tim = "off"
  /\ TotalCount' = n /\ CurCount' = 0 /\ ContinueDelay' = FALSE
  /\ pc' = "none"
  /\ IF n > 0 THEN handler' = "pwm" /\ line' = TRUE /\ tim' = "on"
              ELSE tim' = "masked" /\ UNCHANGED <<handler, line>>
  /\ high' = FALSE /\ asked' = n /\ pulses' = 0
  /\ UNCHANGED <<cmds, TotalRepeat, CmdQueuePos, RepeatCnt, IsQueueRunning, pend,
                 exti, who, starts, trace, bounds>>

(* prvHWTimer_IrqHandlerPWM: every second interrupt ends a pulse.          *)
PwmOver(n) == n > TotalCount    \* mutant: one pulse too many
AllPulses(n) == n >= TotalCount

PwmIrq ==
  /\ handler = "pwm" /\ line /\ pend /\ ctx = "none"
  /\ pend' = FALSE
  /\ CurCount' = (IF ContinueDelay THEN CurCount + 1 ELSE CurCount)
  /\ IF ContinueDelay /\ AllPulses(CurCount + 1)
       THEN /\ tim' = "off" /\ line' = FALSE
            /\ TotalCount' = 0 /\ IsQueueRunning' = FALSE
            /\ UNCHANGED ContinueDelay
       ELSE /\ ContinueDelay' = ~ContinueDelay
            /\ UNCHANGED <<tim, line, TotalCount, IsQueueRunning>>
  /\ UNCHANGED <<cmds, TotalRepeat, CmdQueuePos, RepeatCnt, handler, exti, who, user,
                 trace, bounds, pwm>>

-----------------------------------------------------------------------------
Next ==
  \/ HWTimer_Stop \/ HWTimer_ClearOperationQueue
  \/ \E r \in Repeats : HWTimer_InitOperationQueue(r)
  \/ \E p \in Programs : AddOperations(p)
  \/ StartTest \/ StartBegin \/ StartEnd
  \/ Interpret
  \/ Expire \/ TimerIrq \/ EndIrq \/ PinIrq
  \/ \E n \in Pulses : HWTimer_SetPWM(n)
  \/ PwmIrq

(* The timer counts, interrupts are served, and what runs goes on.         *)
Fairness ==
  /\ WF_vars(StartBegin) /\ WF_vars(StartEnd) /\ WF_vars(Interpret)
  /\ WF_vars(Expire) /\ WF_vars(TimerIrq) /\ WF_vars(EndIrq) /\ WF_vars(PwmIrq)

Spec == Init /\ [][Next]_vars
FairSpec == Spec /\ Fairness

-----------------------------------------------------------------------------
(* Properties.                                                             *)

(* Types.                                                                  *)
TypeOK ==
  /\ Operation \in [Slots -> Ops] /\ PinExists \in [Slots -> BOOLEAN]
  /\ TotalCount \in Nat /\ CmdQueuePos \in 0..MaxCmds
  /\ CurCount \in Nat /\ RepeatCnt \in Nat
  /\ half \in Halves
  /\ tim \in {"off", "on", "masked"}
  /\ handler \in {"none", "queue", "end", "pwm"}
  /\ ctx \in {"none", "task", "tim", "exti"}
  /\ pc \in {"none", "idle", "start", "run"}
  /\ {IsQueueRunning, ContinueDelay, high, line, pend, exti} \subseteq BOOLEAN

(* The interpreter stays within the queue, whose last operation is an END, *)
(* and its repeats: "Count: the steps done within one loop"                *)
(* (core_hwtimer.h:57) is at most the length of the queue.  Not when it    *)
(* was disturbed: an interpreter that goes on where another one has been   *)
(* skips what the other one left it.                                       *)
InRange ==
  IsQueueRunning /\ ~disturbed =>
    /\ CurCount <= CmdQueuePos /\ Operation[CmdQueuePos] = "END"
    /\ TotalRepeat > 0 => RepeatCnt <= TotalRepeat

(* How many operations of some kinds a loop of the queue has.              *)
Count(kinds) ==
  Cardinality({i \in 0..(CmdQueuePos - 1) :
                 Operation[i] \in kinds /\ \A j \in 0..i : Operation[j] # "END"})

(* While an edge of the pin enters the interpreter, what it finds there is *)
(* a capture: no edge cuts a delay short, unless the queue was disturbed.  *)
EdgesAreCaptures ==
  ~disturbed /\ exti /\ IsQueueRunning /\ ctx = "none" => Operation[CurCount] = "CAP"

Inv == TypeOK /\ InRange /\ EdgesAreCaptures

(* When the queue is about to call CmdDoneCB with success, every repeat    *)
(* has done every pin change and waited once for every delay; it calls it  *)
(* once per start, also when it was disturbed.                             *)
DoneMeansDone ==
  /\ dones <= 1
  /\ handler = "end" /\ IsQueueRunning /\ ~told /\ ~disturbed =>
       /\ ios = TotalRepeat * Count({"IO"})
       /\ waits = TotalRepeat * Count(Delays)

(* The PWM gives as many pulses as were asked for.                         *)
PulsesExact ==
  asked > 0 => /\ pulses <= asked
               /\ tim = "off" => pulses = asked

(* A queue with a number of repeats comes to its end, or it is disturbed:  *)
(* an edge that does not come is replaced by the time limit of its         *)
(* capture.                                                                *)
Finishes == IsQueueRunning /\ TotalRepeat > 0 ~> ~IsQueueRunning \/ disturbed

(* The pins whose call-back is reset exist: "GPIO_NONE: at or above it,    *)
(* there is no such pin" (platform_define.h:334).                          *)
PinIsReal == ~outside

(* InRange without its exception: what the code would do if an interpreter *)
(* kept the others out.                                                    *)
NeverPasses == IsQueueRunning => CurCount <= CmdQueuePos

(* "Call this in the CB to end the queue safely" (core_hwtimer.h:97).      *)
EndsWhenTold == told /\ IsQueueRunning ~> ~IsQueueRunning
=============================================================================

------------------------------ MODULE CoreI2c ------------------------------
(***************************************************************************)
(* The I2C master of bsp/air105/hal/core_i2c.c: I2C_BlockWrite,            *)
(* I2C_BlockRead, I2C_Prepare, I2C_MasterXfer, I2C_IrqHandle and           *)
(* prvI2C_TimerUpCB, with luat_i2c_no_block_transfer of                    *)
(* application/src/luat_i2c_air105.c.                                      *)
(*                                                                         *)
(* One task, the I2C interrupt and the timer interrupt (of one priority,   *)
(* so neither interrupts the other) share one control block.  The          *)
(* controller is external: it takes a command from its FIFO, shifts it,    *)
(* and reports an acknowledge, a byte read, or an abort.  A write ends     *)
(* when the FIFO is empty, which is before its last byte is on the bus.    *)
(* The handler of the timer aborts what is under way and waits, without a  *)
(* limit, until the other end has let go of the clock.                     *)
(* The branch of I2C_MasterXfer that aborts a running transfer needs two   *)
(* tasks past the test of IsBusy and is not modelled.                      *)
(***************************************************************************)
EXTENDS Integers

CONSTANTS
  Lengths,    (* of the data                                               *)
  RegLens,    (* of the register address sent before a read                *)
  Toms,       (* the timeout, in ticks                                     *)
  MaxCalls    (* bound on the transfers started                            *)

ASSUME I2cAssumption ==
  /\ Lengths \subseteq Nat \ {0} /\ RegLens \subseteq Nat \ {0}
  /\ Toms \in Nat \ {0} /\ MaxCalls \in Nat

Ops == {"READ_REG", "READ", "WRITE"}
States == {"FREE", "WRITE", "ADDRESS_WR", "READ"}

(* A command of the controller's FIFO: a byte to write or a read, and      *)
(* whether the bus is released after it.                                   *)
Commands == [op : {"w", "r"}, stop : BOOLEAN]
NoCommand == [op |-> "none", stop |-> FALSE]

VARIABLES
  pc, op, len, regLen, block, last,   (* the task and its call             *)
  State, IsBusy, IsBlockMode, Result, Pos, RegPos,      (* prvI2C          *)
  Sem, timer,              (* its semaphore; its timer, 0 when stopped     *)
  mask,                    (* IC_INTR_MASK: "tx", "rx" or "none"           *)
  fifo, shift, abrt, rxf,  (* the controller                               *)
  irq, seen,               (* in I2C_IrqHandle; the abort source it read   *)
  aborting,                (* in prvI2C_TimerUpCB, waiting for the abort   *)
  started, cbs, stops, acked, nacked, age, (* history of the transfer; age:
                                              ticks since a byte was done  *)
  overdue,  (* history: a transfer timed out while it was being programmed *)
  crossed   (* history: an abort came while I2C_IrqHandle read its source  *)

call  == <<op, len, regLen, block>>
ctrl  == <<State, IsBusy, IsBlockMode, Result, Pos, RegPos>>
chip  == <<fifo, shift, abrt, rxf>>
isr   == <<irq, seen, aborting>>
trace == <<cbs, stops, acked, nacked, age>>
races == <<overdue, crossed>>
vars == <<pc, call, last, ctrl, Sem, timer, mask, chip, isr, started, trace,
          races>>

Init ==
  /\ pc = "idle" /\ op = "WRITE" /\ len = 0 /\ regLen = 0 /\ block = FALSE
  /\ last = "none"
  /\ State = "FREE" /\ IsBusy = FALSE /\ IsBlockMode = FALSE /\ Result = "ok"
  /\ Pos = 0 /\ RegPos = 0
  /\ Sem = 0 /\ timer = 0 /\ mask = "none"
  /\ fifo = NoCommand /\ shift = NoCommand /\ abrt = FALSE /\ rxf = 0
  /\ irq = FALSE /\ seen = FALSE /\ aborting = FALSE
  /\ started = 0 /\ cbs = 0 /\ stops = 0 /\ acked = 0 /\ nacked = FALSE
  /\ age = 0 /\ overdue = FALSE /\ crossed = FALSE

-----------------------------------------------------------------------------
(* Writing IC_DATA_CMD.  While an abort is not cleared the FIFO stays      *)
(* flushed.                                                                *)
Push(c, flushed) ==
  /\ fifo' = IF flushed THEN NoCommand ELSE c
  /\ stops' = stops + (IF c.stop THEN 1 ELSE 0)

NeverLast(n) == FALSE          \* mutant: the bus is never released
IsLast(n) == len - n <= 1      \* nothing is left behind the byte at n

(* prvI2C_Done, but for the mask and the timer.                            *)
prvI2C_Done(result) ==
  /\ State' = "FREE" /\ Result' = result /\ IsBusy' = FALSE
  /\ Sem' = IF IsBlockMode THEN 1 ELSE Sem
  /\ cbs' = cbs + 1

-----------------------------------------------------------------------------
(* The task.  It runs only while no handler does.                          *)

NoHandler == ~irq /\ ~aborting

(* I2C_BlockWrite, I2C_BlockRead and luat_i2c_no_block_transfer up to      *)
(* I2C_Prepare.  The first two spin until the controller is free, the last *)
(* one returns -1 when it is not, which changes nothing.                   *)
Call(o, n, r, b) ==
  /\ pc = "idle" /\ NoHandler /\ started < MaxCalls
  /\ ~IsBusy
  /\ op' = o /\ len' = n /\ regLen' = (IF o = "READ_REG" THEN r ELSE 0)
  /\ block' = b /\ IsBlockMode' = b
  /\ pc' = "prepare"
  /\ last' = "none"
  /\ UNCHANGED <<State, IsBusy, Result, Pos, RegPos, Sem, timer, mask, chip,
                 isr, started, trace, races>>

(* Disabling the controller empties both FIFOs; it waits for the byte on   *)
(* the bus.                                                                *)
I2C_Prepare ==
  /\ pc = "prepare" /\ NoHandler
  /\ shift = NoCommand
  /\ fifo' = NoCommand /\ rxf' = 0
  /\ pc' = "xfer"
  /\ UNCHANGED <<call, last, ctrl, Sem, timer, mask, shift, abrt, isr,
                 started, trace, races>>


I2C_MasterXfer ==
  /\ pc = "xfer" /\ NoHandler /\ ~IsBusy
  /\ IsBusy' = TRUE
  /\ Pos' = 0 /\ RegPos' = 0
  /\ abrt' = FALSE /\ mask' = "none"
  /\ timer' = Toms
  /\ pc' = "program"
  /\ started' = started + 1
  /\ cbs' = 0 /\ stops' = 0 /\ acked' = 0 /\ nacked' = FALSE /\ age' = 0
  /\ UNCHANGED <<call, last, State, IsBlockMode, Result, Sem, fifo, shift,
                 rxf, isr, races>>

(* ... to its end, after the first command and the mask.  The timer may    *)
(* have fired in between.                                                  *)
Programmed(state, m, c) ==
  /\ pc = "program" /\ NoHandler
  /\ State' = state /\ mask' = m
  /\ Push(c, abrt)
  /\ pc' = IF block THEN "lock" ELSE "idle"
  /\ UNCHANGED <<call, last, IsBusy, IsBlockMode, Result, Sem, timer, shift,
                 abrt, rxf, isr, started, cbs, acked, nacked, age, races>>

ProgramReadReg ==
  /\ op = "READ_REG"
  /\ RegPos' = 1 /\ UNCHANGED Pos
  /\ Programmed("ADDRESS_WR", "tx", [op |-> "w", stop |-> FALSE])

ProgramRead ==
  /\ op = "READ"
  /\ UNCHANGED <<Pos, RegPos>>
  /\ Programmed("READ", "rx", [op |-> "r", stop |-> IsLast(Pos)])

ProgramWrite ==
  /\ op = "WRITE"
  /\ Pos' = Pos + 1 /\ UNCHANGED RegPos
  /\ Programmed("WRITE", "tx", [op |-> "w", stop |-> IsLast(Pos)])

(* OS_MutexLock(prvI2C.Sem), without a timeout.                            *)
Lock ==
  /\ pc = "lock" /\ NoHandler
  /\ Sem = 1
  /\ Sem' = 0
  /\ pc' = "spin"
  /\ UNCHANGED <<call, last, ctrl, timer, mask, chip, isr, started, trace,
                 races>>

(* The second loop on I2C_WaitResult, and the return.                      *)
Return ==
  /\ pc = "spin" /\ NoHandler
  /\ ~IsBusy
  /\ last' = Result
  /\ pc' = "idle"
  /\ UNCHANGED <<call, ctrl, Sem, timer, mask, chip, isr, started, trace,
                 races>>

-----------------------------------------------------------------------------
(* Time and the timer interrupt.                                           *)

Tick ==
  /\ timer > 1
  /\ timer' = timer - 1
  /\ age' = age + 1
  /\ UNCHANGED <<pc, call, last, ctrl, Sem, mask, chip, isr, started, cbs,
                 stops, acked, nacked, races>>

(* The abort flushes the FIFO; the byte on the bus goes on until the other *)
(* end lets it.  It sets bit 16 of the source, which I2C_IrqHandle does    *)
(* not look at.                                                            *)
TimerUpUnmasked ==             \* mutant: IC_INTR_MASK left as it was
  /\ timer = 1 /\ NoHandler
  /\ timer' = 0
  /\ fifo' = NoCommand /\ aborting' = TRUE
  /\ UNCHANGED mask
  /\ prvI2C_Done("timeout")
  /\ overdue' = (overdue \/ pc = "program")
  /\ UNCHANGED <<pc, call, last, IsBlockMode, Pos, RegPos, shift, abrt, rxf, irq,
                 seen, started, stops, acked, nacked, age, crossed>>

TimerUp ==
  /\ timer = 1 /\ NoHandler
  /\ timer' = 0
  /\ fifo' = NoCommand /\ aborting' = TRUE
  /\ mask' = "none"
  /\ prvI2C_Done("timeout")
  /\ overdue' = (overdue \/ pc = "program")
  /\ UNCHANGED <<pc, call, last, IsBlockMode, Pos, RegPos, shift, abrt, rxf, irq,
                 seen, started, stops, acked, nacked, age, crossed>>

(* The handler returns when the controller has taken the abort back.       *)
AbortEnds ==
  /\ aborting /\ shift = NoCommand
  /\ aborting' = FALSE
  /\ UNCHANGED <<pc, call, last, ctrl, Sem, timer, mask, chip, irq, seen, started,
                 trace, races>>

-----------------------------------------------------------------------------
(* I2C_IrqHandle.                                                          *)

Pending ==
  \/ mask # "none" /\ abrt
  \/ mask = "tx" /\ fifo = NoCommand
  \/ mask = "rx" /\ rxf > 0

(* It reads IC_TX_ABRT_SOURCE ...                                          *)
IrqEnter ==
  /\ NoHandler /\ Pending
  /\ irq' = TRUE /\ seen' = abrt /\ UNCHANGED aborting
  /\ UNCHANGED <<pc, call, last, ctrl, Sem, timer, mask, chip, started,
                 trace, races>>

(* ... and clears all of it with IC_CLR_INTR.                              *)
IrqDoneTimed(result, pos) ==   \* mutant: the timer is not stopped
  /\ mask' = "none" /\ UNCHANGED timer
  /\ prvI2C_Done(result)
  /\ Pos' = pos
  /\ UNCHANGED <<RegPos, fifo, stops>>

IrqDone(result, pos) ==
  /\ timer' = 0 /\ mask' = "none"
  /\ prvI2C_Done(result)
  /\ Pos' = pos
  /\ UNCHANGED <<RegPos, fifo, stops>>

IrqGoesOn == UNCHANGED <<Sem, timer, IsBusy, Result, cbs>>

IrqAbort ==
  /\ seen
  /\ IrqDone("failed", Pos)
  /\ UNCHANGED rxf

IrqWrite ==
  /\ ~seen /\ State = "WRITE" /\ fifo = NoCommand
  /\ IF Pos >= len THEN IrqDone("ok", Pos)
     ELSE /\ Push([op |-> "w", stop |-> IsLast(Pos)], FALSE)
          /\ Pos' = Pos + 1
          /\ IrqGoesOn /\ UNCHANGED <<State, RegPos, mask>>
  /\ UNCHANGED rxf

IrqAddress ==
  /\ ~seen /\ State = "ADDRESS_WR" /\ fifo = NoCommand
  /\ IF RegPos >= regLen
       THEN /\ State' = "READ" /\ mask' = "rx"
            /\ Push([op |-> "r", stop |-> IsLast(Pos)], FALSE)
            /\ UNCHANGED RegPos
       ELSE /\ Push([op |-> "w", stop |-> FALSE], FALSE)
            /\ RegPos' = RegPos + 1
            /\ UNCHANGED <<State, mask>>
  /\ IrqGoesOn /\ UNCHANGED <<Pos, rxf>>

IrqRead ==
  /\ ~seen /\ State = "READ" /\ rxf > 0
  /\ rxf' = rxf - 1
  /\ IF Pos + 1 >= len THEN IrqDone("ok", Pos + 1)
     ELSE /\ Push([op |-> "r", stop |-> IsLast(Pos + 1)], FALSE)
          /\ Pos' = Pos + 1
          /\ IrqGoesOn /\ UNCHANGED <<State, RegPos, mask>>

(* Nothing the state waits for.                                            *)
IrqNothing ==
  /\ ~seen
  /\ State \in {"WRITE", "ADDRESS_WR"} => fifo # NoCommand
  /\ State = "READ" => rxf = 0
  /\ IrqGoesOn /\ UNCHANGED <<State, Pos, RegPos, mask, fifo, rxf, stops>>

I2C_IrqHandle ==
  /\ irq
  /\ irq' = FALSE /\ seen' = FALSE /\ abrt' = FALSE /\ UNCHANGED aborting
  /\ IrqAbort \/ IrqWrite \/ IrqAddress \/ IrqRead \/ IrqNothing
  /\ UNCHANGED <<pc, call, last, IsBlockMode, shift, started, acked, nacked,
                 age, races>>

-----------------------------------------------------------------------------
(* The controller and the other end of the bus.                            *)

ChipTakes ==
  /\ fifo # NoCommand /\ shift = NoCommand
  /\ shift' = fifo /\ fifo' = NoCommand
  /\ UNCHANGED <<pc, call, last, ctrl, Sem, timer, mask, abrt, rxf, isr,
                 started, trace, races>>

ChipMoves ==
  /\ shift # NoCommand
  /\ shift' = NoCommand
  /\ IF shift.op = "r" THEN rxf' = rxf + 1 /\ UNCHANGED acked
                       ELSE acked' = acked + 1 /\ UNCHANGED rxf
  /\ age' = 0
  /\ UNCHANGED <<pc, call, last, ctrl, Sem, timer, mask, fifo, abrt, isr,
                 started, cbs, stops, nacked, races>>

(* No acknowledge: of a byte, or of the address sent before it.            *)
ChipAborts ==
  /\ shift # NoCommand
  /\ shift' = NoCommand /\ fifo' = NoCommand
  /\ abrt' = TRUE /\ nacked' = TRUE
  /\ age' = 0
  /\ crossed' = (crossed \/ irq)
  /\ UNCHANGED <<pc, call, last, ctrl, Sem, timer, mask, rxf, isr, started,
                 cbs, stops, acked, overdue>>

-----------------------------------------------------------------------------
TaskStep == I2C_Prepare \/ I2C_MasterXfer \/ ProgramReadReg \/ ProgramRead
            \/ ProgramWrite \/ Lock \/ Return

Next ==
  \/ \E o \in Ops, n \in Lengths, r \in RegLens, b \in BOOLEAN : Call(o, n, r, b)
  \/ TaskStep
  \/ Tick \/ TimerUp \/ AbortEnds
  \/ IrqEnter \/ I2C_IrqHandle
  \/ ChipTakes \/ ChipMoves \/ ChipAborts

(* The task is scheduled, the interrupts are served, time passes and the   *)
(* controller ends an abort once the bus is still.  Nothing is assumed of  *)
(* the other end of the bus: it may stretch the clock for ever.            *)
Fairness ==
  /\ WF_vars(TaskStep) /\ WF_vars(Tick) /\ WF_vars(TimerUp) /\ WF_vars(AbortEnds)
  /\ WF_vars(IrqEnter) /\ WF_vars(I2C_IrqHandle)

Spec == Init /\ [][Next]_vars
FairSpec == Spec /\ Fairness

-----------------------------------------------------------------------------
(* Properties.                                                             *)

(* Types; the two positions stay within their buffers and the FIFO never   *)
(* has more than the command of the next byte.                             *)
TypeOK ==
  /\ pc \in {"idle", "prepare", "xfer", "program", "lock", "spin"}
  /\ op \in Ops /\ block \in BOOLEAN
  /\ last \in {"none", "ok", "failed", "timeout"}
  /\ State \in States /\ {IsBusy, IsBlockMode} \subseteq BOOLEAN
  /\ Result \in {"ok", "failed", "timeout"}
  /\ Pos \in 0..(IF pc \in {"prepare", "xfer"} THEN Pos ELSE len)
  /\ RegPos \in 0..(IF pc \in {"prepare", "xfer"} THEN RegPos ELSE regLen)
  /\ Sem \in 0..1 /\ timer \in 0..Toms /\ mask \in {"none", "tx", "rx"}
  /\ {fifo, shift} \subseteq Commands \union {NoCommand}
  /\ rxf \in Nat /\ (~overdue => rxf <= 1)
  /\ {abrt, irq, seen, aborting, overdue, crossed} \subseteq BOOLEAN

(* Once I2C_WaitResult says a transfer is over, no handler reads or writes *)
(* the caller's buffer for it: prvI2C_Done and the mask go together.  The  *)
(* one exception: the timeout came before I2C_MasterXfer had programmed    *)
(* the transfer, which then starts after its end.                          *)
BufferIsFree ==
  ~overdue /\ ~IsBusy /\ pc \in {"idle", "spin"} => mask = "none" /\ ~irq

(* A transfer calls back once: the end, an abort of the controller and the *)
(* timeout exclude each other, and one of them comes.                      *)
OneCallback ==
  ~overdue =>
    /\ cbs <= 1
    /\ pc \in {"idle", "spin"} /\ started > 0 =>
         cbs = (IF IsBusy THEN 0 ELSE 1)

(* No token is left in the semaphore between calls, so that the next       *)
(* I2C_BlockWrite sleeps and does not burn the CPU in its loop.            *)
NoStaleToken ==
  ~overdue /\ pc \in {"idle", "prepare", "xfer"} => Sem = 0

Inv == TypeOK /\ OneCallback /\ NoStaleToken

(* A blocking call that returns 0 has moved everything: each byte read was *)
(* read, each byte written but the last was acknowledged, and exactly one  *)
(* command, the last one, released the bus.  Only the two races with the   *)
(* handlers can make it untrue: a timeout before the transfer has begun,   *)
(* and an abort wiped out by IC_CLR_INTR before it was read.               *)
SuccessIsWhole ==
  ~overdue /\ ~crossed /\ pc = "idle" /\ block /\ last = "ok" =>
    /\ op = "WRITE" => Pos = len /\ acked >= len - 1
    /\ op # "WRITE" => Pos = len /\ acked = regLen
    /\ stops = 1

(* "Result: 0 success, anything else failure" (core_i2c.h:68): after a 0   *)
(* no byte was refused.                                                    *)
ZeroMeansSuccess == pc = "idle" /\ block /\ last = "ok" => ~nacked

(* "Timeout of a single byte" (core_i2c.h:60): a transfer times out only   *)
(* when one of its bytes took Toms.                                        *)
TimeoutIsPerByte == [][TimerUp => age >= Toms - 1]_vars

(* The two places where the driver waits for the byte on the bus and for   *)
(* nothing else: the abort, in the timer interrupt (core_i2c.c:89), and    *)
(* the disabling of the controller, in the task (core_i2c.c:231).          *)
WaitsForBus == shift # NoCommand /\ (aborting \/ pc = "prepare")

=============================================================================

--------------------------- MODULE CoreI2c_proofs ---------------------------
(***************************************************************************)
(* The I2C master of CoreI2c for all lengths, timeouts and numbers of      *)
(* calls: a transfer ends once, its end leaves nothing that touches the    *)
(* buffer, and a blocking call that returns 0 has moved everything.        *)
(*                                                                         *)
(* What is inductive has three layers.  The positions are within bounds    *)
(* whatever happens.  Unless a transfer timed out while it was programmed, *)
(* the place of the task, the control block and the controller fit         *)
(* together, and at most one read is on its way through FIFO, shift        *)
(* register and receive FIFO.  Unless an abort was lost besides, the       *)
(* position is the number of bytes acknowledged and of those under way.    *)
(***************************************************************************)
EXTENDS CoreI2c, TLAPS

Typed ==
  /\ pc \in {"idle", "prepare", "xfer", "program", "lock", "spin"}
  /\ op \in Ops /\ block \in BOOLEAN /\ len \in Nat /\ regLen \in Nat
  /\ last \in {"none", "ok", "failed", "timeout"}
  /\ State \in States /\ IsBusy \in BOOLEAN /\ IsBlockMode \in BOOLEAN
  /\ Result \in {"ok", "failed", "timeout"}
  /\ Pos \in Nat /\ RegPos \in Nat
  /\ Sem \in 0..1 /\ timer \in 0..Toms /\ mask \in {"none", "tx", "rx"}
  /\ fifo \in Commands \union {NoCommand} /\ shift \in Commands \union {NoCommand}
  /\ rxf \in Nat /\ abrt \in BOOLEAN /\ irq \in BOOLEAN /\ seen \in BOOLEAN
  /\ aborting \in BOOLEAN /\ overdue \in BOOLEAN /\ crossed \in BOOLEAN
  /\ started \in Nat /\ stops \in Nat /\ acked \in Nat

(* Whatever happened: the positions.                                       *)
Bounds ==
  /\ pc \notin {"prepare", "xfer"} =>
       /\ Pos <= len /\ RegPos <= regLen
       /\ State \in {"ADDRESS_WR", "READ"} => Pos < len
  /\ pc = "program" => mask = "none" /\ ~irq /\ Pos = 0 /\ RegPos = 0
  /\ pc \in {"prepare", "xfer", "program"} =>
       len > 0 /\ (op = "READ_REG" => regLen > 0)
  /\ op # "READ_REG" => regLen = 0

Running == IsBusy /\ pc # "program"

(* In time: who is where, ...                                              *)
Phases ==
  /\ IsBlockMode = block
  /\ IsBusy => cbs = 0 /\ timer > 0 /\ started > 0
  /\ ~IsBusy => /\ mask = "none" /\ ~irq /\ State = "FREE" /\ timer = 0
                /\ cbs = IF started = 0 THEN 0 ELSE 1
  /\ pc \in {"prepare", "xfer", "spin"} => ~IsBusy
  /\ pc \in {"program", "lock", "spin"} => started > 0
  /\ pc = "program" => IsBusy /\ ~abrt /\ stops = 0 /\ acked = 0
  /\ pc \in {"lock", "spin"} => block
  /\ Sem = IF pc = "lock" /\ ~IsBusy THEN 1 ELSE 0

(* ... what a running transfer does, ...                                   *)
Runs ==
  Running =>
    /\ pc = IF block THEN "lock" ELSE "idle"
    /\ State # "FREE"
    /\ mask = IF State = "READ" THEN "rx" ELSE "tx"
    /\ State = "WRITE" => op = "WRITE"
    /\ State = "ADDRESS_WR" => op = "READ_REG"
    /\ State = "READ" => op # "WRITE"

(* ... what is under way on the bus, ...                                   *)
UnderWay ==
  /\ ~IsBusy => fifo = NoCommand
  /\ pc \in {"xfer", "program"} => fifo = NoCommand /\ shift = NoCommand /\ rxf = 0
  /\ rxf <= 1
  /\ fifo.op = "r" => shift.op # "r" /\ rxf = 0
  /\ shift.op = "r" => fifo = NoCommand /\ rxf = 0
  /\ rxf = 1 => fifo = NoCommand /\ shift = NoCommand
  /\ Running /\ State # "READ" => fifo.op # "r" /\ shift.op # "r" /\ rxf = 0
  /\ Running /\ State = "READ" => fifo.op # "w"
  /\ abrt => fifo = NoCommand /\ shift = NoCommand
  /\ seen => irq /\ abrt

One(c) == IF c = NoCommand THEN 0 ELSE 1

(* ... and, when no abort was lost, how much of the transfer is done.      *)
Accounts ==
  /\ irq => seen = abrt
  /\ Running /\ ~abrt /\ State = "WRITE" =>
       /\ Pos = acked + One(fifo) + One(shift)
       /\ stops = IF Pos = len THEN 1 ELSE 0
  /\ Running /\ ~abrt /\ State = "ADDRESS_WR" =>
       /\ RegPos = acked + One(fifo) + One(shift)
       /\ Pos = 0 /\ stops = 0
  /\ Running /\ ~abrt /\ State = "READ" =>
       /\ regLen = acked + (IF shift.op = "w" THEN 1 ELSE 0)
       /\ stops = IF Pos + 1 = len THEN 1 ELSE 0

Whole ==
  /\ ~IsBusy /\ Result = "ok" /\ started > 0 /\ pc \in {"lock", "spin", "idle"} =>
       /\ op = "WRITE" => Pos = len /\ acked >= len - 1
       /\ op # "WRITE" => Pos = len /\ acked = regLen /\ shift = NoCommand
       /\ stops = 1
  /\ pc = "idle" /\ block /\ last = "ok" => Result = "ok" /\ ~IsBusy /\ started > 0

IInv ==
  /\ Typed /\ Bounds
  /\ ~overdue => Phases /\ Runs /\ UnderWay
  /\ ~overdue /\ ~crossed => Accounts /\ Whole

-----------------------------------------------------------------------------
LEMMA Numbers ==
  /\ Toms \in Nat /\ Toms > 0
  /\ \A n \in Lengths \union RegLens : n \in Nat /\ n > 0
BY I2cAssumption DEF I2cAssumption

(* A command is a write, a read or none.                                   *)
LEMMA Kinds ==
  \A c \in Commands \union {NoCommand} :
    /\ c.op \in {"w", "r", "none"}
    /\ c = NoCommand <=> c.op = "none"
BY DEF Commands, NoCommand

LEMMA Pushed ==
  ASSUME NEW o \in {"w", "r"}, NEW b \in BOOLEAN
  PROVE  /\ [op |-> o, stop |-> b] \in Commands
         /\ [op |-> o, stop |-> b] # NoCommand
         /\ [op |-> o, stop |-> b].op = o
         /\ [op |-> o, stop |-> b].stop = b
BY DEF Commands, NoCommand

LEMMA NoneInside ==
  NoCommand \in Commands \union {NoCommand} /\ NoCommand.op = "none"
BY DEF NoCommand

(* The invariant is about these variables only.                            *)
LEMMA SameIInv == IInv /\ UNCHANGED vars => IInv'
BY DEF IInv, Typed, Bounds, Phases, Runs, UnderWay, Accounts, Whole, Running, One,
       vars, call, ctrl, chip, isr, trace, races

LEMMA InitHolds == Init => IInv
<1> SUFFICES ASSUME Init PROVE IInv
  OBVIOUS
<1>1. Typed
  <2>1. Toms \in Nat /\ 0 \in 0..Toms
    BY Numbers
  <2>2. fifo \in Commands \union {NoCommand} /\ shift \in Commands \union {NoCommand}
    BY NoneInside DEF Init
  <2> QED
    <3>1. /\ op \in Ops /\ State \in States /\ Sem \in 0..1 /\ timer \in 0..Toms
          /\ pc \in {"idle", "prepare", "xfer", "program", "lock", "spin"}
          /\ last \in {"none", "ok", "failed", "timeout"}
          /\ Result \in {"ok", "failed", "timeout"} /\ mask \in {"none", "tx", "rx"}
      BY <2>1 DEF Init, Ops, States
    <3>2. /\ len \in Nat /\ regLen \in Nat /\ Pos \in Nat /\ RegPos \in Nat
          /\ rxf \in Nat /\ started \in Nat /\ stops \in Nat /\ acked \in Nat
          /\ block \in BOOLEAN /\ IsBusy \in BOOLEAN /\ IsBlockMode \in BOOLEAN
          /\ abrt \in BOOLEAN /\ irq \in BOOLEAN /\ seen \in BOOLEAN /\ aborting \in BOOLEAN
          /\ overdue \in BOOLEAN /\ crossed \in BOOLEAN
      BY DEF Init
    <3> QED
      BY <2>2, <3>1, <3>2, Zenon DEF Typed
<1>2. Bounds
  BY DEF Init, Bounds
<1>3. Phases /\ Runs
  BY DEF Init, Phases, Runs, Running
<1>4. UnderWay
  BY NoneInside DEF Init, UnderWay, Running
<1>5. Accounts /\ Whole
  BY DEF Init, Accounts, Whole, Running
<1> QED
  BY <1>1, <1>2, <1>3, <1>4, <1>5 DEF IInv

-----------------------------------------------------------------------------
(* The task.                                                               *)

LEMMA CallKeeps ==
  ASSUME IInv, NEW o \in Ops, NEW n \in Lengths, NEW r \in RegLens,
         NEW b \in BOOLEAN, Call(o, n, r, b)
  PROVE  IInv'
<1> USE DEF Call, NoHandler, chip, isr, trace, races
<1>0. n \in Nat /\ n > 0 /\ r \in Nat /\ r > 0
  BY Numbers
<1>1. Typed'
  BY <1>0 DEF IInv, Typed
<1>2. Bounds'
  BY <1>0 DEF IInv, Typed, Bounds
<1>3. ASSUME ~overdue' PROVE Phases' /\ Runs'
  BY <1>3 DEF IInv, Typed, Phases, Runs, Running
<1>4. ASSUME ~overdue' PROVE UnderWay'
  BY <1>4 DEF IInv, Typed, UnderWay, Running
<1>5. ASSUME ~overdue', ~crossed' PROVE Accounts' /\ Whole'
  BY <1>5 DEF IInv, Typed, Phases, Accounts, Whole, Running
<1> QED
  BY <1>1, <1>2, <1>3, <1>4, <1>5 DEF IInv

LEMMA PrepareKeeps == ASSUME IInv, I2C_Prepare PROVE IInv'
<1> USE DEF I2C_Prepare, NoHandler, call, ctrl, isr, trace, races
<1>1. Typed'
  BY DEF IInv, Typed
<1>2. Bounds'
  BY DEF IInv, Typed, Bounds
<1>3. ASSUME ~overdue' PROVE Phases' /\ Runs'
  BY <1>3 DEF IInv, Typed, Phases, Runs, Running
<1>4. ASSUME ~overdue' PROVE UnderWay'
  BY <1>4, NoneInside DEF IInv, Typed, UnderWay, Running, Phases
<1>5. ASSUME ~overdue', ~crossed' PROVE Accounts' /\ Whole'
  BY <1>5 DEF IInv, Typed, Phases, Accounts, Whole, Running
<1> QED
  BY <1>1, <1>2, <1>3, <1>4, <1>5 DEF IInv

LEMMA XferKeeps == ASSUME IInv, I2C_MasterXfer PROVE IInv'
<1> USE DEF I2C_MasterXfer, NoHandler, call, isr, races
<1>1. Typed'
  <2>1. Toms \in 0..Toms
    BY Numbers
  <2>2. started' \in Nat /\ stops' \in Nat /\ acked' \in Nat
    BY DEF IInv, Typed
  <2>3. fifo' \in Commands \union {NoCommand} /\ shift' \in Commands \union {NoCommand}
    BY DEF IInv, Typed
  <2> QED
    BY <2>1, <2>2, <2>3 DEF IInv, Typed
<1>2. Bounds'
  BY DEF IInv, Typed, Bounds
<1>3. ASSUME ~overdue' PROVE Phases' /\ Runs'
  BY <1>3, Numbers DEF IInv, Typed, Phases, Runs, Running
<1>4. ASSUME ~overdue' PROVE UnderWay'
  BY <1>4 DEF IInv, Typed, UnderWay, Running, Phases
<1>5. ASSUME ~overdue', ~crossed' PROVE Accounts' /\ Whole'
  BY <1>5 DEF IInv, Typed, Phases, Accounts, Whole, Running
<1> QED
  BY <1>1, <1>2, <1>3, <1>4, <1>5 DEF IInv

LEMMA LockKeeps == ASSUME IInv, Lock PROVE IInv'
<1> USE DEF Lock, NoHandler, call, ctrl, chip, isr, trace, races
<1>1. Typed'
  BY DEF IInv, Typed
<1>2. Bounds'
  BY DEF IInv, Typed, Bounds
<1>3. ASSUME ~overdue' PROVE Phases' /\ Runs'
  BY <1>3 DEF IInv, Typed, Phases, Runs, Running
<1>4. ASSUME ~overdue' PROVE UnderWay'
  BY <1>4 DEF IInv, Typed, UnderWay, Running, Phases
<1>5. ASSUME ~overdue', ~crossed' PROVE Accounts' /\ Whole'
  BY <1>5 DEF IInv, Typed, Phases, Accounts, Whole, Running
<1> QED
  BY <1>1, <1>2, <1>3, <1>4, <1>5 DEF IInv

LEMMA ReturnKeeps == ASSUME IInv, Return PROVE IInv'
<1> USE DEF Return, NoHandler, call, ctrl, chip, isr, trace, races
<1>1. Typed'
  BY DEF IInv, Typed
<1>2. Bounds'
  BY DEF IInv, Typed, Bounds
<1>3. ASSUME ~overdue' PROVE Phases' /\ Runs'
  BY <1>3 DEF IInv, Typed, Phases, Runs, Running
<1>4. ASSUME ~overdue' PROVE UnderWay'
  BY <1>4 DEF IInv, Typed, UnderWay, Running, Phases
<1>5. ASSUME ~overdue', ~crossed' PROVE Accounts' /\ Whole'
  BY <1>5 DEF IInv, Typed, Phases, Accounts, Whole, Running
<1> QED
  BY <1>1, <1>2, <1>3, <1>4, <1>5 DEF IInv

(* Each way of programming a transfer writes the first command.            *)
LEMMA ProgramReadRegKeeps == ASSUME IInv, ProgramReadReg PROVE IInv'
<1> DEFINE c == [op |-> "w", stop |-> FALSE]
<1>0. c \in Commands /\ c # NoCommand /\ c.op = "w" /\ c.stop = FALSE
  BY Pushed
<1> HIDE DEF c
<1>a. ProgramReadReg <=> /\ op = "READ_REG" /\ RegPos' = 1 /\ UNCHANGED Pos
                         /\ Programmed("ADDRESS_WR", "tx", c)
  BY DEF ProgramReadReg, c
<1>b. IInv /\ op = "READ_REG" /\ RegPos' = 1 /\ UNCHANGED Pos
      /\ Programmed("ADDRESS_WR", "tx", c)
  BY <1>a
<1> USE DEF Programmed, NoHandler, Push, call, isr, races
<1>1. Typed'
  BY <1>0, <1>b DEF IInv, Typed, States
<1>2. Bounds'
  BY <1>b DEF IInv, Typed, Bounds
<1>3. ASSUME ~overdue' PROVE Phases' /\ Runs'
  BY <1>b, <1>3 DEF IInv, Typed, Phases, Runs, Running
<1>4. ASSUME ~overdue' PROVE UnderWay'
  BY <1>0, <1>b, <1>4, NoneInside DEF IInv, Typed, UnderWay, Running, Phases
<1>5. ASSUME ~overdue', ~crossed' PROVE Accounts' /\ Whole'
  BY <1>0, <1>b, <1>5
  DEF IInv, Typed, Phases, UnderWay, Accounts, Whole, Running, One, Bounds
<1> QED
  BY <1>1, <1>2, <1>3, <1>4, <1>5 DEF IInv

LEMMA ProgramReadKeeps == ASSUME IInv, ProgramRead PROVE IInv'
<1> DEFINE c == [op |-> "r", stop |-> IsLast(Pos)]
<1>0. /\ c \in Commands /\ c # NoCommand /\ c.op = "r"
      /\ c.stop = IsLast(Pos)
  <2>1. IsLast(Pos) \in BOOLEAN
    BY DEF IsLast
  <2> QED
    BY <2>1, Pushed
<1>c. c.stop <=> len - Pos <= 1
  BY <1>0 DEF IsLast
<1> HIDE DEF c
<1>b. IInv /\ op = "READ" /\ UNCHANGED <<Pos, RegPos>> /\ Programmed("READ", "rx", c)
  BY DEF ProgramRead, c
<1> USE DEF Programmed, NoHandler, Push, call, isr, races
<1>1. Typed'
  BY <1>0, <1>b DEF IInv, Typed, States
<1>2. Bounds'
  BY <1>b DEF IInv, Typed, Bounds
<1>3. ASSUME ~overdue' PROVE Phases' /\ Runs'
  BY <1>b, <1>3 DEF IInv, Typed, Phases, Runs, Running
<1>4. ASSUME ~overdue' PROVE UnderWay'
  BY <1>0, <1>b, <1>4, NoneInside DEF IInv, Typed, UnderWay, Running, Phases
<1>5. ASSUME ~overdue', ~crossed' PROVE Accounts' /\ Whole'
  <2>1. stops = 0 /\ acked = 0 /\ len \in Nat /\ Pos = 0 /\ len > 0
    BY <1>b, <1>5 DEF IInv, Typed, Phases, Bounds
  <2>2. stops' = IF len <= 1 THEN 1 ELSE 0
    BY <1>b, <1>c, <2>1
  <2> QED
    BY <1>0, <1>b, <1>5, <2>1, <2>2, NoneInside
    DEF IInv, Typed, Bounds, Phases, UnderWay, Accounts, Whole, Running, One
<1> QED
  BY <1>1, <1>2, <1>3, <1>4, <1>5 DEF IInv

LEMMA ProgramWriteKeeps == ASSUME IInv, ProgramWrite PROVE IInv'
<1> DEFINE c == [op |-> "w", stop |-> IsLast(Pos)]
<1>0. /\ c \in Commands /\ c # NoCommand /\ c.op = "w"
      /\ c.stop = IsLast(Pos)
  <2>1. IsLast(Pos) \in BOOLEAN
    BY DEF IsLast
  <2> QED
    BY <2>1, Pushed
<1>c. c.stop <=> len - Pos <= 1
  BY <1>0 DEF IsLast
<1> HIDE DEF c
<1>b. IInv /\ op = "WRITE" /\ Pos' = Pos + 1 /\ UNCHANGED RegPos
      /\ Programmed("WRITE", "tx", c)
  BY DEF ProgramWrite, c
<1> USE DEF Programmed, NoHandler, Push, call, isr, races
<1>1. Typed'
  BY <1>0, <1>b DEF IInv, Typed, States
<1>2. Bounds'
  BY <1>b DEF IInv, Typed, Bounds
<1>3. ASSUME ~overdue' PROVE Phases' /\ Runs'
  BY <1>b, <1>3 DEF IInv, Typed, Phases, Runs, Running
<1>4. ASSUME ~overdue' PROVE UnderWay'
  BY <1>0, <1>b, <1>4, NoneInside DEF IInv, Typed, UnderWay, Running, Phases
<1>5. ASSUME ~overdue', ~crossed' PROVE Accounts' /\ Whole'
  <2>1. stops = 0 /\ acked = 0 /\ len \in Nat /\ Pos = 0 /\ len > 0
    BY <1>b, <1>5 DEF IInv, Typed, Phases, Bounds
  <2>2. stops' = IF len <= 1 THEN 1 ELSE 0
    BY <1>b, <1>c, <2>1
  <2> QED
    BY <1>0, <1>b, <1>5, <2>1, <2>2, NoneInside
    DEF IInv, Typed, Bounds, Phases, UnderWay, Accounts, Whole, Running, One
<1> QED
  BY <1>1, <1>2, <1>3, <1>4, <1>5 DEF IInv

-----------------------------------------------------------------------------
(* Time, and the controller.                                               *)

LEMMA TickKeeps == ASSUME IInv, Tick PROVE IInv'
<1> USE DEF Tick, call, ctrl, chip, isr, races
<1>1. Typed'
  BY Numbers DEF IInv, Typed
<1>2. Bounds'
  BY DEF IInv, Typed, Bounds
<1>3. ASSUME ~overdue' PROVE Phases' /\ Runs'
  BY <1>3, Numbers DEF IInv, Typed, Phases, Runs, Running
<1>4. ASSUME ~overdue' PROVE UnderWay'
  BY <1>4 DEF IInv, Typed, UnderWay, Running
<1>5. ASSUME ~overdue', ~crossed' PROVE Accounts' /\ Whole'
  BY <1>5 DEF IInv, Typed, Accounts, Whole, Running, One
<1> QED
  BY <1>1, <1>2, <1>3, <1>4, <1>5 DEF IInv

(* A timeout of a transfer that is programmed: it is running then.         *)
LEMMA TimerUpKeeps == ASSUME IInv, TimerUp PROVE IInv'
<1> USE DEF TimerUp, NoHandler, prvI2C_Done, call, isr
<1>1. Typed'
  <2>1. Toms \in Nat /\ timer' \in 0..Toms
    BY Numbers
  <2>2. fifo' \in Commands \union {NoCommand} /\ shift' \in Commands \union {NoCommand}
    BY NoneInside DEF IInv, Typed
  <2>3. Sem' \in 0..1 /\ State' \in States
    BY DEF IInv, Typed, States
  <2>4. UNCHANGED <<pc, op, len, regLen, block, last, IsBlockMode, Pos, RegPos, rxf,
                    abrt, shift, irq, seen, started, stops, acked, crossed>> /\ aborting' = TRUE
    OBVIOUS
  <2> QED
    BY <2>1, <2>2, <2>3, <2>4 DEF IInv, Typed
<1>2. Bounds'
  BY DEF IInv, Typed, Bounds
<1>3. ASSUME ~overdue' PROVE IInv /\ ~overdue /\ pc # "program"
  BY <1>3 DEF IInv, Typed
<1>4. ASSUME ~overdue' PROVE Phases' /\ Runs'
  BY <1>3, <1>4 DEF IInv, Typed, Phases, Runs, Running
<1>5. ASSUME ~overdue' PROVE UnderWay'
  BY <1>3, <1>5, NoneInside DEF IInv, Typed, UnderWay, Running, Phases
<1>6. ASSUME ~overdue', ~crossed' PROVE Accounts' /\ Whole'
  BY <1>3, <1>6 DEF IInv, Typed, Accounts, Whole, Running, One, Phases
<1> QED
  BY <1>1, <1>2, <1>4, <1>5, <1>6 DEF IInv

(* The return of the handler changes nothing else.                         *)
LEMMA AbortEndsChanges ==
  ASSUME AbortEnds
  PROVE  /\ aborting' = FALSE
         /\ UNCHANGED <<pc, op, len, regLen, block, last, State, IsBusy, IsBlockMode, Result,
                        Pos, RegPos, Sem, timer, mask, fifo, shift, abrt, rxf, irq, seen,
                        started, cbs, stops, acked, nacked, age, overdue, crossed>>
BY DEF AbortEnds, call, ctrl, chip, trace, races

LEMMA AbortEndsKeeps == ASSUME IInv, AbortEnds PROVE IInv'
<1>1. Typed'
  BY AbortEndsChanges DEF IInv, Typed
<1>2. Bounds'
  BY AbortEndsChanges DEF IInv, Typed, Bounds
<1>3. ASSUME ~overdue' PROVE Phases' /\ Runs'
  BY <1>3, AbortEndsChanges DEF IInv, Typed, Phases, Runs, Running
<1>4. ASSUME ~overdue' PROVE UnderWay'
  BY <1>4, AbortEndsChanges DEF IInv, Typed, UnderWay, Running
<1>5. ASSUME ~overdue', ~crossed' PROVE Accounts' /\ Whole'
  BY <1>5, AbortEndsChanges DEF IInv, Typed, Accounts, Whole, Running, One
<1> QED
  BY <1>1, <1>2, <1>3, <1>4, <1>5 DEF IInv

LEMMA IrqEnterKeeps == ASSUME IInv, IrqEnter PROVE IInv'
<1> USE DEF IrqEnter, NoHandler, Pending, call, ctrl, chip, trace, races
<1>1. Typed'
  BY DEF IInv, Typed
<1>2. Bounds'
  BY DEF IInv, Typed, Bounds
<1>3. ASSUME ~overdue' PROVE Phases' /\ Runs'
  BY <1>3 DEF IInv, Typed, Phases, Runs, Running
<1>4. ASSUME ~overdue' PROVE UnderWay'
  BY <1>4 DEF IInv, Typed, UnderWay, Running
<1>5. ASSUME ~overdue', ~crossed' PROVE Accounts' /\ Whole'
  BY <1>5 DEF IInv, Typed, Accounts, Whole, Running, One
<1> QED
  BY <1>1, <1>2, <1>3, <1>4, <1>5 DEF IInv

LEMMA ChipTakesKeeps == ASSUME IInv, ChipTakes PROVE IInv'
<1> USE DEF ChipTakes, call, ctrl, isr, trace, races
<1>1. Typed'
  BY NoneInside DEF IInv, Typed
<1>2. Bounds'
  BY DEF IInv, Typed, Bounds
<1>3. ASSUME ~overdue' PROVE Phases' /\ Runs'
  BY <1>3 DEF IInv, Typed, Phases, Runs, Running
<1>4. ASSUME ~overdue' PROVE UnderWay'
  BY <1>4, NoneInside, Kinds DEF IInv, Typed, UnderWay, Running
<1>5. ASSUME ~overdue', ~crossed' PROVE Accounts' /\ Whole'
  BY <1>5, NoneInside, Kinds
  DEF IInv, Typed, Accounts, Whole, Running, One, UnderWay, Phases
<1> QED
  BY <1>1, <1>2, <1>3, <1>4, <1>5 DEF IInv

LEMMA ChipMovesKeeps == ASSUME IInv, ChipMoves PROVE IInv'
<1> USE DEF ChipMoves, call, ctrl, isr, races
<1>1. Typed'
  BY NoneInside DEF IInv, Typed
<1>2. Bounds'
  BY DEF IInv, Typed, Bounds
<1>3. ASSUME ~overdue' PROVE Phases' /\ Runs'
  BY <1>3 DEF IInv, Typed, Phases, Runs, Running, UnderWay
<1>4. ASSUME ~overdue' PROVE UnderWay'
  BY <1>4, NoneInside, Kinds DEF IInv, Typed, UnderWay, Running
<1>5. ASSUME ~overdue', ~crossed' PROVE Accounts' /\ Whole'
  BY <1>5, NoneInside, Kinds
  DEF IInv, Typed, Accounts, Whole, Running, One, UnderWay, Phases, Runs
<1> QED
  BY <1>1, <1>2, <1>3, <1>4, <1>5 DEF IInv

LEMMA ChipAbortsKeeps == ASSUME IInv, ChipAborts PROVE IInv'
<1> USE DEF ChipAborts, call, ctrl, isr
<1>1. Typed'
  BY NoneInside DEF IInv, Typed
<1>2. Bounds'
  BY DEF IInv, Typed, Bounds
<1>3. ASSUME ~overdue' PROVE Phases' /\ Runs'
  BY <1>3 DEF IInv, Typed, Phases, Runs, Running, UnderWay
<1>4. ASSUME ~overdue' PROVE UnderWay'
  BY <1>4, NoneInside, Kinds DEF IInv, Typed, UnderWay, Running
<1>5. ASSUME ~overdue', ~crossed' PROVE Accounts' /\ Whole'
  BY <1>5, NoneInside
  DEF IInv, Typed, Accounts, Whole, Running, One, UnderWay, Phases
<1> QED
  BY <1>1, <1>2, <1>3, <1>4, <1>5 DEF IInv

-----------------------------------------------------------------------------
(* I2C_IrqHandle.  It runs while a transfer does, unless that was overdue. *)

Handles == irq /\ irq' = FALSE /\ seen' = FALSE /\ abrt' = FALSE /\ UNCHANGED aborting
           /\ UNCHANGED <<pc, call, last, IsBlockMode, shift, started, acked,
                          nacked, age, races>>

(* What the handler finds.                                                 *)
LEMMA Found ==
  ASSUME IInv, Handles
  PROVE  /\ Typed /\ Bounds /\ pc # "program"
         /\ UNCHANGED <<pc, op, len, regLen, block, last, IsBlockMode, shift,
                        started, acked, overdue, crossed>>
         /\ irq' = FALSE /\ seen' = FALSE /\ abrt' = FALSE /\ aborting' = aborting
         /\ ~overdue => Phases /\ Runs /\ UnderWay /\ IsBusy
         /\ ~overdue /\ ~crossed => Accounts /\ Whole /\ seen = abrt
BY DEF IInv, Handles, Bounds, Phases, Accounts, call, races

(* The end of a transfer.                                                  *)
LEMMA DoneKeeps ==
  ASSUME IInv, Handles, NEW r \in {"ok", "failed"}, NEW p \in Nat, IrqDone(r, p),
         pc \notin {"prepare", "xfer"} => p <= len,
         rxf' \in Nat, ~overdue => rxf' <= rxf /\ fifo = NoCommand,
         ~overdue /\ ~crossed /\ r = "ok" =>
           /\ op = "WRITE" => p = len /\ acked >= len - 1
           /\ op # "WRITE" => p = len /\ acked = regLen /\ shift = NoCommand
           /\ stops = 1
  PROVE  IInv'
<1> USE DEF IrqDone, prvI2C_Done
<1>1. Typed'
  <2>1. Toms \in Nat /\ timer' \in 0..Toms
    BY Numbers
  <2>2. Sem' \in 0..1 /\ State' \in States
    BY Found DEF Typed, States
  <2> QED
    BY <2>1, <2>2, Found DEF Typed
<1>2. Bounds'
  BY Found DEF Typed, Bounds
<1>3. ASSUME ~overdue' PROVE Phases' /\ Runs'
  BY <1>3, Found DEF Typed, Phases, Runs, Running
<1>4. ASSUME ~overdue' PROVE UnderWay'
  BY <1>4, Found, NoneInside DEF Typed, UnderWay, Running, Phases
<1>5. ASSUME ~overdue', ~crossed' PROVE Accounts' /\ Whole'
  BY <1>5, Found DEF Typed, Accounts, Whole, Running, One, Phases
<1> QED
  BY <1>1, <1>2, <1>3, <1>4, <1>5 DEF IInv

LEMMA AbortKeeps == ASSUME IInv, Handles, IrqAbort PROVE IInv'
<1>1. IrqDone("failed", Pos) /\ rxf' = rxf /\ seen
  BY DEF IrqAbort
<1>2. Pos \in Nat /\ rxf \in Nat
  BY Found DEF Typed
<1>3. pc \notin {"prepare", "xfer"} => Pos <= len
  BY Found DEF Bounds
<1>4. ~overdue => fifo = NoCommand
  BY <1>1, Found DEF UnderWay
<1> QED
  BY <1>1, <1>2, <1>3, <1>4, DoneKeeps

(* The next byte is written.                                               *)
LEMMA WriteKeeps == ASSUME IInv, Handles, IrqWrite PROVE IInv'
<1>0. ~seen /\ State = "WRITE" /\ fifo = NoCommand /\ rxf' = rxf
  BY DEF IrqWrite
<1>1. CASE Pos >= len
  <2>1. IrqDone("ok", Pos)
    BY <1>1 DEF IrqWrite
  <2>2. Pos \in Nat /\ rxf \in Nat /\ len \in Nat /\ acked \in Nat
    BY Found DEF Typed
  <2>3. pc \notin {"prepare", "xfer"} => Pos <= len
    BY Found DEF Bounds
  <2>4. ASSUME ~overdue, ~crossed
        PROVE  op = "WRITE" /\ Pos = len /\ acked >= len - 1 /\ stops = 1
    <3>1. Running /\ pc \notin {"prepare", "xfer"} /\ ~abrt /\ op = "WRITE"
      BY <1>0, <2>4, Found DEF Running, Runs, Phases
    <3>2. Pos = len
      BY <1>1, <2>2, <2>3, <3>1
    <3>3. Pos = acked + One(fifo) + One(shift) /\ stops = IF Pos = len THEN 1 ELSE 0
      BY <1>0, <2>4, <3>1, Found DEF Accounts
    <3>4. One(fifo) = 0 /\ (One(shift) = 0 \/ One(shift) = 1)
      BY <1>0 DEF One
    <3>5. acked >= len - 1
      BY <2>2, <3>2, <3>3, <3>4
    <3> QED
      BY <3>1, <3>2, <3>3, <3>5
  <2> QED
    BY <1>0, <2>1, <2>2, <2>3, <2>4, DoneKeeps
<1>2. CASE ~(Pos >= len)
  <2> DEFINE c == [op |-> "w", stop |-> IsLast(Pos)]
  <2>1. IsLast(Pos) \in BOOLEAN
    BY DEF IsLast
  <2>2. c \in Commands /\ c # NoCommand /\ c.op = "w" /\ c.stop = IsLast(Pos)
    BY <2>1, Pushed
  <2>3. Push(c, FALSE) /\ Pos' = Pos + 1 /\ IrqGoesOn /\ UNCHANGED <<State, RegPos, mask>>
    BY <1>2 DEF IrqWrite
  <2>4. c.stop <=> len - Pos <= 1
    BY <2>2 DEF IsLast
  <2> HIDE DEF c
  <2>5. /\ fifo' = c /\ stops' = stops + (IF len - Pos <= 1 THEN 1 ELSE 0)
        /\ UNCHANGED <<Sem, timer, IsBusy, Result, cbs, State, RegPos, mask>>
    BY <2>3, <2>4 DEF Push, IrqGoesOn
  <2>6. Typed'
    BY <1>0, <2>2, <2>3, <2>5, Found DEF Typed
  <2>7. Bounds'
    BY <1>0, <1>2, <2>3, <2>5, Found DEF Typed, Bounds
  <2>8. ASSUME ~overdue' PROVE Phases' /\ Runs'
    BY <1>0, <2>3, <2>5, <2>8, Found DEF Typed, Phases, Runs, Running
  <2>9. ASSUME ~overdue' PROVE UnderWay'
    BY <1>0, <2>2, <2>5, <2>9, Found DEF Typed, UnderWay, Running, Phases
  <2>10. ASSUME ~overdue', ~crossed' PROVE Accounts' /\ Whole'
    BY <1>0, <1>2, <2>2, <2>3, <2>5, <2>10, Found
    DEF Typed, Accounts, Whole, Running, One, Phases
  <2> QED
    BY <2>6, <2>7, <2>8, <2>9, <2>10 DEF IInv
<1> QED
  BY <1>1, <1>2

(* The next byte of the register's address, or the first read.             *)
LEMMA AddressKeeps == ASSUME IInv, Handles, IrqAddress PROVE IInv'
<1>0. /\ ~seen /\ State = "ADDRESS_WR" /\ fifo = NoCommand
      /\ UNCHANGED <<Pos, rxf, Sem, timer, IsBusy, Result, cbs>>
  BY DEF IrqAddress, IrqGoesOn
<1>1. CASE RegPos >= regLen
  <2> DEFINE c == [op |-> "r", stop |-> IsLast(Pos)]
  <2>1. IsLast(Pos) \in BOOLEAN
    BY DEF IsLast
  <2>2. c \in Commands /\ c # NoCommand /\ c.op = "r" /\ c.stop = IsLast(Pos)
    BY <2>1, Pushed
  <2>3. Push(c, FALSE) /\ State' = "READ" /\ mask' = "rx" /\ UNCHANGED RegPos
    BY <1>1 DEF IrqAddress
  <2>4. c.stop <=> len - Pos <= 1
    BY <2>2 DEF IsLast
  <2> HIDE DEF c
  <2>5. fifo' = c /\ stops' = stops + (IF len - Pos <= 1 THEN 1 ELSE 0)
    BY <2>3, <2>4 DEF Push
  <2>6. Typed'
    BY <1>0, <2>2, <2>3, <2>5, Found DEF Typed, States
  <2>7. Bounds'
    BY <1>0, <2>3, Found DEF Typed, Bounds
  <2>8. ASSUME ~overdue' PROVE Phases' /\ Runs'
    BY <1>0, <2>3, <2>8, Found DEF Typed, Phases, Runs, Running
  <2>9. ASSUME ~overdue' PROVE UnderWay'
    BY <1>0, <2>2, <2>3, <2>5, <2>9, Found DEF Typed, UnderWay, Running, Phases
  <2>10. ASSUME ~overdue', ~crossed' PROVE Accounts' /\ Whole'
    <3>1. Running /\ ~abrt /\ pc \notin {"prepare", "xfer"} /\ RegPos <= regLen
      BY <1>0, <2>10, Found DEF Running, Phases, Bounds
    <3>2. RegPos = acked + One(fifo) + One(shift) /\ Pos = 0 /\ stops = 0
      BY <1>0, <2>10, <3>1, Found DEF Accounts
    <3>3. regLen = acked + (IF shift.op = "w" THEN 1 ELSE 0)
      <4>1. One(fifo) = 0 /\ One(shift) = IF shift.op = "w" THEN 1 ELSE 0
        <5>1. shift.op # "r" /\ shift \in Commands \union {NoCommand}
          BY <1>0, <2>10, <3>1, Found DEF UnderWay, Typed
        <5> QED
          BY <1>0, <5>1, Kinds DEF One
      <4>2. RegPos \in Nat /\ regLen \in Nat /\ acked \in Nat
        BY Found DEF Typed
      <4> QED
        BY <1>1, <3>1, <3>2, <4>1, <4>2
    <3>4. stops' = IF Pos' + 1 = len THEN 1 ELSE 0
      <4>1. len \in Nat /\ Pos < len
        BY <1>0, <3>1, Found DEF Typed, Bounds
      <4> QED
        BY <1>0, <2>5, <3>2, <4>1
    <3> QED
      BY <1>0, <2>3, <2>10, <3>1, <3>3, <3>4, Found
      DEF Accounts, Whole, Running, Phases
  <2> QED
    BY <2>6, <2>7, <2>8, <2>9, <2>10 DEF IInv
<1>2. CASE ~(RegPos >= regLen)
  <2> DEFINE c == [op |-> "w", stop |-> FALSE]
  <2>2. c \in Commands /\ c # NoCommand /\ c.op = "w" /\ c.stop = FALSE
    BY Pushed
  <2>3. Push(c, FALSE) /\ RegPos' = RegPos + 1 /\ UNCHANGED <<State, mask>>
    BY <1>2 DEF IrqAddress
  <2> HIDE DEF c
  <2>5. fifo' = c /\ stops' = stops
    BY <2>2, <2>3, Found DEF Push, Typed
  <2>6. Typed'
    BY <1>0, <2>2, <2>3, <2>5, Found DEF Typed
  <2>7. Bounds'
    BY <1>0, <1>2, <2>3, Found DEF Typed, Bounds
  <2>8. ASSUME ~overdue' PROVE Phases' /\ Runs'
    BY <1>0, <2>3, <2>8, Found DEF Typed, Phases, Runs, Running
  <2>9. ASSUME ~overdue' PROVE UnderWay'
    BY <1>0, <2>2, <2>3, <2>5, <2>9, Found DEF Typed, UnderWay, Running, Phases
  <2>10. ASSUME ~overdue', ~crossed' PROVE Accounts' /\ Whole'
    BY <1>0, <1>2, <2>2, <2>3, <2>5, <2>10, Found
    DEF Typed, Accounts, Whole, Running, One, Phases
  <2> QED
    BY <2>6, <2>7, <2>8, <2>9, <2>10 DEF IInv
<1> QED
  BY <1>1, <1>2

(* A byte is read, and the next one asked for.                             *)
LEMMA ReadKeeps == ASSUME IInv, Handles, IrqRead PROVE IInv'
<1>0. ~seen /\ State = "READ" /\ rxf > 0 /\ rxf' = rxf - 1
  BY DEF IrqRead
<1>a. Pos \in Nat /\ rxf \in Nat /\ len \in Nat /\ rxf' \in Nat
      /\ acked \in Nat /\ regLen \in Nat
  BY <1>0, Found DEF Typed
<1>b. pc \notin {"prepare", "xfer"} => Pos < len
  BY <1>0, Found DEF Bounds
<1>c. ASSUME ~overdue
      PROVE  /\ rxf = 1 /\ fifo = NoCommand /\ shift = NoCommand
             /\ Running /\ op # "WRITE" /\ pc \notin {"prepare", "xfer"}
  <2>1. rxf = 1
    BY <1>0, <1>a, <1>c, Found DEF UnderWay
  <2> QED
    BY <1>0, <1>c, <2>1, Found DEF UnderWay, Running, Runs, Phases
<1>d. ASSUME ~overdue, ~crossed
      PROVE  ~abrt /\ acked = regLen /\ stops = IF Pos + 1 = len THEN 1 ELSE 0
  <2>1. ~abrt
    BY <1>0, <1>d, Found
  <2>2. shift.op # "w"
    BY <1>c, <1>d, NoneInside
  <2> QED
    BY <1>0, <1>a, <1>c, <1>d, <2>1, <2>2, Found DEF Accounts
<1>1. CASE Pos + 1 >= len
  <2>1. IrqDone("ok", Pos + 1)
    BY <1>1 DEF IrqRead
  <2>2. Pos + 1 \in Nat /\ (pc \notin {"prepare", "xfer"} => Pos + 1 <= len)
    BY <1>a, <1>b
  <2>3. ~overdue => rxf' <= rxf /\ fifo = NoCommand
    BY <1>0, <1>a, <1>c
  <2>4. ~overdue /\ ~crossed =>
          op # "WRITE" /\ Pos + 1 = len /\ acked = regLen /\ shift = NoCommand
          /\ stops = 1
    BY <1>1, <1>a, <1>b, <1>c, <1>d
  <2> QED
    BY <1>a, <2>1, <2>2, <2>3, <2>4, DoneKeeps
<1>2. CASE ~(Pos + 1 >= len)
  <2> DEFINE c == [op |-> "r", stop |-> IsLast(Pos + 1)]
  <2>1. IsLast(Pos + 1) \in BOOLEAN
    BY DEF IsLast
  <2>2. c \in Commands /\ c # NoCommand /\ c.op = "r" /\ c.stop = IsLast(Pos + 1)
    BY <2>1, Pushed
  <2>3. Push(c, FALSE) /\ Pos' = Pos + 1 /\ IrqGoesOn /\ UNCHANGED <<State, RegPos, mask>>
    BY <1>2 DEF IrqRead
  <2>4. c.stop <=> len - (Pos + 1) <= 1
    BY <2>2 DEF IsLast
  <2> HIDE DEF c
  <2>5. /\ fifo' = c /\ stops' = stops + (IF len - (Pos + 1) <= 1 THEN 1 ELSE 0)
        /\ UNCHANGED <<Sem, timer, IsBusy, Result, cbs, State, RegPos, mask>>
    BY <2>3, <2>4 DEF Push, IrqGoesOn
  <2>6. Typed'
    BY <1>a, <2>2, <2>3, <2>5, Found DEF Typed
  <2>7. Bounds'
    BY <1>0, <1>a, <1>2, <2>3, <2>5, Found DEF Typed, Bounds
  <2>8. ASSUME ~overdue' PROVE Phases' /\ Runs'
    BY <1>0, <2>3, <2>5, <2>8, Found DEF Typed, Phases, Runs, Running
  <2>9. ASSUME ~overdue' PROVE UnderWay'
    BY <1>0, <1>a, <1>c, <2>2, <2>5, <2>9, NoneInside, Found
    DEF UnderWay, Running, Phases
  <2>10. ASSUME ~overdue', ~crossed' PROVE Accounts' /\ Whole'
    <3>1. stops' = IF Pos' + 1 = len THEN 1 ELSE 0
      BY <1>2, <1>a, <1>d, <2>3, <2>5, <2>10, Found
    <3> QED
      BY <1>0, <1>c, <1>d, <2>3, <2>5, <2>10, <3>1, NoneInside, Found
      DEF Typed, Accounts, Whole, Running, Phases
  <2> QED
    BY <2>6, <2>7, <2>8, <2>9, <2>10 DEF IInv
<1> QED
  BY <1>1, <1>2

LEMMA NothingKeeps == ASSUME IInv, Handles, IrqNothing PROVE IInv'
<1>0. ~seen /\ UNCHANGED <<State, Pos, RegPos, mask, fifo, rxf, stops, Sem, timer,
                           IsBusy, Result, cbs>>
  BY DEF IrqNothing, IrqGoesOn
<1>1. Typed'
  BY <1>0, Found DEF Typed
<1>2. Bounds'
  BY <1>0, Found DEF Typed, Bounds
<1>3. ASSUME ~overdue' PROVE Phases' /\ Runs'
  BY <1>0, <1>3, Found DEF Phases, Runs, Running
<1>4. ASSUME ~overdue' PROVE UnderWay'
  BY <1>0, <1>4, Found DEF UnderWay, Running
<1>5. ASSUME ~overdue', ~crossed' PROVE Accounts' /\ Whole'
  BY <1>0, <1>5, Found DEF Accounts, Whole, Running, One
<1> QED
  BY <1>1, <1>2, <1>3, <1>4, <1>5 DEF IInv

LEMMA HandleKeeps == ASSUME IInv, I2C_IrqHandle PROVE IInv'
<1>1. Handles
  BY DEF I2C_IrqHandle, Handles
<1>2. IrqAbort \/ IrqWrite \/ IrqAddress \/ IrqRead \/ IrqNothing
  BY DEF I2C_IrqHandle
<1> QED
  BY <1>1, <1>2, AbortKeeps, WriteKeeps, AddressKeeps, ReadKeeps, NothingKeeps

-----------------------------------------------------------------------------
LEMMA NextKeeps == IInv /\ [Next]_vars => IInv'
<1> SUFFICES ASSUME IInv, [Next]_vars PROVE IInv'
  OBVIOUS
<1>1. CASE \E o \in Ops, n \in Lengths, r \in RegLens, b \in BOOLEAN : Call(o, n, r, b)
  BY <1>1, CallKeeps
<1>2. CASE TaskStep
  BY <1>2, PrepareKeeps, XferKeeps, ProgramReadRegKeeps, ProgramReadKeeps,
     ProgramWriteKeeps, LockKeeps, ReturnKeeps DEF TaskStep
<1>3. CASE Tick \/ TimerUp \/ AbortEnds
  BY <1>3, TickKeeps, TimerUpKeeps, AbortEndsKeeps
<1>4. CASE IrqEnter \/ I2C_IrqHandle
  BY <1>4, IrqEnterKeeps, HandleKeeps
<1>5. CASE ChipTakes \/ ChipMoves \/ ChipAborts
  BY <1>5, ChipTakesKeeps, ChipMovesKeeps, ChipAbortsKeeps
<1>6. CASE UNCHANGED vars
  BY <1>6, SameIInv
<1> QED
  BY <1>1, <1>2, <1>3, <1>4, <1>5, <1>6 DEF Next

LEMMA Always == Spec => []IInv
<1> QED
  BY InitHolds, NextKeeps, PTL DEF Spec

(* The control block is well-typed and the positions stay within the       *)
(* caller's buffers; a transfer calls back exactly once, be it at its end, *)
(* on an abort or on the timeout; and no token is left in the semaphore    *)
(* for the next blocking call (but a timeout while it is programmed).      *)
THEOREM EndsOnce == Spec => []Inv
<1>1. IInv => TypeOK
  BY DEF IInv, Typed, Bounds, UnderWay, TypeOK
<1>2. IInv => OneCallback
  BY DEF IInv, Phases, OneCallback
<1>3. IInv => NoStaleToken
  BY DEF IInv, Phases, NoStaleToken
<1>4. IInv => Inv
  BY <1>1, <1>2, <1>3 DEF Inv
<1> QED
  BY <1>4, Always, PTL

(* When I2C_WaitResult says that the transfer is over, the interrupt is    *)
(* masked and no handler is on its way: the buffer is the caller's again.  *)
THEOREM BufferReleased == Spec => []BufferIsFree
<1>1. IInv => BufferIsFree
  BY DEF IInv, Phases, BufferIsFree
<1> QED
  BY <1>1, Always, PTL

(* A blocking call that returns 0 has read every byte, had every byte but  *)
(* the last acknowledged, and released the bus once.                       *)
THEOREM ZeroIsWhole == Spec => []SuccessIsWhole
<1>1. IInv => SuccessIsWhole
  BY DEF IInv, Whole, SuccessIsWhole
<1> QED
  BY <1>1, Always, PTL

=============================================================================

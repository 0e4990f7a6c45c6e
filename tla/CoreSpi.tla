------------------------------ MODULE CoreSpi ------------------------------
(***************************************************************************)
(* One SPI master (SPI0 to SPI2) of bsp/air105/hal/core_spi.c, with the    *)
(* two DMA streams it may own: SPI_BlockTransfer, SPI_FlashBlockTransfer,  *)
(* SPI_Transfer, SPI_TransferStop, SPI_IrqHandle, SPI_DMADoneCB, and       *)
(* luat_spi_no_block_transfer of application/src/luat_spi_air105.c.        *)
(*                                                                         *)
(* One task owns the bus.  It waits on a binary semaphore; the completion  *)
(* interrupt gives it when IsBlockMode is set.  What the semaphore cannot  *)
(* tell is whose completion it was: that is what the properties are about. *)
(*                                                                         *)
(* The FIFOs are counted, not stored.  A byte leaves the transmit FIFO for *)
(* the shift register, where TXFLR does not count it, and reaches the      *)
(* receive FIFO later, or is lost if that is full.  While the DMA streams  *)
(* move a transfer only what an earlier one left is counted here.          *)
(***************************************************************************)
EXTENDS Integers, FiniteSetsExt

CONSTANTS
  Fifo,      (* SPIM_FIFO_TX_NUM = SPIM_FIFO_RX_NUM                        *)
  TxLevel,   (* SPIM_FIFO_TX_LEVEL                                         *)
  Limit,     (* 4080: what a single DMA block may hold                     *)
  Chunk,     (* 4000: the block a longer transfer is cut into              *)
  BlockMax,  (* 4095: the largest block the hardware counts                *)
  PolledMax, (* UseDMAValue: up to this length a transfer is polled        *)
  SpiLengths, (* of the transfers                                           *)
  MaxCalls,  (* bound on the transfers started                             *)
  NoBlocks,  (* does the task use luat_spi_no_block_transfer?              *)
  Timeouts   (* may a wait run into its timeout?                           *)

ASSUME SpiAssumption ==
  /\ {Fifo, Limit, Chunk, BlockMax} \subseteq Nat \ {0} /\ Chunk <= Limit
  /\ Limit <= BlockMax
  /\ TxLevel \in 0..(Fifo - 1) /\ PolledMax \in Nat
  /\ SpiLengths \subseteq Nat \ {0} /\ MaxCalls \in Nat
  /\ NoBlocks \in BOOLEAN /\ Timeouts \in BOOLEAN

VARIABLES
  dma,         (* the two DMA streams are configured                       *)
  place, arg,  (* the task: where it is, the length it transfers           *)
  last,        (* what its last call returned                              *)
  IsBusy, IsBlockMode, sem,
  len,         (* MaxLen of both buffers                                   *)
  TxPos, RxPos,
  tx, rx,      (* fill of the two FIFOs: TXFLR, RXFLR                      *)
  shifter,     (* bytes in the shift register: 0 or 1                      *)
  unmasked,    (* IMR: "tx" (TXE), "rx" (RXF) or "none"                    *)
  rxftlr,      (* RXFTLR: RXF is raised above it                           *)
  spiLine,     (* the SPI interrupt line is on                             *)
  selected,    (* SER: the transmit FIFO is sent                           *)
  overrun,     (* RXO of the raw interrupt status, until ICR is read       *)
  ipc, txLen,  (* SPI_IrqHandle: where it is, its TxLen                    *)
  blk,         (* the DMA block under way, 0 when there is none            *)
  tfr,         (* StatusTfr: a block has ended                             *)
  moved,       (* history: bytes of the current transfer that were moved   *)
  lost,        (* history: bytes of it that a full FIFO did not take       *)
  stale,       (* history: the semaphore was full when it started          *)
  before,      (* history: bytes an earlier transfer had left on the way   *)
  started, stopped, called   (* history: transfers and call-backs          *)

task    == <<dma, place, arg, last>>
flags   == <<IsBusy, IsBlockMode, sem>>
positions == <<len, TxPos, RxPos>>
fifos   == <<tx, shifter, rx>>
regs    == <<unmasked, rxftlr, spiLine, selected, overrun>>
irq     == <<ipc, txLen>>
stream  == <<blk, tfr>>
counts  == <<moved, lost>>
history == <<stale, before, started, stopped>>
spiVars == <<task, flags, positions, fifos, regs, irq, stream, counts, history, called>>

Least(a, b) == Min({a, b})

SpiInit ==
  /\ dma \in BOOLEAN
  /\ place = "idle" /\ arg = 0 /\ last = "none"
  /\ IsBusy = FALSE /\ IsBlockMode = FALSE /\ sem = 0
  /\ len = 0 /\ TxPos = 0 /\ RxPos = 0
  /\ tx = 0 /\ rx = 0 /\ shifter = 0
  /\ unmasked = "none" /\ rxftlr = 0 /\ spiLine = FALSE
  /\ selected = FALSE /\ overrun = FALSE
  /\ ipc = "none" /\ txLen = 0
  /\ blk = 0 /\ tfr = FALSE
  /\ moved = 0 /\ lost = 0 /\ stale = FALSE /\ before = 0
  /\ started = 0 /\ stopped = 0 /\ called = 0

-----------------------------------------------------------------------------
(* Pieces of the transfers.                                                *)

Block(n) == IF n > Limit THEN Chunk ELSE n

(* The bytes sent and not yet read back.                                   *)
OnTheWay == tx + shifter + rx

(* SER = 0: a byte in the shift register is cut off, or goes on and lands  *)
(* later.                                                                  *)
Deselected == selected' = FALSE /\ shifter' \in {shifter, 0}

(* SPI_Transfer once it has found the bus free.                            *)
DmaStart(n) ==
  /\ TxPos' = Block(n) /\ RxPos' = Block(n)
  /\ blk' = Block(n) /\ tfr' = FALSE
  /\ unmasked' = "none" /\ spiLine' = FALSE /\ overrun' = FALSE
  /\ lost' = 0
  /\ UNCHANGED <<tx, rx, rxftlr>>

(* A write to a full transmit FIFO is dropped, which only happens if it    *)
(* was not empty to begin with.                                            *)
FifoStart(n) ==
  /\ TxPos' = Least(n, Fifo) /\ RxPos' = 0
  /\ tx' = Least(tx + Least(n, Fifo), Fifo)
  /\ lost' = tx + Least(n, Fifo) - tx'
  /\ IF n <= Fifo THEN unmasked' = "rx" /\ rxftlr' = n - 1
                  ELSE unmasked' = "tx" /\ UNCHANGED rxftlr
  /\ spiLine' = TRUE
  /\ UNCHANGED <<rx, overrun, stream>>

SPI_Transfer(n, useDma) ==
  /\ ~IsBusy /\ started < MaxCalls
  /\ IsBusy' = TRUE
  /\ len' = n /\ moved' = 0
  /\ shifter' \in {shifter, 0} /\ selected' = TRUE
  /\ before' = tx + shifter' + rx
  /\ IF useDma THEN DmaStart(n) ELSE FifoStart(n)
  /\ stale' = (sem = 1) /\ started' = started + 1
  /\ UNCHANGED <<dma, sem, irq, stopped, called>>

(* The end of a transfer, in either interrupt.  The call-back is the       *)
(* user's; the semaphore is binary.                                        *)
Give == 1

Finished ==
  /\ IsBusy' = FALSE
  /\ IF IsBlockMode THEN IsBlockMode' = FALSE /\ sem' = Give
                    ELSE UNCHANGED <<IsBlockMode, sem>>
  /\ called' = called + 1

-----------------------------------------------------------------------------
(* The task.  It runs only while no interrupt handler does.                *)

TaskRuns == ipc = "none"

(* SPI_BlockTransfer and SPI_FlashBlockTransfer of at most UseDMAValue     *)
(* bytes: polled with the line off, so nothing else sees the middle of it. *)
(* It reads as many bytes as it sends: those an earlier transfer left come *)
(* first, and as many of its own stay behind, or are cut off.              *)
(* The caller has to know that the bus is free: the code does not ask.     *)
PolledTransfer(n) ==
  /\ TaskRuns /\ place = "idle" /\ ~IsBusy /\ started < MaxCalls
  /\ n <= PolledMax
  /\ IsBlockMode' = FALSE
  /\ spiLine' = FALSE
  /\ before' \in {OnTheWay, tx + rx}
  /\ tx' \in 0..before' /\ shifter' \in 0..Least(before', 1) /\ rx' \in 0..before'
  /\ OnTheWay' <= before'
  /\ selected' = FALSE
  /\ overrun' \in {overrun, overrun \/ before' > 0}
  /\ len' = n /\ TxPos' = n /\ RxPos' = n /\ moved' = n /\ lost' = 0
  /\ last' = "ok" /\ stale' = FALSE
  /\ started' = started + 1 /\ called' = called + 1
  /\ UNCHANGED <<dma, place, arg, IsBusy, sem, unmasked, rxftlr, irq, stream, stopped>>

(* A longer one announces that it will wait...                             *)
BlockTransfer(n) ==
  /\ TaskRuns /\ place = "idle" /\ started < MaxCalls
  /\ n > PolledMax
  /\ IsBlockMode' = TRUE
  /\ place' = "start" /\ arg' = n
  /\ UNCHANGED <<dma, last, IsBusy, sem, positions, fifos, regs, irq, stream, counts,
                 history, called>>

(* ... starts, ...                                                         *)
BlockStart ==
  /\ TaskRuns /\ place = "start"
  /\ SPI_Transfer(arg, dma)
  /\ place' = "wait"
  /\ UNCHANGED <<arg, last, IsBlockMode>>

(* ... or finds the bus busy and gives up.                                 *)
BlockBusy ==
  /\ TaskRuns /\ place = "start" /\ IsBusy
  /\ IsBlockMode' = FALSE
  /\ place' = "idle" /\ last' = "busy"
  /\ UNCHANGED <<dma, arg, IsBusy, sem, positions, fifos, regs, irq, stream, counts,
                 history, called>>

(* OS_MutexLockWtihTime takes the semaphore, or runs out of time.          *)
Take ==
  /\ TaskRuns /\ place = "wait" /\ sem = 1
  /\ sem' = 0
  /\ place' = "took"
  /\ UNCHANGED <<dma, arg, last, IsBusy, IsBlockMode, positions, fifos, regs, irq,
                 stream, counts, history, called>>

Return ==
  /\ TaskRuns /\ place = "took"
  /\ IsBlockMode' = FALSE
  /\ place' = "idle" /\ last' = "ok"
  /\ UNCHANGED <<dma, arg, IsBusy, sem, positions, fifos, regs, irq, stream, counts,
                 history, called>>

Timeout ==
  /\ TaskRuns /\ place = "wait" /\ sem = 0 /\ Timeouts
  /\ place' = "late"
  /\ UNCHANGED <<dma, arg, last, flags, positions, fifos, regs, irq, stream, counts,
                 history, called>>

StopBusOnly == UNCHANGED stream      \* mutant: the DMA streams left running
StopStreams == blk' = 0 /\ tfr' = FALSE

(* SPI_TransferStop silences the interrupt and the streams, which may have *)
(* filled the FIFOs to any level, waits for the transmit FIFO to run dry,  *)
(* empties the other one and frees the bus; then the call returns -1.  The *)
(* last byte may still be in the shift register then, and land afterwards. *)
StopBegin ==
  /\ TaskRuns /\ place = "late"
  /\ spiLine' = FALSE
  /\ IF blk > 0 THEN tx' \in 0..Fifo /\ shifter' \in 0..1 /\ rx' \in 0..Fifo
                ELSE UNCHANGED fifos
  /\ StopStreams
  /\ place' = "stop"
  /\ UNCHANGED <<dma, arg, last, flags, positions, unmasked, rxftlr, selected, overrun,
                 irq, counts, history, called>>

StopEnd ==
  /\ TaskRuns /\ place = "stop" /\ tx = 0
  /\ rx' = 0
  /\ Deselected
  /\ IsBusy' = FALSE /\ IsBlockMode' = FALSE
  /\ stopped' = stopped + (IF IsBusy THEN 1 ELSE 0)
  /\ place' = "idle" /\ last' = "timeout"
  /\ UNCHANGED <<dma, arg, sem, positions, tx, unmasked, rxftlr, spiLine, overrun, irq,
                 stream, counts, stale, before, started, called>>

(* luat_spi_no_block_transfer: SPI_SetNoBlock sets IsBlockMode, and the    *)
(* transfer runs through the FIFOs even when DMA is configured.            *)
NoBlockTransfer(n) ==
  /\ TaskRuns /\ place = "idle" /\ NoBlocks
  /\ IsBlockMode' = TRUE
  /\ SPI_Transfer(n, FALSE)
  /\ last' = "none"
  /\ UNCHANGED <<place, arg>>

-----------------------------------------------------------------------------
(* The hardware: a byte is sent, a byte is received; a DMA block ends.     *)

Shift ==
  /\ selected /\ tx > 0 /\ shifter = 0
  /\ tx' = tx - 1 /\ shifter' = 1
  /\ UNCHANGED <<task, flags, positions, rx, regs, irq, stream, counts, history, called>>

Land ==
  /\ shifter = 1
  /\ shifter' = 0
  /\ IF rx < Fifo THEN rx' = rx + 1 /\ UNCHANGED <<overrun, lost>>
                  ELSE overrun' = TRUE /\ lost' = lost + 1 /\ UNCHANGED rx
  /\ UNCHANGED <<task, flags, positions, tx, unmasked, rxftlr, spiLine, selected, irq,
                 stream, moved, history, called>>

(* The receive stream has its bytes: first those that were on the way      *)
(* before the block, so that as many stay behind it.                       *)
BlockEnds ==
  /\ blk > 0
  /\ moved' = moved + blk
  /\ blk' = 0 /\ tfr' = TRUE
  /\ tx' \in 0..OnTheWay /\ shifter' \in 0..1 /\ rx' \in 0..OnTheWay
  /\ OnTheWay' = OnTheWay
  /\ UNCHANGED <<task, flags, positions, regs, irq, lost, history, called>>

(* DMA_IrqHandle clears the flag and calls SPI_DMADoneCB, which starts the *)
(* next block or ends the transfer.                                        *)
MoreBeyondBlock == len - RxPos > Chunk     \* mutant: the last block dropped
More == len > RxPos

DMADone ==
  /\ tfr /\ ipc = "none"
  /\ tfr' = FALSE
  /\ IF More
       THEN LET n == Block(len - RxPos) IN
            /\ blk' = n /\ TxPos' = TxPos + n /\ RxPos' = RxPos + n
            /\ UNCHANGED <<flags, called>>
       ELSE Finished /\ UNCHANGED <<blk, TxPos, RxPos>>
  /\ UNCHANGED <<task, len, fifos, regs, irq, counts, history>>

-----------------------------------------------------------------------------
(* SPI_IrqHandle.  Bytes go on crossing the bus while it runs.             *)

Raised ==
  /\ spiLine
  /\ \/ unmasked = "tx" /\ tx <= TxLevel
     \/ unmasked = "rx" /\ (rx > rxftlr \/ overrun)

(* TXFLR is read first, then ICR, which takes the overrun away.            *)
IrqEnter ==
  /\ Raised /\ ipc = "none"
  /\ overrun' = FALSE
  /\ IF IsBusy
       THEN ipc' = "drain" /\ txLen' = Fifo - tx
            /\ UNCHANGED <<unmasked, spiLine, selected, shifter>>
       ELSE unmasked' = "none" /\ spiLine' = FALSE /\ Deselected /\ UNCHANGED irq
  /\ UNCHANGED <<task, flags, positions, tx, rx, rxftlr, stream, counts, history, called>>

IrqDrain ==
  /\ ipc = "drain"
  /\ rx' = 0 /\ RxPos' = RxPos + rx /\ moved' = moved + rx
  /\ ipc' = "decide"
  /\ UNCHANGED <<task, flags, len, TxPos, tx, shifter, regs, txLen, stream, lost, history,
                 called>>

IrqDone ==
  /\ ipc = "decide" /\ RxPos >= len
  /\ unmasked' = "none" /\ spiLine' = FALSE /\ overrun' = FALSE
  /\ Deselected
  /\ Finished
  /\ ipc' = "none"
  /\ UNCHANGED <<task, positions, tx, rx, rxftlr, txLen, stream, counts, history>>

RoomNow == Fifo - tx        \* mutant: TXFLR read after the receive FIFO is drained
FifoRoom == txLen

IrqFill ==
  /\ ipc = "decide" /\ RxPos < len /\ TxPos < len
  /\ LET n == Least(FifoRoom, len - TxPos) IN
       /\ tx' = tx + n
       /\ TxPos' = TxPos + n
  /\ ipc' = "none"
  /\ UNCHANGED <<task, flags, len, RxPos, rx, shifter, regs, txLen, stream, counts, history,
                 called>>

LevelOfRest(rest) == rest       \* mutant: the -1 forgotten
Level(rest) == rest - 1

(* Everything is queued: from now on the receive FIFO interrupts, when it  *)
(* is full or holds all that is still to come.                             *)
IrqTail ==
  /\ ipc = "decide" /\ RxPos < len /\ TxPos >= len
  /\ rxftlr' = Level(Least(len - RxPos, Fifo))
  /\ unmasked' = "rx"
  /\ ipc' = "none"
  /\ UNCHANGED <<task, flags, positions, fifos, spiLine, selected, overrun, txLen, stream, counts, history,
                 called>>

-----------------------------------------------------------------------------
Call == \E n \in SpiLengths : PolledTransfer(n) \/ BlockTransfer(n) \/ NoBlockTransfer(n)
Going == BlockStart \/ BlockBusy \/ Take \/ Return \/ StopBegin \/ StopEnd
SpiHandler == DMADone \/ IrqEnter \/ IrqDrain \/ IrqDone \/ IrqFill \/ IrqTail
Bus == Shift \/ Land \/ BlockEnds

SpiNext == Call \/ Going \/ Timeout \/ SpiHandler \/ Bus

(* The task goes on, interrupts are served, the bus moves what it is       *)
(* given.  No timeout is ever forced.                                      *)
SpiFairness ==
  /\ WF_spiVars(Going) /\ WF_spiVars(SpiHandler)
  /\ WF_spiVars(Shift) /\ WF_spiVars(Land) /\ WF_spiVars(BlockEnds)

SpiSpec == SpiInit /\ [][SpiNext]_spiVars /\ SpiFairness

-----------------------------------------------------------------------------
(* Every variable has the values its type allows; the semaphore is binary. *)
SpiTypeOK ==
  /\ dma \in BOOLEAN
  /\ place \in {"idle", "start", "wait", "took", "late", "stop"}
  /\ last \in {"none", "ok", "busy", "timeout"}
  /\ IsBusy \in BOOLEAN /\ IsBlockMode \in BOOLEAN /\ sem \in 0..1
  /\ arg \in Nat /\ len \in Nat /\ TxPos \in Nat /\ RxPos \in Nat
  /\ tx \in Nat /\ rx \in Nat /\ shifter \in 0..1
  /\ rxftlr \in Nat /\ blk \in Nat /\ moved \in Nat /\ lost \in Nat
  /\ unmasked \in {"tx", "rx", "none"} /\ spiLine \in BOOLEAN /\ tfr \in BOOLEAN
  /\ selected \in BOOLEAN /\ overrun \in BOOLEAN
  /\ ipc \in {"none", "drain", "decide"} /\ txLen \in 0..Fifo
  /\ stale \in BOOLEAN /\ before \in Nat
  /\ started \in 0..MaxCalls /\ stopped \in Nat /\ called \in Nat

(* SPI_BlockTransfer returns 0 only when the bus has moved every byte of   *)
(* it (core_spi.h calls it a polled transfer).                             *)
DoneMeansMoved ==
  [][place = "took" /\ place' = "idle" => moved >= len + before]_spiVars

(* A call that returns 0 with bytes of its own still to come was woken by  *)
(* a token that was in the semaphore before its transfer started; or it is *)
(* one byte short, because a transfer stopped earlier had left one on the  *)
(* way (core_spi.c:1113), which was counted for its own.                   *)
OnlyStaleTokens ==
  [][place = "took" /\ place' = "idle" /\ moved < len + before
       => stale \/ (stopped > 0 /\ before = 1 /\ moved >= len)]_spiVars

(* What is queued never exceeds the transmit FIFO, nor what is on the way  *)
(* the receive FIFO by more than the byte in the shift register, which     *)
(* TXFLR does not count (core_spi.c:288): SPI_IrqHandle reads it before it *)
(* drains the receive FIFO, and fills no more than that.  So at most one   *)
(* byte is lost between two visits, and only by one that comes when the    *)
(* transmit FIFO has run dry.                                              *)
FifoFits == tx <= Fifo /\ rx <= Fifo /\ (spiLine => OnTheWay <= Fifo + 1)

(* Neither interrupt runs past the buffers, but for a byte that an earlier *)
(* transfer had left on the way; no DMA block is longer than the hardware  *)
(* can count.                                                              *)
InBounds == TxPos <= len /\ RxPos <= len + before /\ blk <= BlockMax

(* A transfer that is over leaves at most one byte on the way, and none if *)
(* no transfer has ever been stopped.                                      *)
LeftByStop ==
  /\ before <= 1 /\ (~IsBusy => OnTheWay <= 1)
  /\ stopped = 0 => before = 0 /\ (~IsBusy => OnTheWay = 0)

(* When the call has returned -1 the bus is free, the streams are still    *)
(* and no end can be reported any more; the last byte may be on its way.   *)
TimeoutIsQuiet ==
  last = "timeout" /\ place = "idle" => ~IsBusy /\ blk = 0 /\ ~tfr /\ OnTheWay <= 1

(* Every transfer that started is under way, was stopped, or was reported  *)
(* by exactly one call-back.                                               *)
OneCallback == started = called + stopped + (IF IsBusy THEN 1 ELSE 0)

SpiInv ==
  /\ SpiTypeOK /\ FifoFits /\ InBounds /\ LeftByStop /\ OneCallback /\ TimeoutIsQuiet

(* A transfer that is under way ends, by itself or by being stopped, or    *)
(* has lost more bytes than an earlier one had left for it: the interrupt  *)
(* thresholds never wait for bytes that will not come for another reason.  *)
TransferEnds == IsBusy ~> (~IsBusy \/ (spiLine /\ lost > before))
=============================================================================

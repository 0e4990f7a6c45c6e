----------------------------- MODULE CoreUartTx -----------------------------
(***************************************************************************)
(* The transmitter of one UART: Uart_BufferTx, Uart_BufferTxStop, the      *)
(* transmit half of the interrupt handler and Uart_DeInit of               *)
(* bsp/air105/hal/core_uart.c.                                             *)
(*                                                                         *)
(* One task writes; it masks the UART's interrupt line while it touches    *)
(* the buffers, and switches the transmit interrupts on only after it has  *)
(* unmasked the line.  The handler runs whole: no task sees the middle of  *)
(* it.  The hardware takes bytes from the FIFO whenever it likes, also in  *)
(* the middle of the loops that fill it.  Bytes are numbered as written.   *)
(***************************************************************************)
EXTENDS Integers, Sequences, SequencesExt

CONSTANTS
  TxDepth,   (* of the transmit FIFO                                     *)
  TxTrigger, (* a quarter of it: the level PTIME interrupts at           *)
  Lengths,   (* the lengths written                                      *)
  MaxWritten (* bound on the bytes written                               *)

ASSUME UartTxAssumption ==
  /\ TxDepth \in Nat \ {0} /\ TxTrigger \in 0..(TxDepth - 1)
  /\ Lengths \subseteq Nat \ {0} /\ MaxWritten \in Nat

VARIABLES
  open,    (* between Uart_BaseInit and Uart_DeInit                       *)
  txOn,    (* TxBuf.Data # NULL                                           *)
  txBuf,   (* the bytes of TxBuf from Pos on                              *)
  cache,   (* TxCacheBuf                                                  *)
  txFifo,  (* the transmit FIFO                                           *)
  sent,    (* the bytes sent                                              *)
  ptime,   (* IER: interrupt at Trigger already                           *)
  etbei,   (* IER: interrupt when the FIFO is empty                       *)
  writer,  (* the writing task                                            *)
  returned,(* what Uart_BufferTx returned last                            *)
  written, (* history: the bytes accepted and not dropped by a stop       *)
  told     (* history: the last call-back since the last write            *)

buffers == <<txOn, txBuf, cache>>
line    == <<txFifo, sent>>
ier     == <<ptime, etbei>>
txVars == <<open, buffers, line, ier, writer, returned, written, told>>

TxInit ==
  /\ open = FALSE
  /\ txOn = FALSE /\ txBuf = <<>> /\ cache = <<>>
  /\ txFifo = <<>> /\ sent = <<>>
  /\ ptime = FALSE /\ etbei = FALSE
  /\ writer = "idle" /\ returned = 0
  /\ written = <<>> /\ told = "none"

-----------------------------------------------------------------------------
(***************************************************************************)
(* What a loop that fills the FIFO from s may come to: n bytes were put,   *)
(* gone left the FIFO meanwhile, and it ended for want of bytes or room.   *)
(***************************************************************************)
Outcome(f, w, s, n, gone) ==
  [fifo |-> SubSeq(f \o s, gone + 1, Len(f) + n),
   wire |-> w \o SubSeq(f \o s, 1, gone),
   left |-> SubSeq(s, n + 1, Len(s))]

Filled(f, w, s) ==
  {o \in {Outcome(f, w, s, n, gone) : n \in 0..Len(s), gone \in 0..Len(f \o s)} :
     /\ Len(o.wire) + Len(o.fifo) + Len(o.left) = Len(w) + Len(f \o s)
     /\ Len(o.fifo) <= TxDepth
     /\ o.left # <<>> => Len(o.fifo) = TxDepth}

(***************************************************************************)
(* Uart_BufferTx from "TxBuf is free" on: the cache becomes TxBuf, the     *)
(* FIFO is filled, and what is left decides which interrupts are wanted.   *)
(***************************************************************************)
Start(f, w, c) ==
  {[buf |-> o.left, cache |-> <<>>, fifo |-> o.fifo, wire |-> o.wire,
    more |-> o.left # <<>>] : o \in Filled(f, w, c)}

Store(o) ==
  /\ txOn' = o.more
  /\ txBuf' = o.buf
  /\ cache' = o.cache
  /\ txFifo' = o.fifo
  /\ sent' = o.wire

-----------------------------------------------------------------------------
(* The n bytes that follow those written or dropped so far.                *)
Fresh(n) == [i \in 1..n |-> Len(written) + i]

BaseInit ==
  /\ ~open /\ writer = "idle"
  /\ open' = TRUE
  /\ txFifo' = <<>> /\ written' = sent
  /\ UNCHANGED <<buffers, sent, ier, writer, returned, told>>

WriteOvertakes(bytes) ==           \* mutant: a waiting TxBuf is overtaken
  /\ \E o \in Start(txFifo, sent, bytes) :
       /\ txFifo' = o.fifo /\ sent' = o.wire
       /\ cache' = cache \o o.buf
  /\ returned' = 0
  /\ UNCHANGED <<txOn, txBuf, writer, ier>>

(* TxBuf is busy: the bytes wait in the cache.                             *)
WriteBusy(bytes) ==
  /\ txOn
  /\ cache' = cache \o bytes
  /\ returned' = 0
  /\ UNCHANGED <<txOn, txBuf, line, writer, ier>>

WriteFree(bytes) ==
  /\ ~txOn
  /\ \E o \in Start(txFifo, sent, cache \o bytes) :
       /\ Store(o)
       /\ writer' = IF o.more THEN "enableBoth" ELSE "enableEmpty"
       /\ returned' = IF o.more THEN 1 ELSE 0
  /\ ptime' = FALSE /\ etbei' = FALSE

(* The line is masked in all of it.                                        *)
BufferTx(n) ==
  /\ open /\ writer = "idle"
  /\ Len(written) + n <= MaxWritten
  /\ LET bytes == Fresh(n) IN
       /\ WriteBusy(bytes) \/ WriteFree(bytes)
       /\ written' = written \o bytes
  /\ told' = "waiting"
  /\ UNCHANGED open

EnableNothing ==                   \* mutant: interrupts left off
  /\ writer \in {"enableBoth", "enableEmpty"}
  /\ writer' = "idle"
  /\ UNCHANGED <<open, buffers, line, ier, returned, written, told>>

(* IER |= ...: the handler may have run between its read and its write.    *)
Enable ==
  /\ writer \in {"enableBoth", "enableEmpty"}
  /\ writer' = "idle"
  /\ etbei' = TRUE
  /\ ptime' \in IF writer = "enableBoth" THEN {TRUE} ELSE {ptime, FALSE}
  /\ UNCHANGED <<open, buffers, line, returned, written, told>>

(***************************************************************************)
(* Uart_BufferTxStop: IER first, the buffers once the line is masked.      *)
(* Uart_DeInit clears IER, stops, and leaves the line masked.              *)
(***************************************************************************)
Stop(closing) ==
  /\ open /\ writer = "idle"
  /\ writer' = "stop"
  /\ open' = ~closing
  /\ ptime' = FALSE /\ etbei' = FALSE
  /\ UNCHANGED <<buffers, line, returned, written, told>>

StopBuffers ==
  /\ writer = "stop"
  /\ writer' = "idle"
  /\ txOn' = FALSE /\ txBuf' = <<>>
  /\ cache' = <<>>
  /\ written' = sent \o txFifo
  /\ told' = "none"
  /\ UNCHANGED <<open, line, ier, returned>>

-----------------------------------------------------------------------------
(***************************************************************************)
(* prvUart_Tx goes on with TxBuf and, when that is used up, with the cache *)
(* through Uart_BufferTx(NULL, 0), which clears PTIME.  With nothing left  *)
(* it switches off the interrupt that came and calls back.                 *)
(***************************************************************************)
GoOnLeavesCache ==                 \* mutant: the cache waits for the next write
  /\ txOn \/ cache # <<>>
  /\ \E o \in Filled(txFifo, sent, txBuf) :
       /\ txBuf' = o.left /\ txFifo' = o.fifo /\ sent' = o.wire
       /\ txOn' = (o.left # <<>>)
       /\ etbei' = txOn'
       /\ UNCHANGED <<cache, ptime, told>>

GoOn ==
  /\ txOn \/ cache # <<>>
  /\ \E o \in Filled(txFifo, sent, txBuf) :
       \/ /\ o.left # <<>>
          /\ txBuf' = o.left /\ txFifo' = o.fifo /\ sent' = o.wire
          /\ UNCHANGED <<txOn, cache, ier, told>>
       \/ /\ o.left = <<>>
          /\ \E next \in Start(o.fifo, o.wire, cache) :
               /\ Store(next)
               /\ ptime' = next.more /\ etbei' = next.more
               /\ told' = IF next.more THEN told ELSE "all"

NothingLeft ==
  /\ ~txOn /\ cache = <<>>
  /\ \/ /\ ptime
        /\ ptime' = FALSE
        /\ told' = "buffer"
        /\ UNCHANGED etbei
     \/ /\ ~ptime
        /\ etbei' = FALSE
        /\ told' = "all"
        /\ UNCHANGED ptime
  /\ UNCHANGED <<buffers, line>>

Tx ==
  /\ GoOn \/ NothingLeft
  /\ UNCHANGED <<open, writer, returned, written>>

(* UART_IT_ID_TX_EMPTY.                                                    *)
TxEmpty ==
  /\ open /\ etbei
  /\ Len(txFifo) <= IF ptime THEN TxTrigger ELSE 0
  /\ Tx

(* UART_IT_ID_LINE_STATUS, for an error of the receiver, with TEMT set.    *)
LineStatus ==
  /\ open
  /\ txFifo = <<>>
  /\ Tx

(* The hardware sends a byte; it stops when its divisor is 0.              *)
Drain ==
  /\ open
  /\ txFifo # <<>>
  /\ txFifo' = Tail(txFifo)
  /\ sent' = Append(sent, Head(txFifo))
  /\ UNCHANGED <<open, buffers, ier, writer, returned, written, told>>

-----------------------------------------------------------------------------
TxNext ==
  \/ BaseInit
  \/ \E n \in Lengths : BufferTx(n)
  \/ Enable
  \/ \E closing \in BOOLEAN : Stop(closing)
  \/ StopBuffers
  \/ TxEmpty
  \/ LineStatus
  \/ Drain

(* The hardware sends, its interrupt is served, a call once made goes on.  *)
TxFairness ==
  /\ WF_txVars(Drain)
  /\ WF_txVars(TxEmpty)
  /\ WF_txVars(Enable \/ StopBuffers)

TxSpec == TxInit /\ [][TxNext]_txVars /\ TxFairness

-----------------------------------------------------------------------------
Bytes == 1..MaxWritten

TxTypeOK ==
  /\ open \in BOOLEAN /\ txOn \in BOOLEAN
  /\ txBuf \in Seq(Bytes) /\ cache \in Seq(Bytes)
  /\ txFifo \in Seq(Bytes) /\ Len(txFifo) <= TxDepth
  /\ sent \in Seq(Bytes)
  /\ ptime \in BOOLEAN /\ etbei \in BOOLEAN
  /\ writer \in {"idle", "enableBoth", "enableEmpty", "stop"}
  /\ returned \in {0, 1}
  /\ written \in Seq(Bytes)
  /\ told \in {"none", "waiting", "buffer", "all"}

(***************************************************************************)
(* The bytes leave in the order written, none lost and none twice, however *)
(* they pass through the cache, TxBuf and the FIFO (core_uart.c:436-485,   *)
(* 603-643).                                                               *)
(***************************************************************************)
SentInOrder == sent \o txFifo \o txBuf \o cache = written

(***************************************************************************)
(* The transmitter never stalls: while bytes wait in a buffer, or a writer *)
(* waits for TX_ALL_DONE, the interrupt that goes on is enabled, or the    *)
(* task is about to enable it (core_uart.c:447-484, 629-642).              *)
(***************************************************************************)
Armed ==
  open /\ writer = "idle" /\ (txOn \/ cache # <<>> \/ told \in {"waiting", "buffer"})
    => etbei

(***************************************************************************)
(* A stop leaves no byte of an earlier write to be sent with a later one   *)
(* (core_uart.c:488-496).                                                  *)
(***************************************************************************)
StopDrops == told = "none" => cache = <<>> /\ txBuf = <<>>

TxInv == TxTypeOK /\ SentInOrder /\ Armed /\ StopDrops

(***************************************************************************)
(* A write is answered by TX_ALL_DONE unless the transmitter is stopped    *)
(* (core_uart.c:629-642).                                                  *)
(***************************************************************************)
Answered == told = "waiting" ~> told \in {"none", "all"}

(***************************************************************************)
(* core_uart.h:99 of Uart_BufferTx: when it returns 0, all the data are in *)
(* the FIFO.                                                               *)
(***************************************************************************)
ZeroMeansInFifo ==
  [][written' # written /\ writer = "idle" /\ open /\ open' /\ returned' = 0
       => cache' = <<>> /\ txBuf' = <<>>]_txVars
=============================================================================

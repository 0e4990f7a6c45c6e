----------------------------- MODULE CoreUartRx -----------------------------
(***************************************************************************)
(* The receiver of one UART in cache mode and the message protocol on top  *)
(* of it: bsp/air105/hal/core_uart.c and luat_uart_cb, luat_uart_read and  *)
(* luat_uart_clear_rx_cache of application/src/luat_uart_air105.c.         *)
(*                                                                         *)
(* The interrupt moves bytes from the FIFO to RxBuf and posts one message, *)
(* marked by rx_mark, until the reader unmarks; the reader unmarks before  *)
(* each read and reads until it gets nothing.  RxBuf is touched by the     *)
(* tasks with the interrupt line masked, so each such part is one step.    *)
(***************************************************************************)
EXTENDS Integers, Sequences, SequencesExt

CONSTANTS
  Depth,       (* of the receive FIFO                                      *)
  Trigger,     (* half of it: UART_FIFO_RX_Trigger_1_2_Full                *)
  Burst,       (* bytes taken at the trigger (7)                           *)
  Margin,      (* RxBuf grows when it has less room than this (32)         *)
  InitLen,     (* RX_BUF_INIT                                              *)
  HighLen,     (* RX_BUF_HIGH                                              *)
  BufferSize,  (* RxBufferSize: tell the reader without waiting for a gap  *)
  ReadLens,    (* the lengths asked for                                    *)
  MaxBytes     (* bound on the bytes received                              *)

(* 8 and 33 are passed to Uart_CacheRead, which reads one less: at the       *)
(* trigger bytes stay behind, and a gap empties the FIFO.                    *)
ASSUME UartRxAssumption ==
  /\ Depth \in Nat /\ Margin \in Nat
  /\ Burst \in 1..(Trigger - 1) /\ Trigger \in 1..Depth
  /\ Depth <= Margin /\ 2 * (Trigger - 1) <= Margin
  /\ InitLen \in Nat /\ Margin <= InitLen /\ HighLen \in Nat
  /\ BufferSize \in Nat \ {0} /\ ReadLens \subseteq Nat \ {0}
  /\ MaxBytes \in Nat

VARIABLES
  fifo,    (* the receive FIFO                                            *)
  rxBuf,   (* RxBuf.Data up to Pos                                        *)
  maxLen,  (* RxBuf.MaxLen                                                *)
  mark,    (* rx_mark                                                     *)
  msgs,    (* messages for this UART on the message bus                   *)
  pc,      (* the reading task                                            *)
  wire,    (* history: the number of bytes received                       *)
  taken    (* history: the bytes read or cleared                          *)

vars == <<fifo, rxBuf, maxLen, mark, msgs, pc, wire, taken>>

Init ==
  /\ fifo = <<>> /\ rxBuf = <<>> /\ maxLen = InitLen
  /\ mark = FALSE /\ msgs = 0
  /\ pc = "idle"
  /\ wire = 0 /\ taken = <<>>

-----------------------------------------------------------------------------
(***************************************************************************)
(* The interrupt handler.  Uart_CacheRead writes first and grows RxBuf     *)
(* afterwards, on what was in it before.                                   *)
(***************************************************************************)
GrowFull == IF Len(rxBuf) >= maxLen THEN 2 * maxLen ELSE maxLen  \* mutant: no margin

Grow == IF Len(rxBuf) + Margin > maxLen THEN 2 * maxLen ELSE maxLen

CacheRead(n) ==
  /\ rxBuf' = rxBuf \o SubSeq(fifo, 1, n)
  /\ fifo' = SubSeq(fifo, n + 1, Len(fifo))
  /\ maxLen' = Grow

Notify ==
  \/ /\ mark
     /\ UNCHANGED <<mark, msgs>>
  \/ /\ ~mark
     /\ mark' = TRUE
     /\ msgs' = msgs + 1

ReceivedAll ==                     \* mutant: the FIFO is emptied at the trigger
  /\ Len(fifo) >= Trigger
  /\ CacheRead(Len(fifo))
  /\ IF Len(rxBuf') > BufferSize THEN Notify ELSE UNCHANGED <<mark, msgs>>
  /\ UNCHANGED <<pc, wire, taken>>

(* UART_IT_ID_RX_RECVD.                                                    *)
Received ==
  /\ Len(fifo) >= Trigger
  /\ CacheRead(Burst)
  /\ IF Len(rxBuf') > BufferSize THEN Notify ELSE UNCHANGED <<mark, msgs>>
  /\ UNCHANGED <<pc, wire, taken>>

(* UART_IT_ID_CHAR_TIMEOUT: bytes below the trigger and a gap on the line. *)
Gap ==
  /\ fifo # <<>> /\ Len(fifo) < Trigger
  /\ CacheRead(Len(fifo))
  /\ Notify
  /\ UNCHANGED <<pc, wire, taken>>

Arrive ==
  /\ wire < MaxBytes /\ Len(fifo) < Depth
  /\ wire' = wire + 1
  /\ fifo' = Append(fifo, wire')
  /\ UNCHANGED <<rxBuf, maxLen, mark, msgs, pc, taken>>

-----------------------------------------------------------------------------
(***************************************************************************)
(* The reader.                                                             *)
(***************************************************************************)
TakeMessage ==
  /\ pc = "idle" /\ msgs > 0
  /\ msgs' = msgs - 1
  /\ pc' = "unmark"
  /\ UNCHANGED <<fifo, rxBuf, maxLen, mark, wire, taken>>

Unmark ==
  /\ pc = "unmark"
  /\ mark' = FALSE
  /\ pc' = "read"
  /\ UNCHANGED <<fifo, rxBuf, maxLen, msgs, wire, taken>>

Shrink == IF rxBuf' = <<>> /\ maxLen > HighLen THEN InitLen ELSE maxLen

RestDropped(n) == <<>>                             \* mutant: Pos = 0, no memmove

Rest(n) == SubSeq(rxBuf, n + 1, Len(rxBuf))

(* Uart_RxBufferRead; the reader stops when it got nothing.                *)
Read(len) ==
  /\ pc = "read"
  /\ LET n == IF Len(rxBuf) < len THEN Len(rxBuf) ELSE len IN
       /\ taken' = taken \o SubSeq(rxBuf, 1, n)
       /\ rxBuf' = Rest(n)
       /\ pc' = IF n = 0 THEN "idle" ELSE "unmark"
  /\ maxLen' = Shrink
  /\ UNCHANGED <<fifo, mark, msgs, wire>>

ClearUnmark ==
  /\ pc = "idle"
  /\ mark' = FALSE
  /\ pc' = "clear"
  /\ UNCHANGED <<fifo, rxBuf, maxLen, msgs, wire, taken>>

Clear ==
  /\ pc = "clear"
  /\ taken' = taken \o rxBuf
  /\ rxBuf' = <<>>
  /\ pc' = "idle"
  /\ UNCHANGED <<fifo, maxLen, mark, msgs, wire>>

-----------------------------------------------------------------------------
Reader == TakeMessage \/ Unmark \/ (\E len \in ReadLens : Read(len)) \/ Clear

Handler == Received \/ Gap

Next == Arrive \/ Handler \/ Reader \/ ClearUnmark

(* The interrupts are served and the reader is scheduled.                  *)
Fairness == WF_vars(Handler) /\ WF_vars(Reader)

Spec == Init /\ [][Next]_vars /\ Fairness

-----------------------------------------------------------------------------
TypeOK ==
  /\ fifo \in Seq(1..MaxBytes) /\ Len(fifo) <= Depth
  /\ rxBuf \in Seq(1..MaxBytes) /\ taken \in Seq(1..MaxBytes)
  /\ maxLen \in Nat
  /\ mark \in BOOLEAN
  /\ msgs \in 0..MaxBytes
  /\ pc \in {"idle", "unmark", "read", "clear"}
  /\ wire \in 0..MaxBytes

(***************************************************************************)
(* Received bytes are read once and in order, whatever pieces the handler  *)
(* moves and the reader asks for (core_uart.c:499-525, 562-589).           *)
(***************************************************************************)
InOrder == taken \o rxBuf \o fifo = [i \in 1..wire |-> i]

Inv == TypeOK /\ InOrder

(***************************************************************************)
(* Bytes are written within RxBuf, although it grows only after a read has *)
(* come near its end: Margin covers two reads (core_uart.c:513-525).       *)
(***************************************************************************)
WritesFit == [][Len(rxBuf') > Len(rxBuf) => Len(rxBuf') <= maxLen]_vars

(***************************************************************************)
(* The reader is never left unaware: while it is idle and bytes wait, a    *)
(* message is on its way or bytes are left in the FIFO to cause one; and a *)
(* mark, which holds messages back, stands for one                         *)
(* (core_uart.c:501-511, 651-666; luat_uart_air105.c:106-116, 275-281).    *)
(***************************************************************************)
NotForgotten ==
  pc = "idle" =>
    /\ rxBuf # <<>> => msgs > 0 \/ fifo # <<>>
    /\ mark => msgs > 0
=============================================================================

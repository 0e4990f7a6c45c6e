--------------------------- MODULE Streams_proofs ---------------------------
(***************************************************************************)
(* What passes through the drivers, for all sizes of their buffers and     *)
(* FIFOs and all lengths: the receiver and the transmitter of the UART,    *)
(* the SPI master and the audio stream.                                    *)
(***************************************************************************)
EXTENDS CoreUartRx, CoreUartTx, CoreSpi, AudioPlay, SequenceTheorems, TLAPS

-----------------------------------------------------------------------------
(***************************************************************************)
(* The receiver of the UART: the bytes are read in order, they are written *)
(* within RxBuf, and the reader is not left unaware of them.               *)
(*                                                                         *)
(* What is inductive: RxBuf always has room for one more visit of the      *)
(* interrupt handler; a mark stands for a message unless the reader is     *)
(* about to take it away; and there are no more messages than bytes that   *)
(* left the FIFO, for each visit that posts one took a byte.               *)
(***************************************************************************)
Byte == 1..MaxBytes

RxRoom == Len(rxBuf) + Trigger - 1 <= maxLen

MarkStands == pc # "unmark" /\ mark => msgs > 0

Unread == pc = "idle" /\ rxBuf # <<>> => msgs > 0 \/ fifo # <<>>

MessagesPaid == msgs + Len(fifo) <= wire

RxIInv == TypeOK /\ InOrder /\ RxRoom /\ MarkStands /\ Unread /\ MessagesPaid

-----------------------------------------------------------------------------
LEMMA RxSizes ==
  /\ Depth \in Nat /\ Trigger \in 2..Depth /\ Burst \in 1..(Trigger - 1)
  /\ Margin \in Nat /\ Depth <= Margin /\ 2 * (Trigger - 1) <= Margin
  /\ InitLen \in Nat /\ Margin <= InitLen /\ HighLen \in Nat
  /\ BufferSize \in Nat /\ MaxBytes \in Nat /\ ReadLens \subseteq Nat \ {0}
BY UartRxAssumption DEF UartRxAssumption

(* A sequence cut in two and put together again is the sequence.           *)
LEMMA Cut ==
  ASSUME NEW S, NEW s \in Seq(S), NEW n \in 0..Len(s)
  PROVE  /\ SubSeq(s, 1, n) \in Seq(S)
         /\ SubSeq(s, n + 1, Len(s)) \in Seq(S)
         /\ Len(SubSeq(s, 1, n)) = n
         /\ Len(SubSeq(s, n + 1, Len(s))) = Len(s) - n
         /\ SubSeq(s, 1, n) \o SubSeq(s, n + 1, Len(s)) = s
<1> DEFINE a == SubSeq(s, 1, n)
           b == SubSeq(s, n + 1, Len(s))
<1>0. n \in Int /\ 1 \in Int /\ n + 1 \in Int /\ Len(s) \in Nat
      /\ \A i \in 1..Len(s) : s[i] \in S
  BY ElementOfSeq
<1>1. /\ a \in Seq(S) /\ Len(a) = n
      /\ \A i \in 1..n : a[i] = s[i]
  <2>1. \A i \in 1..n : s[i] \in S
    BY <1>0
  <2> QED
    BY <1>0, <2>1, SubSeqProperties
<1>2. /\ b \in Seq(S) /\ Len(b) = Len(s) - n
      /\ \A i \in 1..Len(s) - n : b[i] = s[n + i]
  <2>1. \A i \in (n + 1)..Len(s) : s[i] \in S
    BY <1>0
  <2>2. /\ b \in Seq(S)
        /\ Len(b) = IF n + 1 <= Len(s) THEN Len(s) - (n + 1) + 1 ELSE 0
        /\ \A i \in 1..Len(s) - (n + 1) + 1 : b[i] = s[n + 1 + i - 1]
    BY <1>0, <2>1, SubSeqProperties
  <2> QED
    BY <1>0, <2>2
<1>3. /\ a \o b \in Seq(S)
      /\ Len(a \o b) = Len(s)
      /\ \A i \in 1..Len(s) : (a \o b)[i] = IF i <= n THEN a[i] ELSE b[i - n]
  <2>1. Len(a) + Len(b) = Len(s)
    BY <1>0, <1>1, <1>2
  <2>2. /\ a \o b \in Seq(S)
        /\ Len(a \o b) = Len(a) + Len(b)
        /\ \A i \in 1..Len(a) + Len(b) :
             (a \o b)[i] = IF i <= Len(a) THEN a[i] ELSE b[i - Len(a)]
    <3> HIDE DEF a, b
    <3> QED
      BY <1>1, <1>2, ConcatProperties
  <2> QED
    BY <1>1, <2>1, <2>2
<1> HIDE DEF a, b
<1>4. \A i \in 1..Len(s) : (a \o b)[i] = s[i]
  <2> TAKE i \in 1..Len(s)
  <2>1. CASE i <= n
    <3>1. i \in 1..n
      BY <1>0, <2>1
    <3> QED
      BY <1>1, <1>3, <2>1, <3>1
  <2>2. CASE i > n
    <3>1. i - n \in 1..Len(s) - n /\ ~(i <= n) /\ n + (i - n) = i
      BY <1>0, <2>2
    <3>2. b[i - n] = s[n + (i - n)]
      BY <1>2, <3>1
    <3> QED
      BY <1>3, <3>1, <3>2
  <2>3. i <= n \/ i > n
    BY <1>0
  <2> QED
    BY <2>1, <2>2, <2>3
<1>5. a \o b = s
  BY <1>3, <1>4, SeqEqual
<1> QED
  BY <1>1, <1>2, <1>5 DEF a, b

LEMMA Associative ==
  \A s, t, u \in Seq(Byte) : s \o (t \o u) = (s \o t) \o u
<1> TAKE s, t, u \in Seq(Byte)
<1>1. (s \o t) \o u = s \o (t \o u)
  BY ConcatAssociative
<1> QED
  BY <1>1

-----------------------------------------------------------------------------
(* A visit of the handler takes n bytes, at least one and fewer than the   *)
(* trigger, and posts a message or does not.                               *)
LEMMA VisitKeeps ==
  ASSUME RxIInv, NEW n \in 1..(Trigger - 1), n <= Len(fifo), CacheRead(n),
         UNCHANGED <<pc, wire, taken>>,
         (UNCHANGED <<mark, msgs>> /\ n < Len(fifo)) \/ Notify
  PROVE  RxIInv'
<1> USE RxSizes
<1> DEFINE a == SubSeq(fifo, 1, n)
           b == SubSeq(fifo, n + 1, Len(fifo))
<1>0. /\ fifo \in Seq(Byte) /\ rxBuf \in Seq(Byte) /\ taken \in Seq(Byte)
      /\ maxLen \in Nat /\ msgs \in 0..MaxBytes /\ wire \in 0..MaxBytes
      /\ Len(fifo) \in Nat /\ Len(rxBuf) \in Nat /\ Len(fifo) <= Depth
  BY LenProperties DEF RxIInv, TypeOK, Byte
<1>1. /\ a \in Seq(Byte) /\ b \in Seq(Byte) /\ Len(a) = n
      /\ Len(b) = Len(fifo) - n /\ a \o b = fifo
  BY <1>0, Cut
<1>2. rxBuf' = rxBuf \o a /\ fifo' = b /\ maxLen' = Grow
  BY DEF CacheRead
<1> HIDE DEF a, b
<1>3. rxBuf' \in Seq(Byte) /\ Len(rxBuf') = Len(rxBuf) + n
  BY <1>0, <1>1, <1>2, ConcatProperties
<1>4. maxLen' \in Nat /\ RxRoom'
  BY <1>0, <1>2, <1>3 DEF Grow, RxRoom, RxIInv
<1>5. /\ mark' \in BOOLEAN /\ msgs' \in Nat
      /\ msgs' + Len(fifo') <= wire'
      /\ mark' => mark \/ msgs' > 0
      /\ msgs' >= msgs
      /\ fifo' = <<>> => mark \/ msgs' > 0
  <2>1. msgs + Len(fifo) <= wire /\ mark \in BOOLEAN /\ wire' = wire
    BY DEF RxIInv, TypeOK, MessagesPaid
  <2>2. CASE Notify
    <3>1. Len(fifo') + 1 <= Len(fifo) /\ Len(fifo') \in Nat
      BY <1>0, <1>1, <1>2
    <3>2. CASE mark /\ UNCHANGED <<mark, msgs>>
      BY <1>0, <2>1, <3>1, <3>2
    <3>3. CASE ~mark /\ mark' = TRUE /\ msgs' = msgs + 1
      BY <1>0, <2>1, <3>1, <3>3
    <3> QED
      BY <2>2, <3>2, <3>3 DEF Notify
  <2>3. CASE UNCHANGED <<mark, msgs>> /\ n < Len(fifo)
    <3>1. Len(fifo') > 0
      BY <1>0, <1>1, <1>2, <2>3
    <3>2. fifo' # <<>>
      BY <3>1, EmptySeq
    <3> QED
      BY <1>0, <1>1, <1>2, <2>1, <2>3, <3>2
  <2> QED
    BY <2>2, <2>3
<1>6. TypeOK'
  <2>1. fifo' \in Seq(Byte) /\ Len(fifo') <= Depth /\ Len(fifo') \in Nat
    BY <1>0, <1>1, <1>2
  <2>2. msgs' \in 0..MaxBytes
    BY <1>0, <1>5, <2>1
  <2> QED
    BY <1>3, <1>4, <1>5, <2>1, <2>2 DEF RxIInv, TypeOK, Byte
<1>7. InOrder'
  <2>1. taken \o rxBuf' \o fifo' = taken \o rxBuf \o (a \o b)
    <3>1. taken \o rxBuf \in Seq(Byte)
      BY <1>0, ConcatProperties
    <3>2. taken \o (rxBuf \o a) = (taken \o rxBuf) \o a
      BY <1>0, <1>1, Associative, Zenon
    <3>3. ((taken \o rxBuf) \o a) \o b = (taken \o rxBuf) \o (a \o b)
      BY <3>1, <1>1, Associative, Zenon
    <3> QED
      BY <1>2, <3>2, <3>3, Zenon
  <2> QED
    BY <1>1, <2>1 DEF RxIInv, InOrder
<1>8. MarkStands' /\ Unread' /\ MessagesPaid'
  <2>1. MarkStands /\ Unread
    BY DEF RxIInv
  <2> QED
    BY <1>0, <1>5, <2>1 DEF MarkStands, Unread, MessagesPaid
<1> QED
  BY <1>4, <1>6, <1>7, <1>8 DEF RxIInv

LEMMA HandlerKeeps == ASSUME RxIInv, Handler PROVE RxIInv'
<1>0. Len(fifo) \in Nat /\ Len(fifo) <= Depth /\ fifo \in Seq(Byte)
  BY LenProperties DEF RxIInv, TypeOK, Byte
<1>1. CASE Received
  <2>1. /\ Burst \in 1..(Trigger - 1) /\ Burst < Len(fifo) /\ CacheRead(Burst)
        /\ UNCHANGED <<pc, wire, taken>>
    BY <1>0, <1>1, RxSizes DEF Received
  <2>2. UNCHANGED <<mark, msgs>> \/ Notify
    BY <1>1 DEF Received
  <2>3. Burst <= Len(fifo)
    BY <1>0, <2>1, RxSizes
  <2> QED
    BY <2>1, <2>2, <2>3, VisitKeeps
<1>2. CASE Gap
  <2>1. Len(fifo) > 0
    BY <1>0, <1>2, EmptySeq DEF Gap
  <2>2. /\ Len(fifo) \in 1..(Trigger - 1) /\ Len(fifo) <= Len(fifo)
        /\ CacheRead(Len(fifo)) /\ Notify /\ UNCHANGED <<pc, wire, taken>>
    BY <1>0, <1>2, <2>1, RxSizes DEF Gap
  <2> QED
    BY <2>2, VisitKeeps
<1> QED
  BY <1>1, <1>2 DEF Handler

(* A byte comes: it is the next in order.                                  *)
LEMMA ArriveKeeps == ASSUME RxIInv, Arrive PROVE RxIInv'
<1>0. /\ fifo \in Seq(Byte) /\ rxBuf \in Seq(Byte) /\ taken \in Seq(Byte)
      /\ wire \in Nat /\ msgs \in Nat /\ wire < MaxBytes
      /\ Len(fifo) \in Nat /\ Len(fifo) < Depth
  BY LenProperties, RxSizes DEF RxIInv, TypeOK, Byte, Arrive
<1>1. wire' = wire + 1 /\ wire' \in Byte /\ wire' \in 0..MaxBytes
  BY <1>0, RxSizes DEF Arrive, Byte
<1>2. /\ fifo' = Append(fifo, wire') /\ fifo' \in Seq(Byte)
      /\ fifo' # <<>> /\ Len(fifo') = Len(fifo) + 1
  BY <1>0, <1>1, AppendProperties DEF Arrive
<1>3. UNCHANGED <<rxBuf, maxLen, mark, msgs, pc, taken>>
  BY DEF Arrive
<1>4. TypeOK'
  BY <1>0, <1>1, <1>2, <1>3, RxSizes DEF RxIInv, TypeOK, Byte
<1>5. InOrder'
  <2> DEFINE front == taken \o rxBuf
             size == [i \in 1..wire |-> i]
  <2>1. front \in Seq(Byte) /\ front \o fifo \in Seq(Byte)
    BY <1>0, ConcatProperties
  <2>2. fifo' = fifo \o <<wire'>> /\ <<wire'>> \in Seq(Byte)
    BY <1>0, <1>1, <1>2, AppendIsConcat
  <2>3. front \o fifo' = (front \o fifo) \o <<wire'>>
    BY <1>0, <2>1, <2>2, Associative
  <2>4. front \o fifo' = Append(front \o fifo, wire')
    BY <1>1, <2>1, <2>3, AppendIsConcat
  <2>5. front \o fifo = size
    BY DEF RxIInv, InOrder
  <2>6. size \in Seq(Nat) /\ Len(size) = wire
    BY <1>0
  <2>7. Append(size, wire + 1) = [i \in 1..wire' |-> i]
    <3>1. /\ Append(size, wire + 1) \in Seq(Nat)
          /\ Len(Append(size, wire + 1)) = wire + 1
          /\ \A i \in 1..wire : Append(size, wire + 1)[i] = size[i]
          /\ Append(size, wire + 1)[wire + 1] = wire + 1
      <4> HIDE DEF size
      <4> QED
        BY <1>0, <2>6, AppendProperties
    <3> DEFINE next == [i \in 1..wire' |-> i]
    <3>2. next \in Seq(Nat) /\ Len(next) = wire + 1
      BY <1>0, <1>1
    <3>3. \A i \in 1..wire + 1 : Append(size, wire + 1)[i] = next[i]
      <4> TAKE i \in 1..wire + 1
      <4>1. next[i] = i
        BY <1>1
      <4>2. CASE i \in 1..wire
        <5>1. size[i] = i
          BY <4>2
        <5> QED
          BY <3>1, <4>1, <4>2, <5>1
      <4>3. CASE i = wire + 1
        BY <3>1, <4>1, <4>3
      <4> QED
        BY <1>0, <4>2, <4>3
    <3> HIDE DEF next, size
    <3>4. Append(size, wire + 1) = next
      BY <3>1, <3>2, <3>3, SeqEqual
    <3> QED
      BY <3>4 DEF next
  <2> QED
    BY <1>1, <1>3, <2>4, <2>5, <2>7 DEF InOrder
<1>6. RxRoom' /\ MarkStands' /\ Unread' /\ MessagesPaid'
  BY <1>0, <1>1, <1>2, <1>3
     DEF RxIInv, RxRoom, MarkStands, Unread, MessagesPaid
<1> QED
  BY <1>4, <1>5, <1>6 DEF RxIInv

-----------------------------------------------------------------------------
(* The reader takes n bytes from the front and goes on, or, if there was   *)
(* nothing, goes to sleep.                                                 *)
LEMMA ReadKeeps == ASSUME RxIInv, NEW asked \in ReadLens, Read(asked) PROVE RxIInv'
<1> DEFINE n == IF Len(rxBuf) < asked THEN Len(rxBuf) ELSE asked
           a == SubSeq(rxBuf, 1, n)
           b == SubSeq(rxBuf, n + 1, Len(rxBuf))
<1>0. /\ fifo \in Seq(Byte) /\ rxBuf \in Seq(Byte) /\ taken \in Seq(Byte)
      /\ maxLen \in Nat /\ asked \in Nat /\ asked > 0
      /\ Len(fifo) \in Nat /\ Len(rxBuf) \in Nat
  <2>1. asked \in Nat \ {0}
    BY RxSizes
  <2>2. fifo \in Seq(Byte) /\ rxBuf \in Seq(Byte) /\ taken \in Seq(Byte) /\ maxLen \in Nat
    BY DEF RxIInv, TypeOK, Byte
  <2>3. Len(fifo) \in Nat /\ Len(rxBuf) \in Nat
    BY <2>2, LenProperties
  <2> QED
    BY <2>1, <2>2, <2>3
<1>1. n \in 0..Len(rxBuf) /\ (n = 0 => Len(rxBuf) = 0)
  BY <1>0
<1>2. /\ pc = "read" /\ taken' = taken \o a /\ rxBuf' = b
      /\ pc' = (IF n = 0 THEN "idle" ELSE "unmark")
      /\ maxLen' = Shrink
      /\ UNCHANGED <<fifo, mark, msgs, wire>>
  BY DEF Read, Rest
<1> HIDE DEF n
<1>3. /\ a \in Seq(Byte) /\ b \in Seq(Byte)
      /\ Len(b) = Len(rxBuf) - n /\ a \o b = rxBuf
  BY <1>0, <1>1, Cut
<1> HIDE DEF a, b
<1>4. taken' \in Seq(Byte)
  BY <1>0, <1>2, <1>3, ConcatProperties
<1>5. maxLen' \in Nat /\ RxRoom'
  BY <1>0, <1>1, <1>2, <1>3, EmptySeq, RxSizes DEF Shrink, RxRoom, RxIInv
<1>6. TypeOK'
  BY <1>2, <1>3, <1>4, <1>5 DEF RxIInv, TypeOK, Byte
<1>7. InOrder'
  <2>1. (taken \o a) \o b = taken \o (a \o b)
    BY <1>0, <1>3, Associative
  <2> QED
    BY <1>2, <1>3, <2>1 DEF RxIInv, InOrder
<1>8. MarkStands'
  BY <1>2 DEF RxIInv, MarkStands
<1>9. Unread'
  <2>1. pc' = "idle" => Len(rxBuf') = 0
    BY <1>0, <1>1, <1>2, <1>3
  <2> QED
    BY <1>2, <1>3, <2>1, EmptySeq DEF Unread
<1>10. MessagesPaid'
  BY <1>2 DEF RxIInv, MessagesPaid
<1> QED
  BY <1>5, <1>6, <1>7, <1>8, <1>9, <1>10 DEF RxIInv

LEMMA ClearKeeps == ASSUME RxIInv, Clear PROVE RxIInv'
<1>0. /\ fifo \in Seq(Byte) /\ rxBuf \in Seq(Byte) /\ taken \in Seq(Byte)
      /\ maxLen \in Nat /\ Len(rxBuf) \in Nat
  BY LenProperties DEF RxIInv, TypeOK, Byte
<1>1. /\ taken' = taken \o rxBuf /\ rxBuf' = <<>> /\ pc = "clear" /\ pc' = "idle"
      /\ UNCHANGED <<fifo, maxLen, mark, msgs, wire>>
  BY DEF Clear
<1>2. taken' \in Seq(Byte) /\ rxBuf' \in Seq(Byte) /\ Len(rxBuf') = 0
  BY <1>0, <1>1, ConcatProperties, EmptySeq
<1>3. TypeOK'
  BY <1>1, <1>2 DEF RxIInv, TypeOK, Byte
<1>4. InOrder'
  BY <1>1, <1>2, ConcatEmptySeq DEF RxIInv, InOrder
<1>5. RxRoom'
  BY <1>0, <1>1, <1>2, RxSizes DEF RxIInv, RxRoom
<1>6. MarkStands' /\ Unread' /\ MessagesPaid'
  BY <1>1 DEF RxIInv, MarkStands, Unread, MessagesPaid
<1> QED
  BY <1>3, <1>4, <1>5, <1>6 DEF RxIInv

(* Taking a message and taking away the mark.                              *)
LEMMA TakeMessageKeeps == ASSUME RxIInv, TakeMessage PROVE RxIInv'
<1>1. /\ pc' = "unmark" /\ msgs' = msgs - 1 /\ msgs > 0
      /\ UNCHANGED <<fifo, rxBuf, maxLen, mark, wire, taken>>
  BY DEF TakeMessage
<1>2. msgs \in Nat /\ wire \in Nat /\ Len(fifo) \in Nat
  BY LenProperties, RxSizes DEF RxIInv, TypeOK
<1>3. TypeOK'
  <2>1. msgs \in 0..MaxBytes /\ msgs' \in 0..MaxBytes
    BY <1>1, <1>2, RxSizes DEF RxIInv, TypeOK
  <2> QED
    BY <1>1, <2>1 DEF RxIInv, TypeOK
<1>4. InOrder' /\ RxRoom' /\ MarkStands' /\ Unread' /\ MessagesPaid'
  BY <1>1, <1>2 DEF RxIInv, InOrder, RxRoom, MarkStands, Unread, MessagesPaid
<1> QED
  BY <1>3, <1>4 DEF RxIInv

LEMMA UnmarkKeeps == ASSUME RxIInv, Unmark \/ ClearUnmark PROVE RxIInv'
<1>1. /\ pc' \in {"read", "clear"} /\ mark' = FALSE
      /\ UNCHANGED <<fifo, rxBuf, maxLen, msgs, wire, taken>>
  BY DEF Unmark, ClearUnmark
<1>2. TypeOK'
  BY <1>1 DEF RxIInv, TypeOK
<1>3. InOrder' /\ RxRoom' /\ MarkStands' /\ Unread' /\ MessagesPaid'
  BY <1>1 DEF RxIInv, InOrder, RxRoom, MarkStands, Unread, MessagesPaid
<1> QED
  BY <1>2, <1>3 DEF RxIInv

LEMMA RxInitHolds == Init => RxIInv
<1> SUFFICES ASSUME Init PROVE RxIInv
  OBVIOUS
<1>1. /\ fifo = <<>> /\ rxBuf = <<>> /\ taken = <<>> /\ maxLen = InitLen
      /\ mark = FALSE /\ msgs = 0 /\ pc = "idle" /\ wire = 0
  BY DEF Init
<1>2. <<>> \in Seq(Byte) /\ Len(<<>>) = 0
  BY EmptySeq
<1>3. TypeOK
  <2>1. /\ fifo \in Seq(Byte) /\ rxBuf \in Seq(Byte) /\ taken \in Seq(Byte)
        /\ Len(fifo) = 0
    BY <1>1, <1>2, Zenon
  <2>2. maxLen \in Nat /\ 0 \in 0..MaxBytes /\ 0 <= Depth
    BY <1>1, RxSizes
  <2>3. /\ mark \in BOOLEAN /\ pc \in {"idle", "unmark", "read", "clear"}
        /\ msgs \in 0..MaxBytes /\ wire \in 0..MaxBytes
    BY <1>1, <2>2
  <2> QED
    <3>1. Len(fifo) <= Depth
      BY <2>1, <2>2
    <3> QED
      BY <2>1, <2>2, <2>3, <3>1, Zenon DEF TypeOK, Byte
<1>4. InOrder
  <2>1. <<>> \o <<>> \o <<>> = <<>>
    BY <1>2, ConcatEmptySeq
  <2>2. [i \in 1..0 |-> i] = <<>>
    <3>1. [i \in 1..0 |-> i] \in Seq(Nat) /\ Len([i \in 1..0 |-> i]) = 0
      OBVIOUS
    <3> QED
      BY <3>1, EmptySeq
  <2> QED
    BY <1>1, <2>1, <2>2 DEF InOrder
<1>5. RxRoom /\ MarkStands /\ Unread /\ MessagesPaid
  BY <1>1, <1>2, RxSizes DEF RxRoom, MarkStands, Unread, MessagesPaid
<1> QED
  BY <1>3, <1>4, <1>5 DEF RxIInv

LEMMA RxNextKeeps == ASSUME RxIInv, [Next]_vars PROVE RxIInv'
<1>1. CASE UNCHANGED vars
  BY <1>1 DEF vars, RxIInv, TypeOK, InOrder, RxRoom, MarkStands, Unread, MessagesPaid
<1>2. CASE Arrive
  BY <1>2, ArriveKeeps
<1>3. CASE Handler
  BY <1>3, HandlerKeeps
<1>4. CASE TakeMessage
  BY <1>4, TakeMessageKeeps
<1>5. CASE Unmark \/ ClearUnmark
  BY <1>5, UnmarkKeeps
<1>6. CASE \E asked \in ReadLens : Read(asked)
  BY <1>6, ReadKeeps
<1>7. CASE Clear
  BY <1>7, ClearKeeps
<1> QED
  BY <1>1, <1>2, <1>3, <1>4, <1>5, <1>6, <1>7 DEF Next, Reader

LEMMA RxInductive == Spec => []RxIInv
<1>1. RxIInv /\ [Next]_vars => RxIInv'
  BY RxNextKeeps
<1> QED
  BY RxInitHolds, <1>1, PTL DEF Spec

-----------------------------------------------------------------------------
(* Whatever the interrupts and the reader interleave to, the bytes are     *)
(* read once and in the order of their arrival.                            *)
THEOREM ReadsInOrder == Spec => []Inv
<1>1. RxIInv => Inv
  BY DEF RxIInv, Inv
<1> QED
  BY RxInductive, <1>1, PTL

(* An idle reader has a message for the bytes that wait.                   *)
THEOREM ReaderIsTold == Spec => []NotForgotten
<1>1. RxIInv => NotForgotten
  BY DEF RxIInv, MarkStands, Unread, NotForgotten
<1> QED
  BY RxInductive, <1>1, PTL

(* The handler never writes past the end of RxBuf, for any burst, trigger  *)
(* and margin that fit together: growing late is soon enough.              *)
THEOREM StaysWithin == Spec => WritesFit
<1> DEFINE Fits == Len(rxBuf') > Len(rxBuf) => Len(rxBuf') <= maxLen
<1>1. ASSUME RxIInv, [Next]_vars PROVE [Fits]_vars
  <2>0. /\ Len(rxBuf) \in Nat /\ Len(fifo) \in Nat /\ maxLen \in Nat
        /\ rxBuf \in Seq(Byte) /\ fifo \in Seq(Byte) /\ Len(fifo) <= Depth
    BY <1>1, LenProperties DEF RxIInv, TypeOK, Byte
  <2>1. ASSUME NEW n \in 0..(Trigger - 1), n <= Len(fifo), CacheRead(n)
        PROVE  Fits
    <3>1. n \in 0..Len(fifo)
      BY <2>0, <2>1, RxSizes
    <3> DEFINE a == SubSeq(fifo, 1, n)
    <3>2. a \in Seq(Byte) /\ Len(a) = n /\ rxBuf' = rxBuf \o a
      BY <2>0, <2>1, <3>1, Cut DEF CacheRead
    <3> HIDE DEF a
    <3>3. Len(rxBuf') = Len(rxBuf) + n
      BY <2>0, <3>2, ConcatProperties
    <3> QED
      BY <1>1, <2>0, <3>3, RxSizes DEF RxIInv, RxRoom
  <2>2. CASE Received
    <3>1. Burst \in 0..(Trigger - 1) /\ Burst <= Len(fifo) /\ CacheRead(Burst)
      BY <2>0, <2>2, RxSizes DEF Received
    <3> QED
      BY <2>1, <3>1
  <2>3. CASE Gap
    <3>1. /\ Len(fifo) \in 0..(Trigger - 1) /\ Len(fifo) <= Len(fifo)
          /\ CacheRead(Len(fifo))
      BY <2>0, <2>3, RxSizes DEF Gap
    <3> QED
      BY <2>1, <3>1
  <2>4. CASE Arrive \/ TakeMessage \/ Unmark \/ ClearUnmark
    <3>1. rxBuf' = rxBuf
      BY <2>4 DEF Arrive, TakeMessage, Unmark, ClearUnmark
    <3> QED
      BY <2>0, <3>1
  <2>5. CASE \E asked \in ReadLens : Read(asked)
    <3>1. PICK asked \in ReadLens : Read(asked)
      BY <2>5
    <3> DEFINE n == IF Len(rxBuf) < asked THEN Len(rxBuf) ELSE asked
    <3>2. n \in 0..Len(rxBuf) /\ rxBuf' = SubSeq(rxBuf, n + 1, Len(rxBuf))
      <4>1. asked \in Nat \ {0}
        BY RxSizes
      <4>2. n \in 0..Len(rxBuf)
        BY <2>0, <4>1
      <4>3. rxBuf' = SubSeq(rxBuf, n + 1, Len(rxBuf))
        BY <3>1 DEF Read, Rest
      <4> QED
        BY <4>2, <4>3
    <3> HIDE DEF n
    <3>3. Len(rxBuf') = Len(rxBuf) - n
      BY <2>0, <3>2, Cut
    <3> QED
      BY <2>0, <3>2, <3>3
  <2>6. CASE Clear
    <3>1. Len(rxBuf') = 0
      BY <2>6, EmptySeq DEF Clear
    <3> QED
      BY <2>0, <3>1
  <2> QED
    BY <1>1, <2>2, <2>3, <2>4, <2>5, <2>6 DEF Next, Handler, Reader
<1> QED
  BY RxInductive, <1>1, PTL DEF Spec, WritesFit

-----------------------------------------------------------------------------
(***************************************************************************)
(* The transmitter of the UART: what is on the wire, in the FIFO and in    *)
(* the two buffers is what was written, and it is never left without an    *)
(* interrupt to go on.                                                     *)
(*                                                                         *)
(* What is inductive: TxBuf is in use exactly when it holds bytes; PTIME   *)
(* never stands without ETBEI, so that the error interrupt, which also     *)
(* goes on with the transmission, does not take the last one away; and a   *)
(* UART that is closed has nothing left.                                   *)
(***************************************************************************)
BufferOn == txOn <=> txBuf # <<>>

EmptyToo == ptime => etbei

Closed ==
  ~open => /\ writer \in {"idle", "stop"}
           /\ writer = "idle" => cache = <<>> /\ txBuf = <<>> /\ told = "none"

TxIInv == TxInv /\ BufferOn /\ EmptyToo /\ Closed

LEMMA TxSizes ==
  /\ TxDepth \in Nat /\ MaxWritten \in Nat /\ Lengths \subseteq Nat \ {0}
BY UartTxAssumption DEF UartTxAssumption

(* A sequence cut in three.                                                *)
InThree(S, s, k, m) ==
  /\ SubSeq(s, k + 1, m) \in Seq(S)
  /\ s = SubSeq(s, 1, k) \o SubSeq(s, k + 1, m) \o SubSeq(s, m + 1, Len(s))

LEMMA CutTwice ==
  ASSUME NEW S, NEW s \in Seq(S), NEW k \in 0..Len(s), NEW m \in k..Len(s)
  PROVE  InThree(S, s, k, m)
<1>0. /\ Len(s) \in Nat /\ k \in Nat /\ m \in Nat /\ k <= m /\ m <= Len(s)
      /\ \A i \in 1..Len(s) : s[i] \in S
  BY LenProperties, ElementOfSeq
<1>1. SubSeq(s, 1, k) \in Seq(S) /\ Len(SubSeq(s, 1, k)) = k
  <2>1. k \in 0..Len(s)
    OBVIOUS
  <2> QED
    BY <2>1, Cut
<1>2. SubSeq(s, k + 1, m) \in Seq(S) /\ Len(SubSeq(s, k + 1, m)) = m - k
  <2>1. k + 1 \in Int /\ m \in Int /\ \A i \in (k + 1)..m : s[i] \in S
    BY <1>0
  <2>2. /\ SubSeq(s, k + 1, m) \in Seq(S)
        /\ Len(SubSeq(s, k + 1, m)) = IF k + 1 <= m THEN m - (k + 1) + 1 ELSE 0
    BY <2>1, SubSeqProperties
  <2>3. (IF k + 1 <= m THEN m - (k + 1) + 1 ELSE 0) = m - k
    BY <1>0
  <2> QED
    BY <2>2, <2>3
<1>3. /\ SubSeq(s, m + 1, Len(s)) \in Seq(S)
      /\ SubSeq(s, 1, m) \o SubSeq(s, m + 1, Len(s)) = s
  <2>1. m \in 0..Len(s)
    BY <1>0
  <2> QED
    BY <2>1, Cut
<1>4. SubSeq(s, 1, k) \o SubSeq(s, k + 1, m) = SubSeq(s, 1, m)
  <2>1. 1 \in 1..(Len(s) + 1) /\ k \in (1 - 1)..Len(s) /\ m \in k..Len(s)
    BY <1>0
  <2> QED
    BY <2>1, ConcatAdjacentSubSeq
<1> QED
  BY <1>2, <1>3, <1>4 DEF InThree

(* The rest of the second of two sequences is the rest of both.            *)
LEMMA RestOfBoth ==
  ASSUME NEW S, NEW f \in Seq(S), NEW s \in Seq(S), NEW n \in 0..Len(s)
  PROVE  SubSeq(s, n + 1, Len(s)) = SubSeq(f \o s, Len(f) + n + 1, Len(f \o s))
<1> DEFINE all == f \o s
           a == SubSeq(s, n + 1, Len(s))
           b == SubSeq(all, Len(f) + n + 1, Len(all))
<1>1. /\ Len(f) \in Nat /\ Len(s) \in Nat /\ n \in Nat /\ n <= Len(s)
      /\ \A i \in 1..Len(s) : s[i] \in S
  BY LenProperties, ElementOfSeq
<1>2. /\ all \in Seq(S) /\ Len(all) = Len(f) + Len(s)
      /\ \A i \in 1..(Len(f) + Len(s)) : all[i] = IF i <= Len(f) THEN f[i] ELSE s[i - Len(f)]
  BY ConcatProperties
<1> HIDE DEF all
<1>3. /\ a \in Seq(S) /\ Len(a) = Len(s) - n
      /\ \A i \in 1..(Len(s) - n) : a[i] = s[n + i]
  <2>1. n + 1 \in Int /\ Len(s) \in Int /\ \A i \in (n + 1)..Len(s) : s[i] \in S
    BY <1>1
  <2>2. /\ a \in Seq(S)
        /\ Len(a) = IF n + 1 <= Len(s) THEN Len(s) - (n + 1) + 1 ELSE 0
        /\ \A i \in 1..(Len(s) - (n + 1) + 1) : a[i] = s[n + 1 + i - 1]
    BY <2>1, SubSeqProperties
  <2> QED
    BY <1>1, <2>2
<1>4. /\ b \in Seq(S) /\ Len(b) = Len(s) - n
      /\ \A i \in 1..(Len(s) - n) : b[i] = all[Len(f) + n + i]
  <2>1. \A i \in 1..Len(all) : all[i] \in S
    BY <1>2, ElementOfSeq
  <2>2. /\ Len(f) + n + 1 \in Int /\ Len(all) \in Int
        /\ \A i \in (Len(f) + n + 1)..Len(all) : all[i] \in S
    BY <1>1, <1>2, <2>1
  <2>3. /\ b \in Seq(S)
        /\ Len(b) = IF Len(f) + n + 1 <= Len(all) THEN Len(all) - (Len(f) + n + 1) + 1 ELSE 0
        /\ \A i \in 1..(Len(all) - (Len(f) + n + 1) + 1) : b[i] = all[Len(f) + n + 1 + i - 1]
    BY <2>2, SubSeqProperties
  <2> QED
    BY <1>1, <1>2, <2>3
<1> HIDE DEF a, b
<1>5. ASSUME NEW i \in 1..Len(a) PROVE a[i] = b[i]
  <2>1. i \in 1..(Len(s) - n) /\ i \in Nat /\ i > 0
    BY <1>1, <1>3
  <2>2. /\ Len(f) + n + i \in 1..(Len(f) + Len(s)) /\ ~(Len(f) + n + i <= Len(f))
        /\ Len(f) + n + i - Len(f) = n + i
    BY <1>1, <2>1
  <2>3. all[Len(f) + n + i] = s[n + i]
    BY <1>2, <2>2
  <2> QED
    BY <1>3, <1>4, <2>1, <2>3
<1>6. a = b
  BY <1>3, <1>4, <1>5, SeqEqual
<1> QED
  BY <1>6 DEF a, b, all

(* However many bytes leave the FIFO while it is filled, none is lost.     *)
Joined(S, a, b, c, all) ==
  a \in Seq(S) /\ b \in Seq(S) /\ c \in Seq(S) /\ a \o b \o c = all

LEMMA FillKeeps ==
  ASSUME NEW S, NEW f \in Seq(S), NEW w \in Seq(S), NEW s \in Seq(S),
         NEW all, NEW n, NEW gone, NEW p, NEW q, NEW r
  PROVE  /\ all = f \o s
         /\ n \in 0..Len(s) /\ gone \in 0..Len(all)
         /\ p = SubSeq(all, 1, gone)
         /\ q = SubSeq(all, gone + 1, Len(f) + n)
         /\ r = SubSeq(s, n + 1, Len(s))
         /\ Len(w \o p) + Len(q) + Len(r) = Len(w) + Len(all)
         => Joined(S, w \o p, q, r, w \o f \o s)
<1>1. SUFFICES ASSUME all = f \o s,
                      n \in 0..Len(s), gone \in 0..Len(all),
                      p = SubSeq(all, 1, gone),
                      q = SubSeq(all, gone + 1, Len(f) + n),
                      r = SubSeq(s, n + 1, Len(s)),
                      Len(w \o p) + Len(q) + Len(r) = Len(w) + Len(all)
               PROVE  Joined(S, w \o p, q, r, w \o f \o s)
  OBVIOUS
<1>2. all \in Seq(S) /\ Len(all) = Len(f) + Len(s)
  <2>1. f \o s \in Seq(S) /\ Len(f \o s) = Len(f) + Len(s)
    BY ConcatProperties
  <2> QED
    BY <1>1, <2>1, Zenon
<1>3. /\ Len(f) \in Nat /\ Len(s) \in Nat /\ Len(w) \in Nat
      /\ n \in Nat /\ n <= Len(s) /\ gone \in Nat /\ gone <= Len(all)
  <2>1. Len(f) \in Nat /\ Len(s) \in Nat /\ Len(w) \in Nat
    BY LenProperties
  <2>2. n \in 0..Len(s) /\ gone \in 0..Len(all)
    BY <1>1, Zenon
  <2> QED
    BY <1>2, <2>1, <2>2
<1>4. r \in Seq(S) /\ Len(r) = Len(s) - n /\ r = SubSeq(all, Len(f) + n + 1, Len(all))
  <2>1. n \in 0..Len(s)
    BY <1>1, Zenon
  <2>2. /\ SubSeq(s, n + 1, Len(s)) \in Seq(S)
        /\ Len(SubSeq(s, n + 1, Len(s))) = Len(s) - n
    BY <2>1, Cut
  <2>3. SubSeq(s, n + 1, Len(s)) = SubSeq(f \o s, Len(f) + n + 1, Len(f \o s))
    BY <2>1, RestOfBoth
  <2> QED
    BY <1>1, <2>2, <2>3, Zenon
<1>5. p \in Seq(S) /\ Len(p) = gone
  <2>1. gone \in 0..Len(all)
    BY <1>1, Zenon
  <2>2. SubSeq(all, 1, gone) \in Seq(S) /\ Len(SubSeq(all, 1, gone)) = gone
    BY <1>2, <2>1, Cut
  <2> QED
    BY <1>1, <2>2, Zenon
<1>6. w \o p \in Seq(S) /\ Len(w \o p) = Len(w) + gone
  BY <1>5, ConcatProperties
<1>7. gone <= Len(f) + n
  <2>0. SUFFICES ASSUME ~(gone <= Len(f) + n) PROVE FALSE
    OBVIOUS
  <2>1. gone + 1 \in Int /\ Len(f) + n \in Int /\ Len(f) + n < gone + 1
    BY <1>3, <2>0
  <2>2. q = <<>>
    <3>1. SubSeq(all, gone + 1, Len(f) + n) = <<>>
      BY <2>1, SubSeqEmpty
    <3> QED
      BY <1>1, <3>1, Zenon
  <2>3. Len(q) = 0
    BY <2>2, EmptySeq
  <2>4. Len(w \o p) + Len(q) + Len(r) = Len(w) + Len(all)
    BY <1>1, Zenon
  <2> QED
    BY <1>2, <1>3, <1>4, <1>6, <2>0, <2>3, <2>4
<1>8. q \in Seq(S) /\ all = p \o q \o r
  <2>1. gone \in 0..Len(all) /\ Len(f) + n \in gone..Len(all)
    BY <1>2, <1>3, <1>7
  <2>2. /\ SubSeq(all, gone + 1, Len(f) + n) \in Seq(S)
        /\ all = SubSeq(all, 1, gone) \o SubSeq(all, gone + 1, Len(f) + n)
                    \o SubSeq(all, Len(f) + n + 1, Len(all))
    <3>1. InThree(S, all, gone, Len(f) + n)
      BY <1>2, <2>1, CutTwice
    <3> QED
      BY <3>1 DEF InThree
  <2>3. q = SubSeq(all, gone + 1, Len(f) + n) /\ p = SubSeq(all, 1, gone)
    BY <1>1, Zenon
  <2> QED
    BY <1>4, <2>2, <2>3, Zenon
<1>9. w \o p \o q \o r = w \o (p \o q \o r)
  <2>1. p \o q \in Seq(S)
    BY <1>5, <1>8, ConcatProperties
  <2>2. w \o p \o q = w \o (p \o q)
    BY <1>5, <1>8, ConcatAssociative
  <2>0. r \in Seq(S)
    BY <1>4
  <2>3. \A t \in Seq(S) : (w \o t) \o r = w \o (t \o r)
    BY <2>0, ConcatAssociative
  <2>4. w \o (p \o q) \o r = w \o (p \o q \o r)
    BY <2>1, <2>3
  <2> QED
    BY <2>2, <2>4, Zenon
<1>10. w \o f \o s = w \o (f \o s)
  BY ConcatAssociative
<1> QED
  <2>1. w \o p \o q \o r = w \o f \o s
    <3>1. all = f \o s /\ all = p \o q \o r
      BY <1>1, <1>8, Zenon
    <3> QED
      BY <1>9, <1>10, <3>1
  <2>2. w \o p \in Seq(S) /\ q \in Seq(S) /\ r \in Seq(S)
    BY <1>4, <1>6, <1>8
  <2> QED
    BY <2>1, <2>2 DEF Joined

LEMMA FilledKeeps ==
  ASSUME NEW S, NEW f \in Seq(S), NEW w \in Seq(S), NEW s \in Seq(S), NEW o
  PROVE  o \in Filled(f, w, s)
         => Len(o.fifo) <= TxDepth /\ Joined(S, o.wire, o.fifo, o.left, w \o f \o s)
<1> DEFINE all == f \o s
<1>1. SUFFICES ASSUME o \in Filled(f, w, s)
               PROVE  Len(o.fifo) <= TxDepth /\ Joined(S, o.wire, o.fifo, o.left, w \o f \o s)
  OBVIOUS
<1>2. o \in {Outcome(f, w, s, n, gone) : n \in 0..Len(s), gone \in 0..Len(all)}
  BY <1>1 DEF Filled
<1>3. PICK n \in 0..Len(s), gone \in 0..Len(all) : o = Outcome(f, w, s, n, gone)
  BY <1>2
<1>4. /\ Len(o.wire) + Len(o.fifo) + Len(o.left) = Len(w) + Len(all)
      /\ Len(o.fifo) <= TxDepth
  <2> DEFINE Adds(x) == Len(x.wire) + Len(x.fifo) + Len(x.left) = Len(w) + Len(f \o s)
             Fits(x) == Len(x.fifo) <= TxDepth
             Ends(x) == x.left # <<>> => Len(x.fifo) = TxDepth
             Outcomes == {Outcome(f, w, s, k, m) : k \in 0..Len(s), m \in 0..Len(f \o s)}
  <2>1. Filled(f, w, s) = {x \in Outcomes : /\ Adds(x)
                                           /\ Fits(x)
                                           /\ Ends(x)}
    BY SMT DEF Filled
  <2> HIDE DEF Adds, Fits, Ends, Outcomes
  <2>2. Adds(o) /\ Fits(o)
    BY <1>1, <2>1, Zenon
  <2> QED
    BY <2>2 DEF Adds, Fits
<1>5. PICK p : p = SubSeq(all, 1, gone)
  OBVIOUS
<1>6. /\ o.fifo = SubSeq(all, gone + 1, Len(f) + n)
      /\ o.wire = w \o p
      /\ o.left = SubSeq(s, n + 1, Len(s))
  BY <1>3, <1>5 DEF Outcome
<1>7. Joined(S, w \o p, o.fifo, o.left, w \o f \o s)
  <2>1. all = f \o s /\ Len(w \o p) + Len(o.fifo) + Len(o.left) = Len(w) + Len(all)
    BY <1>4, <1>6
  <2> HIDE DEF all
  <2> QED
    BY <1>5, <1>6, <2>1, FillKeeps
<1> QED
  BY <1>4, <1>6, <1>7

LEMMA FilledShrinks ==
  ASSUME NEW S, NEW f \in Seq(S), NEW w \in Seq(S), NEW o
  PROVE  o \in Filled(f, w, <<>>) => o.left = <<>>
<1>1. SUFFICES ASSUME o \in Filled(f, w, <<>>) PROVE o.left = <<>>
  OBVIOUS
<1>2. PICK n \in 0..Len(<<>>) : o.left = SubSeq(<<>>, n + 1, Len(<<>>))
  <2>1. PICK n \in 0..Len(<<>>), gone \in 0..Len(f \o <<>>) : o = Outcome(f, w, <<>>, n, gone)
    BY <1>1 DEF Filled
  <2> QED
    BY <2>1 DEF Outcome
<1>3. Len(<<>>) = 0
  OBVIOUS
<1>4. n + 1 \in Int /\ Len(<<>>) \in Int /\ Len(<<>>) < n + 1
  BY <1>3
<1>5. SubSeq(<<>>, n + 1, Len(<<>>)) = <<>>
  BY <1>4, SubSeqEmpty
<1> QED
  BY <1>2, <1>5, Zenon

LEMMA StartKeeps ==
  ASSUME NEW S, NEW f \in Seq(S), NEW w \in Seq(S), NEW c \in Seq(S), NEW o
  PROVE  o \in Start(f, w, c)
         => /\ o.cache = <<>> /\ o.more = (o.buf # <<>>)
            /\ Len(o.fifo) <= TxDepth
            /\ Joined(S, o.wire, o.fifo, o.buf, w \o f \o c)
<1>1. SUFFICES ASSUME o \in Start(f, w, c)
               PROVE  /\ o.cache = <<>> /\ o.more = (o.buf # <<>>)
                      /\ Len(o.fifo) <= TxDepth
                      /\ Joined(S, o.wire, o.fifo, o.buf, w \o f \o c)
  OBVIOUS
<1>2. PICK e \in Filled(f, w, c) :
        o = [buf |-> e.left, cache |-> <<>>, fifo |-> e.fifo, wire |-> e.wire,
             more |-> e.left # <<>>]
  BY <1>1, Zenon DEF Start
<1>3. /\ o.buf = e.left /\ o.cache = <<>> /\ o.fifo = e.fifo /\ o.wire = e.wire
      /\ o.more = (e.left # <<>>)
  BY <1>2
<1>4. Len(e.fifo) <= TxDepth /\ Joined(S, e.wire, e.fifo, e.left, w \o f \o c)
  BY <1>2, FilledKeeps
<1> QED
  BY <1>3, <1>4, Zenon

(* A byte that leaves the FIFO is the next one on the wire.                *)
LEMMA DrainKeeps ==
  ASSUME NEW S, NEW w \in Seq(S), NEW f \in Seq(S), f # <<>>
  PROVE  Len(Tail(f)) <= Len(f) /\ Joined(S, Append(w, Head(f)), Tail(f), <<>>, w \o f)
<1>1. /\ Head(f) \in S /\ Tail(f) \in Seq(S) /\ Len(Tail(f)) = Len(f) - 1
      /\ Head(f) = f[1] /\ Len(f) \in Nat /\ Len(f) > 0
  <2>1. Head(f) \in S /\ Tail(f) \in Seq(S) /\ Len(Tail(f)) = Len(f) - 1
    BY HeadTailProperties
  <2>2. Len(f) \in Nat \ {0}
    BY EmptySeq
  <2> QED
    BY <2>1, <2>2
<1>2. <<Head(f)>> \in Seq(S)
  BY <1>1
<1>3. f = <<Head(f)>> \o Tail(f)
  <2>1. 1 \in 1..Len(f) /\ Len(f) \in 1..Len(f)
    BY <1>1
  <2>2. SubSeq(f, 1, Len(f)) = <<f[1]>> \o SubSeq(f, 1 + 1, Len(f))
    BY <2>1, SubSeqRecursiveFirst
  <2>3. SubSeq(f, 1, Len(f)) = f
    BY SubSeqFull
  <2>4. Tail(f) = SubSeq(f, 2, Len(f))
    BY TailIsSubSeq
  <2>5. 1 + 1 = 2
    OBVIOUS
  <2> QED
    BY <1>1, <2>2, <2>3, <2>4, <2>5, Zenon
<1>4. Append(w, Head(f)) = w \o <<Head(f)>> /\ Append(w, Head(f)) \in Seq(S)
  <2>1. Append(w, Head(f)) \in Seq(S)
    BY <1>1, AppendProperties
  <2>2. Append(w, Head(f)) = w \o <<Head(f)>>
    BY <1>1, AppendIsConcat
  <2> QED
    BY <2>1, <2>2
<1>5. (w \o <<Head(f)>>) \o Tail(f) = w \o (<<Head(f)>> \o Tail(f))
  <2>1. \A a \in Seq(S), b \in Seq(S) : (w \o a) \o b = w \o (a \o b)
    BY ConcatAssociative
  <2> QED
    BY <1>1, <1>2, <2>1, Zenon
<1>6. Append(w, Head(f)) \o Tail(f) = w \o f
  BY <1>3, <1>4, <1>5, Zenon
<1>7. Append(w, Head(f)) \o Tail(f) \o <<>> = w \o f
  <2>1. Append(w, Head(f)) \o Tail(f) \in Seq(S)
    BY <1>1, <1>4, ConcatProperties
  <2>2. Append(w, Head(f)) \o Tail(f) \o <<>> = Append(w, Head(f)) \o Tail(f)
    BY <2>1, ConcatEmptySeq
  <2> QED
    BY <1>6, <2>2, Zenon
<1>8. <<>> \in Seq(S)
  BY EmptySeq
<1>9. Len(Tail(f)) <= Len(f)
  BY <1>1
<1> QED
  BY <1>1, <1>4, <1>7, <1>8, <1>9, Zenon DEF Joined

LEMMA TxInitHolds == TxInit => TxIInv
<1>1. SUFFICES ASSUME TxInit PROVE TxIInv
  OBVIOUS
<1>2. <<>> \in Seq(Bytes) /\ Len(<<>>) = 0
  BY EmptySeq
<1>3. TxTypeOK
  <2>1. /\ txBuf \in Seq(Bytes) /\ cache \in Seq(Bytes) /\ txFifo \in Seq(Bytes)
        /\ sent \in Seq(Bytes) /\ written \in Seq(Bytes)
    BY <1>1, <1>2, Zenon DEF TxInit
  <2>2. Len(txFifo) = 0
    BY <1>1, <1>2, Zenon DEF TxInit
  <2>3. Len(txFifo) <= TxDepth
    BY <2>2, TxSizes
  <2> QED
    BY <1>1, <2>1, <2>3 DEF TxInit, TxTypeOK
<1>4. SentInOrder
  BY <1>1, <1>2, ConcatEmptySeq DEF TxInit, SentInOrder
<1> QED
  BY <1>1, <1>3, <1>4
     DEF TxIInv, TxInv, Armed, StopDrops, BufferOn, EmptyToo, Closed, TxInit

(* The invariant about the four sequences, and the one about the rest.     *)
LEMMA TxFacts ==
  ASSUME TxIInv
  PROVE  /\ sent \in Seq(Bytes) /\ txFifo \in Seq(Bytes) /\ txBuf \in Seq(Bytes)
         /\ cache \in Seq(Bytes) /\ written \in Seq(Bytes) /\ Len(txFifo) <= TxDepth
         /\ sent \o txFifo \o txBuf \o cache = written
         /\ <<>> \in Seq(Bytes) /\ sent \o txFifo \in Seq(Bytes)
<1>1. sent \in Seq(Bytes) /\ txFifo \in Seq(Bytes)
  BY DEF TxIInv, TxInv, TxTypeOK
<1>2. sent \o txFifo \in Seq(Bytes)
  BY <1>1, ConcatProperties
<1>3. <<>> \in Seq(Bytes)
  BY EmptySeq
<1> QED
  BY <1>1, <1>2, <1>3 DEF TxIInv, TxInv, TxTypeOK, SentInOrder

LEMMA TxBaseInit == TxIInv /\ BaseInit => TxIInv'
<1>1. SUFFICES ASSUME TxIInv, BaseInit PROVE TxIInv'
  OBVIOUS
<1>2. cache = <<>> /\ txBuf = <<>> /\ told = "none" /\ writer = "idle" /\ ~open
  BY <1>1 DEF TxIInv, Closed, BaseInit
<1>3. ~txOn
  BY <1>1, <1>2 DEF TxIInv, BufferOn
<1>4. /\ open' = TRUE /\ txFifo' = <<>> /\ written' = sent /\ sent' = sent
      /\ txOn' = txOn /\ txBuf' = txBuf /\ cache' = cache /\ ptime' = ptime
      /\ etbei' = etbei /\ writer' = writer /\ returned' = returned /\ told' = told
  BY <1>1 DEF BaseInit, buffers, ier
<1>5. TxTypeOK'
  <2>1. Len(<<>>) = 0
    OBVIOUS
  <2> QED
    BY <1>1, <1>4, <2>1, TxFacts, TxSizes DEF TxIInv, TxInv, TxTypeOK
<1>6. SentInOrder'
  <2>1. sent \o <<>> = sent
    BY <1>1, TxFacts, ConcatEmptySeq
  <2> QED
    BY <1>2, <1>4, <2>1 DEF SentInOrder
<1> QED
  BY <1>1, <1>2, <1>3, <1>4, <1>5, <1>6
     DEF TxIInv, TxInv, Armed, StopDrops, BufferOn, EmptyToo, Closed

LEMMA FreshBytes ==
  ASSUME TxIInv, NEW n \in Nat, Len(written) + n <= MaxWritten
  PROVE  Fresh(n) \in Seq(Bytes)
<1>1. Len(written) \in Nat
  BY TxFacts, LenProperties
<1>2. \A i \in 1..n : Len(written) + i \in Bytes
  BY <1>1, TxSizes DEF Bytes
<1>3. Fresh(n) \in [1..n -> Bytes]
  BY <1>2 DEF Fresh
<1> QED
  BY <1>3

LEMMA TxWriteBusy ==
  ASSUME TxIInv, NEW n \in Lengths, BufferTx(n), WriteBusy(Fresh(n)),
         written' = written \o Fresh(n)
  PROVE  TxIInv'
<1>1. /\ open /\ writer = "idle" /\ Len(written) + n <= MaxWritten
      /\ told' = "waiting" /\ open' = open
  BY DEF BufferTx
<1>2. /\ txOn /\ cache' = cache \o Fresh(n) /\ returned' = 0
      /\ txOn' = txOn /\ txBuf' = txBuf /\ txFifo' = txFifo /\ sent' = sent
      /\ writer' = writer /\ ptime' = ptime /\ etbei' = etbei
  BY DEF WriteBusy, line, ier
<1>3. Fresh(n) \in Seq(Bytes)
  BY <1>1, TxSizes, FreshBytes
<1>4. cache' \in Seq(Bytes) /\ written' \in Seq(Bytes)
  BY <1>2, <1>3, TxFacts, ConcatProperties
<1>5. TxTypeOK'
  BY <1>1, <1>2, <1>4, TxFacts DEF TxIInv, TxInv, TxTypeOK
<1>6. SentInOrder'
  <2>1. sent \o txFifo \o txBuf \in Seq(Bytes)
    BY TxFacts, ConcatProperties
  <2>2. \A a \in Seq(Bytes), b \in Seq(Bytes), c \in Seq(Bytes) : (a \o b) \o c = a \o (b \o c)
    BY ConcatAssociative
  <2>3. (sent \o txFifo \o txBuf \o cache) \o Fresh(n)
          = sent \o txFifo \o txBuf \o (cache \o Fresh(n))
    BY <1>3, <2>1, <2>2, TxFacts, Zenon
  <2>4. sent \o txFifo \o txBuf \o cache = written
    BY TxFacts
  <2> QED
    BY <1>2, <2>3, <2>4, Zenon DEF SentInOrder
<1> QED
  BY <1>1, <1>2, <1>5, <1>6
     DEF TxIInv, TxInv, Armed, StopDrops, BufferOn, EmptyToo, Closed

LEMMA TxWriteFree ==
  ASSUME TxIInv, NEW n \in Lengths, BufferTx(n), WriteFree(Fresh(n)),
         written' = written \o Fresh(n)
  PROVE  TxIInv'
<1>1. /\ open /\ writer = "idle" /\ Len(written) + n <= MaxWritten
      /\ told' = "waiting" /\ open' = open
  BY DEF BufferTx
<1>2. PICK o \in Start(txFifo, sent, cache \o Fresh(n)) :
        /\ Store(o)
        /\ writer' = IF o.more THEN "enableBoth" ELSE "enableEmpty"
        /\ returned' = IF o.more THEN 1 ELSE 0
  BY DEF WriteFree
<1>3. ~txOn /\ ptime' = FALSE /\ etbei' = FALSE
  BY DEF WriteFree
<1>4. txBuf = <<>>
  BY <1>3 DEF TxIInv, BufferOn
<1>5. Fresh(n) \in Seq(Bytes)
  BY <1>1, TxSizes, FreshBytes
<1>6. cache \o Fresh(n) \in Seq(Bytes) /\ written' \in Seq(Bytes)
  BY <1>5, TxFacts, ConcatProperties
<1>7. /\ o.cache = <<>> /\ o.more = (o.buf # <<>>)
      /\ o.wire \in Seq(Bytes) /\ o.fifo \in Seq(Bytes) /\ o.buf \in Seq(Bytes)
      /\ Len(o.fifo) <= TxDepth
      /\ o.wire \o o.fifo \o o.buf = sent \o txFifo \o (cache \o Fresh(n))
  <2>1. txFifo \in Seq(Bytes) /\ sent \in Seq(Bytes)
    BY TxFacts, Zenon
  <2>2. /\ o.cache = <<>> /\ o.more = (o.buf # <<>>) /\ Len(o.fifo) <= TxDepth
        /\ Joined(Bytes, o.wire, o.fifo, o.buf, sent \o txFifo \o (cache \o Fresh(n)))
    <3>1. PICK c : c = cache \o Fresh(n)
      OBVIOUS
    <3>2. c \in Seq(Bytes) /\ o \in Start(txFifo, sent, c)
      BY <1>2, <1>6, <3>1, Zenon
    <3>3. /\ o.cache = <<>> /\ o.more = (o.buf # <<>>) /\ Len(o.fifo) <= TxDepth
          /\ Joined(Bytes, o.wire, o.fifo, o.buf, sent \o txFifo \o c)
      BY <2>1, <3>2, StartKeeps
    <3> QED
      BY <3>1, <3>3, Zenon
  <2> QED
    BY <2>2, Zenon DEF Joined
<1>8. /\ txOn' = o.more /\ txBuf' = o.buf /\ cache' = <<>> /\ txFifo' = o.fifo
      /\ sent' = o.wire
  BY <1>2, <1>7 DEF Store
<1>9. writer' \in {"enableBoth", "enableEmpty"} /\ returned' \in {0, 1}
  BY <1>2
<1>10. TxTypeOK'
  <2>1. txOn' \in BOOLEAN
    BY <1>7, <1>8, Zenon
  <2> QED
    BY <1>1, <1>3, <1>6, <1>7, <1>8, <1>9, <2>1, TxFacts DEF TxIInv, TxInv, TxTypeOK
<1>11. SentInOrder'
  <2>1. sent \o txFifo \o cache = written
    <3>1. sent \o txFifo \o <<>> = sent \o txFifo
      BY TxFacts, ConcatEmptySeq
    <3> QED
      BY <1>4, <3>1, TxFacts, Zenon
  <2>2. \A a \in Seq(Bytes), b \in Seq(Bytes), c \in Seq(Bytes) : (a \o b) \o c = a \o (b \o c)
    BY ConcatAssociative
  <2>3. (sent \o txFifo \o cache) \o Fresh(n) = sent \o txFifo \o (cache \o Fresh(n))
    BY <1>5, <2>2, TxFacts, Zenon
  <2>4. o.wire \o o.fifo \o o.buf = written'
    BY <1>7, <2>1, <2>3, Zenon
  <2>5. written' \o <<>> = written'
    BY <1>6, ConcatEmptySeq
  <2> QED
    BY <1>8, <2>4, <2>5, Zenon DEF SentInOrder
<1>12. BufferOn'
  BY <1>7, <1>8, Zenon DEF BufferOn
<1> QED
  BY <1>1, <1>3, <1>9, <1>10, <1>11, <1>12
     DEF TxIInv, TxInv, Armed, StopDrops, EmptyToo, Closed

(* The steps of the task that only touch the interrupt enables.            *)
LEMMA TxEnables ==
  ASSUME TxIInv, Enable \/ \E closing \in BOOLEAN : Stop(closing)
  PROVE  TxIInv'
<1>1. /\ txOn' = txOn /\ txBuf' = txBuf /\ cache' = cache /\ txFifo' = txFifo
      /\ sent' = sent /\ returned' = returned /\ written' = written /\ told' = told
  BY DEF Enable, Stop, buffers, line
<1>2. SentInOrder'
  BY <1>1, Zenon DEF TxIInv, TxInv, SentInOrder
<1>3. CASE Enable
  <2>1. /\ writer \in {"enableBoth", "enableEmpty"} /\ writer' = "idle" /\ etbei' = TRUE
        /\ open' = open
        /\ ptime' \in {TRUE} \/ ptime' \in {ptime, FALSE}
    BY <1>3 DEF Enable
  <2>2. open
    BY <2>1 DEF TxIInv, Closed
  <2>3. TxTypeOK'
    BY <1>1, <2>1 DEF TxIInv, TxInv, TxTypeOK
  <2> QED
    BY <1>1, <1>2, <2>1, <2>2, <2>3
       DEF TxIInv, TxInv, Armed, StopDrops, BufferOn, EmptyToo, Closed
<1>4. CASE \E closing \in BOOLEAN : Stop(closing)
  <2>1. /\ open' \in BOOLEAN /\ writer' = "stop" /\ ptime' = FALSE /\ etbei' = FALSE
    BY <1>4 DEF Stop
  <2>2. TxTypeOK'
    BY <1>1, <2>1 DEF TxIInv, TxInv, TxTypeOK
  <2> QED
    BY <1>1, <1>2, <2>1, <2>2
       DEF TxIInv, TxInv, Armed, StopDrops, BufferOn, EmptyToo, Closed
<1> QED
  BY <1>3, <1>4

LEMMA TxStopBuffers == TxIInv /\ StopBuffers => TxIInv'
<1>1. SUFFICES ASSUME TxIInv, StopBuffers PROVE TxIInv'
  OBVIOUS
<1>2. /\ writer' = "idle" /\ txOn' = FALSE /\ txBuf' = <<>> /\ cache' = <<>>
      /\ written' = sent \o txFifo /\ told' = "none" /\ open' = open
      /\ txFifo' = txFifo /\ sent' = sent /\ ptime' = ptime /\ etbei' = etbei
      /\ returned' = returned
  BY <1>1 DEF StopBuffers, line, ier
<1>3. TxTypeOK'
  BY <1>1, <1>2, TxFacts DEF TxIInv, TxInv, TxTypeOK
<1>4. SentInOrder'
  <2>1. sent \o txFifo \o <<>> = sent \o txFifo
    BY <1>1, TxFacts, ConcatEmptySeq
  <2> QED
    BY <1>2, <2>1, Zenon DEF SentInOrder
<1> QED
  BY <1>1, <1>2, <1>3, <1>4
     DEF TxIInv, TxInv, Armed, StopDrops, BufferOn, EmptyToo, Closed

LEMMA TxDrain == TxIInv /\ Drain => TxIInv'
<1>1. SUFFICES ASSUME TxIInv, Drain PROVE TxIInv'
  OBVIOUS
<1>2. /\ open /\ txFifo # <<>> /\ txFifo' = Tail(txFifo)
      /\ sent' = Append(sent, Head(txFifo))
      /\ open' = open /\ txOn' = txOn /\ txBuf' = txBuf /\ cache' = cache
      /\ ptime' = ptime /\ etbei' = etbei /\ writer' = writer
      /\ returned' = returned /\ written' = written /\ told' = told
  BY <1>1 DEF Drain, buffers, ier
<1>3. /\ sent' \in Seq(Bytes) /\ txFifo' \in Seq(Bytes)
      /\ Len(txFifo') <= Len(txFifo) /\ sent' \o txFifo' = sent \o txFifo
  <2>1. txFifo \in Seq(Bytes) /\ sent \in Seq(Bytes)
    BY <1>1, TxFacts, Zenon
  <2>2. /\ Len(Tail(txFifo)) <= Len(txFifo)
        /\ Joined(Bytes, Append(sent, Head(txFifo)), Tail(txFifo), <<>>, sent \o txFifo)
    BY <1>2, <2>1, DrainKeeps
  <2>3. Len(txFifo') <= Len(txFifo) /\ Joined(Bytes, sent', txFifo', <<>>, sent \o txFifo)
    BY <1>2, <2>2, Zenon
  <2>4. sent' \in Seq(Bytes) /\ txFifo' \in Seq(Bytes) /\ sent' \o txFifo' \o <<>> = sent \o txFifo
    BY <2>3, Zenon DEF Joined
  <2>5. sent' \o txFifo' \o <<>> = sent' \o txFifo'
    <3>1. sent' \o txFifo' \in Seq(Bytes)
      BY <2>4, ConcatProperties
    <3> QED
      BY <3>1, ConcatEmptySeq
  <2> QED
    BY <2>3, <2>4, <2>5, Zenon
<1>4. TxTypeOK'
  <2>1. Len(txFifo) \in Nat /\ Len(txFifo') \in Nat /\ Len(txFifo) <= TxDepth
    BY <1>1, <1>3, TxFacts, LenProperties
  <2>2. Len(txFifo') <= TxDepth
    BY <1>3, <2>1, TxSizes
  <2> QED
    BY <1>1, <1>2, <1>3, <2>2 DEF TxIInv, TxInv, TxTypeOK
<1>5. SentInOrder'
  BY <1>1, <1>2, <1>3, TxFacts, Zenon DEF SentInOrder
<1> QED
  BY <1>1, <1>2, <1>4, <1>5
     DEF TxIInv, TxInv, Armed, StopDrops, BufferOn, EmptyToo, Closed

(* The handler goes on with TxBuf, and perhaps with the cache.             *)
LEMMA TxGoOn ==
  ASSUME TxIInv, open, GoOn, UNCHANGED <<open, writer, returned, written>>
  PROVE  TxIInv'
<1>1. open' = open /\ writer' = writer /\ returned' = returned /\ written' = written
  OBVIOUS
<1>2. txOn \/ cache # <<>>
  BY DEF GoOn
<1>3. PICK o \in Filled(txFifo, sent, txBuf) :
        \/ /\ o.left # <<>>
           /\ txBuf' = o.left /\ txFifo' = o.fifo /\ sent' = o.wire
           /\ UNCHANGED <<txOn, cache, ier, told>>
        \/ /\ o.left = <<>>
           /\ \E next \in Start(o.fifo, o.wire, cache) :
                /\ Store(next)
                /\ ptime' = next.more /\ etbei' = next.more
                /\ told' = IF next.more THEN told ELSE "all"
  BY DEF GoOn
<1>4. /\ o.wire \in Seq(Bytes) /\ o.fifo \in Seq(Bytes) /\ o.left \in Seq(Bytes)
      /\ Len(o.fifo) <= TxDepth
      /\ o.wire \o o.fifo \o o.left = sent \o txFifo \o txBuf
  <2>1. txFifo \in Seq(Bytes) /\ sent \in Seq(Bytes) /\ txBuf \in Seq(Bytes)
    BY TxFacts, Zenon
  <2>2. /\ Len(o.fifo) <= TxDepth
        /\ Joined(Bytes, o.wire, o.fifo, o.left, sent \o txFifo \o txBuf)
    BY <1>3, <2>1, FilledKeeps
  <2> QED
    BY <2>2, Zenon DEF Joined
<1>5. CASE /\ o.left # <<>>
           /\ txBuf' = o.left /\ txFifo' = o.fifo /\ sent' = o.wire
           /\ UNCHANGED <<txOn, cache, ier, told>>
  <2>1. /\ txOn' = txOn /\ cache' = cache /\ told' = told /\ ptime' = ptime
        /\ etbei' = etbei
    BY <1>5 DEF ier
  <2>2. txBuf # <<>>
    <3>1. SUFFICES ASSUME txBuf = <<>> PROVE FALSE
      OBVIOUS
    <3>2. o \in Filled(txFifo, sent, <<>>)
      BY <1>3, <3>1, Zenon
    <3>3. o.left = <<>>
      BY <3>2, TxFacts, FilledShrinks
    <3> QED
      BY <1>5, <3>3
  <2>3. txOn
    BY <2>2 DEF TxIInv, BufferOn
  <2>4. TxTypeOK'
    BY <1>1, <1>4, <1>5, <2>1 DEF TxIInv, TxInv, TxTypeOK
  <2>5. SentInOrder'
    <3>1. sent \o txFifo \o txBuf \o cache = written
      BY TxFacts
    <3> QED
      BY <1>1, <1>4, <1>5, <2>1, <3>1, Zenon DEF SentInOrder
  <2> QED
    BY <1>1, <1>5, <2>1, <2>2, <2>3, <2>4, <2>5
       DEF TxIInv, TxInv, Armed, StopDrops, BufferOn, EmptyToo, Closed
<1>6. CASE /\ o.left = <<>>
           /\ \E next \in Start(o.fifo, o.wire, cache) :
                /\ Store(next)
                /\ ptime' = next.more /\ etbei' = next.more
                /\ told' = IF next.more THEN told ELSE "all"
  <2>1. PICK next \in Start(o.fifo, o.wire, cache) :
          /\ Store(next)
          /\ ptime' = next.more /\ etbei' = next.more
          /\ told' = IF next.more THEN told ELSE "all"
    BY <1>6
  <2>2. /\ next.cache = <<>> /\ next.more = (next.buf # <<>>)
        /\ next.wire \in Seq(Bytes) /\ next.fifo \in Seq(Bytes) /\ next.buf \in Seq(Bytes)
        /\ Len(next.fifo) <= TxDepth
        /\ next.wire \o next.fifo \o next.buf = o.wire \o o.fifo \o cache
    <3>1. cache \in Seq(Bytes)
      BY TxFacts, Zenon
    <3>2. /\ next.cache = <<>> /\ next.more = (next.buf # <<>>) /\ Len(next.fifo) <= TxDepth
          /\ Joined(Bytes, next.wire, next.fifo, next.buf, o.wire \o o.fifo \o cache)
      BY <1>4, <2>1, <3>1, StartKeeps
    <3> QED
      BY <3>2, Zenon DEF Joined
  <2>3. /\ txOn' = next.more /\ txBuf' = next.buf /\ cache' = <<>>
        /\ txFifo' = next.fifo /\ sent' = next.wire
    BY <2>1, <2>2, Zenon DEF Store
  <2>4. /\ txOn' \in BOOLEAN /\ ptime' \in BOOLEAN /\ etbei' \in BOOLEAN
        /\ txOn' <=> txBuf' # <<>>
        /\ (ptime' <=> txOn') /\ (etbei' <=> txOn')
    BY <2>1, <2>2, <2>3, Zenon
  <2>5. (txOn' /\ told' = told) \/ (~txOn' /\ told' = "all")
    BY <2>1, <2>3, <2>4, Zenon
  <2>6. TxTypeOK'
    BY <1>1, <2>2, <2>3, <2>4, <2>5, TxFacts DEF TxIInv, TxInv, TxTypeOK
  <2>7. SentInOrder'
    <3>1. o.wire \o o.fifo \o <<>> = o.wire \o o.fifo
      <4>1. o.wire \o o.fifo \in Seq(Bytes)
        BY <1>4, ConcatProperties
      <4> QED
        BY <4>1, ConcatEmptySeq
    <3>2. o.wire \o o.fifo = sent \o txFifo \o txBuf
      BY <1>4, <1>6, <3>1, Zenon
    <3>3. next.wire \o next.fifo \o next.buf = written
      BY <2>2, <3>2, TxFacts, Zenon
    <3>4. written \o <<>> = written
      BY TxFacts, ConcatEmptySeq
    <3> QED
      BY <1>1, <2>3, <3>3, <3>4, Zenon DEF SentInOrder
  <2>8. told # "none"
    BY <1>2 DEF TxIInv, TxInv, StopDrops, BufferOn
  <2> QED
    BY <1>1, <2>3, <2>4, <2>5, <2>6, <2>7, <2>8
       DEF TxIInv, TxInv, Armed, StopDrops, BufferOn, EmptyToo, Closed
<1> QED
  BY <1>3, <1>5, <1>6

LEMMA TxNothingLeft ==
  ASSUME TxIInv, open, NothingLeft, UNCHANGED <<open, writer, returned, written>>
  PROVE  TxIInv'
<1>1. /\ open' = open /\ writer' = writer /\ returned' = returned /\ written' = written
      /\ txOn' = txOn /\ txBuf' = txBuf /\ cache' = cache /\ txFifo' = txFifo
      /\ sent' = sent /\ ~txOn /\ cache = <<>>
  BY DEF NothingLeft, buffers, line
<1>2. \/ ptime /\ ptime' = FALSE /\ told' = "buffer" /\ etbei' = etbei
      \/ ~ptime /\ etbei' = FALSE /\ told' = "all" /\ ptime' = ptime
  BY DEF NothingLeft
<1>3. TxTypeOK'
  BY <1>1, <1>2 DEF TxIInv, TxInv, TxTypeOK
<1>4. SentInOrder'
  BY <1>1, Zenon DEF TxIInv, TxInv, SentInOrder
<1> QED
  BY <1>1, <1>2, <1>3, <1>4
     DEF TxIInv, TxInv, Armed, StopDrops, BufferOn, EmptyToo, Closed

LEMMA TxNextKeeps == TxIInv /\ [TxNext]_txVars => TxIInv'
<1>1. SUFFICES ASSUME TxIInv, [TxNext]_txVars PROVE TxIInv'
  OBVIOUS
<1>2. CASE \E n \in Lengths : BufferTx(n)
  <2>1. PICK n \in Lengths : BufferTx(n)
    BY <1>2
  <2>2. written' = written \o Fresh(n) /\ (WriteBusy(Fresh(n)) \/ WriteFree(Fresh(n)))
    BY <2>1 DEF BufferTx
  <2> QED
    BY <1>1, <2>1, <2>2, TxWriteBusy, TxWriteFree
<1>3. CASE TxEmpty \/ LineStatus
  <2>1. open /\ (GoOn \/ NothingLeft) /\ UNCHANGED <<open, writer, returned, written>>
    BY <1>3 DEF TxEmpty, LineStatus, Tx
  <2> QED
    BY <1>1, <2>1, TxGoOn, TxNothingLeft
<1>4. CASE UNCHANGED txVars
  BY <1>1, <1>4
     DEF txVars, buffers, line, ier, TxIInv, TxInv, TxTypeOK, SentInOrder, Armed,
         StopDrops, BufferOn, EmptyToo, Closed
<1> QED
  BY <1>1, <1>2, <1>3, <1>4, TxBaseInit, TxEnables, TxStopBuffers, TxDrain DEF TxNext

-----------------------------------------------------------------------------
(* Whatever is written, whenever the transmitter is stopped or closed and  *)
(* however the FIFO drains meanwhile, the bytes leave in the order written *)
(* and the interrupt that goes on is enabled while bytes wait.             *)
THEOREM SendsInOrder == TxSpec => []TxInv
<1>1. TxSpec => []TxIInv
  BY TxInitHolds, TxNextKeeps, PTL DEF TxSpec
<1>2. TxIInv => TxInv
  BY DEF TxIInv
<1> QED
  BY <1>1, <1>2, PTL

-----------------------------------------------------------------------------
(***************************************************************************)
(* The SPI master: no more than fits is queued, neither interrupt runs     *)
(* past the buffers, every transfer is reported once, and a call that      *)
(* returns 0 too early was woken by an old token, or is short of the byte  *)
(* a stopped transfer had left on the way.                                 *)
(*                                                                         *)
(* What is inductive: a transfer is moved either by the DMA streams, with  *)
(* the line off, or through the FIFOs; what was sent and what was on the   *)
(* way before it is on the way, received or lost; the handler's TxLen is   *)
(* the room it may fill whatever has crossed the bus meanwhile; a free bus *)
(* is at rest; and a token of this transfer means that as many bytes as it *)
(* has have been read.                                                     *)
(***************************************************************************)
AtRest == ~IsBusy => blk = 0 /\ ~tfr /\ ipc = "none"

OneEngine ==
  /\ blk > 0 \/ tfr => TxPos = RxPos /\ lost = 0 /\ ipc = "none" /\ ~spiLine
  /\ ~(blk > 0 /\ tfr)

InFifos == IsBusy /\ place # "stop" => TxPos + before = OnTheWay + RxPos + lost

RoomHeld ==
  /\ ipc \in {"drain", "decide"} => tx + txLen <= Fifo
  /\ ipc = "decide" => OnTheWay + txLen <= Fifo + 1

Counted == IsBusy /\ place # "stop" => moved + blk = RxPos

Silenced == place = "stop" => ipc = "none" /\ ~spiLine /\ blk = 0 /\ ~tfr

Asked == place = "start" => arg > 0

Woken ==
  ~stale /\ (place = "took" \/ (place = "wait" /\ sem = 1)) => ~IsBusy /\ moved >= len

SpiIInv ==
  /\ SpiInv /\ AtRest /\ OneEngine /\ InFifos /\ RoomHeld /\ Counted /\ Silenced
  /\ Asked /\ Woken

(* The type invariant in two parts: the Booleans, which Zenon follows, and *)
(* the others.                                                             *)
Switches ==
  /\ dma \in BOOLEAN /\ IsBusy \in BOOLEAN /\ IsBlockMode \in BOOLEAN
  /\ spiLine \in BOOLEAN /\ tfr \in BOOLEAN /\ stale \in BOOLEAN
  /\ selected \in BOOLEAN /\ overrun \in BOOLEAN

Amounts ==
  /\ place \in {"idle", "start", "wait", "took", "late", "stop"}
  /\ last \in {"none", "ok", "busy", "timeout"}
  /\ sem \in 0..1
  /\ arg \in Nat /\ len \in Nat /\ TxPos \in Nat /\ RxPos \in Nat
  /\ tx \in Nat /\ rx \in Nat /\ shifter \in 0..1
  /\ rxftlr \in Nat /\ blk \in Nat /\ moved \in Nat /\ lost \in Nat /\ before \in Nat
  /\ unmasked \in {"tx", "rx", "none"}
  /\ ipc \in {"none", "drain", "decide"} /\ txLen \in 0..Fifo
  /\ started \in 0..MaxCalls /\ stopped \in Nat /\ called \in Nat

LEMMA TypeParts == (SpiTypeOK <=> Switches /\ Amounts) /\ (SpiTypeOK' <=> (Switches /\ Amounts)')
BY Zenon DEF SpiTypeOK, Switches, Amounts

LEMMA SpiSizes ==
  /\ Fifo \in Nat \ {0} /\ Limit \in Nat \ {0} /\ Chunk \in Nat \ {0}
  /\ BlockMax \in Nat \ {0} /\ Chunk <= Limit /\ Limit <= BlockMax
  /\ TxLevel \in 0..(Fifo - 1) /\ PolledMax \in Nat
  /\ SpiLengths \subseteq Nat \ {0} /\ MaxCalls \in Nat
BY SpiAssumption DEF SpiAssumption

LEMMA LeastOfTwo ==
  ASSUME NEW a \in Nat, NEW b \in Nat
  PROVE  /\ Least(a, b) \in Nat /\ Least(a, b) <= a /\ Least(a, b) <= b
         /\ Least(a, b) = a \/ Least(a, b) = b
<1>1. \E x \in {a, b} : \A y \in {a, b} : x =< y
  <2>1. CASE a <= b
    BY <2>1
  <2>2. CASE b <= a
    BY <2>2
  <2> QED
    BY <2>1, <2>2
<1>2. Least(a, b) = CHOOSE x \in {a, b} : \A y \in {a, b} : x =< y
  BY Zenon DEF Least, Min
<1>3. Least(a, b) \in {a, b} /\ \A y \in {a, b} : Least(a, b) <= y
  BY <1>1, <1>2
<1> QED
  BY <1>3

LEMMA BlockFits ==
  ASSUME NEW n \in Nat \ {0}
  PROVE  /\ Block(n) \in Nat \ {0} /\ Block(n) <= n /\ Block(n) <= BlockMax
BY SpiSizes DEF Block

LEMMA SpiInitHolds == SpiInit => SpiIInv
<1>0. SUFFICES ASSUME SpiInit PROVE SpiIInv
  OBVIOUS
<1>1. Switches
  BY <1>0, TypeParts, Zenon
     DEF SpiInit, SpiIInv, SpiInv, Switches
<1>2. Amounts
  BY <1>0, TypeParts, SpiSizes
     DEF SpiInit, SpiIInv, SpiInv, Amounts, InBounds, InFifos, OnTheWay, AtRest,
         RoomHeld
<1>3. FifoFits /\ InBounds /\ LeftByStop /\ RoomHeld
  BY <1>0, SpiSizes
     DEF SpiInit, SpiIInv, SpiInv, SpiTypeOK, FifoFits, InBounds, LeftByStop,
         RoomHeld, AtRest, OneEngine, InFifos, OnTheWay
<1>4. OneCallback /\ TimeoutIsQuiet /\ AtRest /\ Silenced /\ Asked
  BY <1>0, SpiSizes
     DEF SpiInit, SpiIInv, SpiInv, SpiTypeOK, OneCallback, TimeoutIsQuiet,
         LeftByStop, OnTheWay, AtRest, OneEngine, Silenced, Asked
<1>5. OneEngine /\ InFifos /\ Counted /\ Woken
  BY <1>0, SpiSizes
     DEF SpiInit, SpiIInv, SpiInv, SpiTypeOK, AtRest, OneEngine, InFifos, OnTheWay,
         Counted, Silenced, Woken
<1> QED
  BY <1>1, <1>2, <1>3, <1>4, <1>5, TypeParts DEF SpiIInv, SpiInv

LEMMA SpiStutters == SpiIInv /\ UNCHANGED spiVars => SpiIInv'
BY DEF spiVars, task, flags, positions, fifos, regs, irq, stream, counts, history,
       SpiIInv, SpiInv, SpiTypeOK, FifoFits, InBounds, LeftByStop, OneCallback,
       TimeoutIsQuiet, OnTheWay, AtRest, OneEngine, InFifos, RoomHeld, Counted,
       Silenced, Asked, Woken

(* The steps of the task that leave the transfer alone.                    *)
LEMMA SpiTask ==
  SpiIInv /\ (BlockBusy \/ Take \/ Return \/ Timeout \/ \E n \in SpiLengths : BlockTransfer(n))
    => SpiIInv'
<1>1. SUFFICES ASSUME SpiIInv,
                      BlockBusy \/ Take \/ Return \/ Timeout
                        \/ \E n \in SpiLengths : BlockTransfer(n)
               PROVE  SpiIInv'
  OBVIOUS
<1>2. CASE BlockBusy
  <2>1. SpiTypeOK'
    BY <1>1, <1>2
       DEF BlockBusy, task, flags, positions, fifos, regs, irq, stream, counts, history,
           SpiIInv, SpiInv, SpiTypeOK, FifoFits, InBounds, LeftByStop, OneCallback,
           TimeoutIsQuiet, OnTheWay, AtRest, OneEngine, InFifos, RoomHeld, Counted,
           Silenced, Asked, Woken
  <2>2. FifoFits'
    BY <1>1, <1>2
       DEF BlockBusy, task, flags, positions, fifos, regs, irq, stream, counts, history,
           SpiIInv, SpiInv, SpiTypeOK, FifoFits, InBounds, LeftByStop, OneCallback,
           TimeoutIsQuiet, OnTheWay, AtRest, OneEngine, InFifos, RoomHeld, Counted,
           Silenced, Asked, Woken
  <2>3. InBounds'
    BY <1>1, <1>2
       DEF BlockBusy, task, flags, positions, fifos, regs, irq, stream, counts, history,
           SpiIInv, SpiInv, SpiTypeOK, FifoFits, InBounds, LeftByStop, OneCallback,
           TimeoutIsQuiet, OnTheWay, AtRest, OneEngine, InFifos, RoomHeld, Counted,
           Silenced, Asked, Woken
  <2>4. LeftByStop'
    BY <1>1, <1>2
       DEF BlockBusy, task, flags, positions, fifos, regs, irq, stream, counts, history,
           SpiIInv, SpiInv, SpiTypeOK, FifoFits, InBounds, LeftByStop, OneCallback,
           TimeoutIsQuiet, OnTheWay, AtRest, OneEngine, InFifos, RoomHeld, Counted,
           Silenced, Asked, Woken
  <2>5. OneCallback'
    BY <1>1, <1>2
       DEF BlockBusy, task, flags, positions, fifos, regs, irq, stream, counts, history,
           SpiIInv, SpiInv, SpiTypeOK, FifoFits, InBounds, LeftByStop, OneCallback,
           TimeoutIsQuiet, OnTheWay, AtRest, OneEngine, InFifos, RoomHeld, Counted,
           Silenced, Asked, Woken
  <2>6. TimeoutIsQuiet'
    BY <1>1, <1>2
       DEF BlockBusy, task, flags, positions, fifos, regs, irq, stream, counts, history,
           SpiIInv, SpiInv, SpiTypeOK, FifoFits, InBounds, LeftByStop, OneCallback,
           TimeoutIsQuiet, OnTheWay, AtRest, OneEngine, InFifos, RoomHeld, Counted,
           Silenced, Asked, Woken
  <2>7. AtRest'
    BY <1>1, <1>2
       DEF BlockBusy, task, flags, positions, fifos, regs, irq, stream, counts, history,
           SpiIInv, SpiInv, SpiTypeOK, FifoFits, InBounds, LeftByStop, OneCallback,
           TimeoutIsQuiet, OnTheWay, AtRest, OneEngine, InFifos, RoomHeld, Counted,
           Silenced, Asked, Woken
  <2>8. OneEngine'
    BY <1>1, <1>2
       DEF BlockBusy, task, flags, positions, fifos, regs, irq, stream, counts, history,
           SpiIInv, SpiInv, SpiTypeOK, FifoFits, InBounds, LeftByStop, OneCallback,
           TimeoutIsQuiet, OnTheWay, AtRest, OneEngine, InFifos, RoomHeld, Counted,
           Silenced, Asked, Woken
  <2>9. InFifos'
    BY <1>1, <1>2
       DEF BlockBusy, task, flags, positions, fifos, regs, irq, stream, counts, history,
           SpiIInv, SpiInv, SpiTypeOK, FifoFits, InBounds, LeftByStop, OneCallback,
           TimeoutIsQuiet, OnTheWay, AtRest, OneEngine, InFifos, RoomHeld, Counted,
           Silenced, Asked, Woken
  <2>10. RoomHeld'
    BY <1>1, <1>2
       DEF BlockBusy, task, flags, positions, fifos, regs, irq, stream, counts, history,
           SpiIInv, SpiInv, SpiTypeOK, FifoFits, InBounds, LeftByStop, OneCallback,
           TimeoutIsQuiet, OnTheWay, AtRest, OneEngine, InFifos, RoomHeld, Counted,
           Silenced, Asked, Woken
  <2>11. Counted'
    BY <1>1, <1>2
       DEF BlockBusy, task, flags, positions, fifos, regs, irq, stream, counts, history,
           SpiIInv, SpiInv, SpiTypeOK, FifoFits, InBounds, LeftByStop, OneCallback,
           TimeoutIsQuiet, OnTheWay, AtRest, OneEngine, InFifos, RoomHeld, Counted,
           Silenced, Asked, Woken
  <2>12. Silenced'
    BY <1>1, <1>2
       DEF BlockBusy, task, flags, positions, fifos, regs, irq, stream, counts, history,
           SpiIInv, SpiInv, SpiTypeOK, FifoFits, InBounds, LeftByStop, OneCallback,
           TimeoutIsQuiet, OnTheWay, AtRest, OneEngine, InFifos, RoomHeld, Counted,
           Silenced, Asked, Woken
  <2>13. Asked'
    BY <1>1, <1>2
       DEF BlockBusy, task, flags, positions, fifos, regs, irq, stream, counts, history,
           SpiIInv, SpiInv, SpiTypeOK, FifoFits, InBounds, LeftByStop, OneCallback,
           TimeoutIsQuiet, OnTheWay, AtRest, OneEngine, InFifos, RoomHeld, Counted,
           Silenced, Asked, Woken
  <2>14. Woken'
    BY <1>1, <1>2
       DEF BlockBusy, task, flags, positions, fifos, regs, irq, stream, counts, history,
           SpiIInv, SpiInv, SpiTypeOK, FifoFits, InBounds, LeftByStop, OneCallback,
           TimeoutIsQuiet, OnTheWay, AtRest, OneEngine, InFifos, RoomHeld, Counted,
           Silenced, Asked, Woken
  <2> QED
    BY <2>1, <2>2, <2>3, <2>4, <2>5, <2>6, <2>7, <2>8, <2>9, <2>10, <2>11, <2>12, <2>13, <2>14 DEF SpiIInv, SpiInv
<1>3. CASE Take
  BY <1>1, <1>3
     DEF Take, task, flags, positions, fifos, regs, irq, stream, counts, history,
         SpiIInv, SpiInv, SpiTypeOK, FifoFits, InBounds, LeftByStop, OneCallback,
         TimeoutIsQuiet, OnTheWay, AtRest, OneEngine, InFifos, RoomHeld, Counted,
         Silenced, Asked, Woken
<1>4. CASE Return
  <2>1. SpiTypeOK'
    BY <1>1, <1>4
       DEF Return, task, flags, positions, fifos, regs, irq, stream, counts, history,
           SpiIInv, SpiInv, SpiTypeOK, FifoFits, InBounds, LeftByStop, OneCallback,
           TimeoutIsQuiet, OnTheWay, AtRest, OneEngine, InFifos, RoomHeld, Counted,
           Silenced, Asked, Woken
  <2>2. FifoFits'
    BY <1>1, <1>4
       DEF Return, task, flags, positions, fifos, regs, irq, stream, counts, history,
           SpiIInv, SpiInv, SpiTypeOK, FifoFits, InBounds, LeftByStop, OneCallback,
           TimeoutIsQuiet, OnTheWay, AtRest, OneEngine, InFifos, RoomHeld, Counted,
           Silenced, Asked, Woken
  <2>3. InBounds'
    BY <1>1, <1>4
       DEF Return, task, flags, positions, fifos, regs, irq, stream, counts, history,
           SpiIInv, SpiInv, SpiTypeOK, FifoFits, InBounds, LeftByStop, OneCallback,
           TimeoutIsQuiet, OnTheWay, AtRest, OneEngine, InFifos, RoomHeld, Counted,
           Silenced, Asked, Woken
  <2>4. LeftByStop'
    BY <1>1, <1>4
       DEF Return, task, flags, positions, fifos, regs, irq, stream, counts, history,
           SpiIInv, SpiInv, SpiTypeOK, FifoFits, InBounds, LeftByStop, OneCallback,
           TimeoutIsQuiet, OnTheWay, AtRest, OneEngine, InFifos, RoomHeld, Counted,
           Silenced, Asked, Woken
  <2>5. OneCallback'
    BY <1>1, <1>4
       DEF Return, task, flags, positions, fifos, regs, irq, stream, counts, history,
           SpiIInv, SpiInv, SpiTypeOK, FifoFits, InBounds, LeftByStop, OneCallback,
           TimeoutIsQuiet, OnTheWay, AtRest, OneEngine, InFifos, RoomHeld, Counted,
           Silenced, Asked, Woken
  <2>6. TimeoutIsQuiet'
    BY <1>1, <1>4
       DEF Return, task, flags, positions, fifos, regs, irq, stream, counts, history,
           SpiIInv, SpiInv, SpiTypeOK, FifoFits, InBounds, LeftByStop, OneCallback,
           TimeoutIsQuiet, OnTheWay, AtRest, OneEngine, InFifos, RoomHeld, Counted,
           Silenced, Asked, Woken
  <2>7. AtRest'
    BY <1>1, <1>4
       DEF Return, task, flags, positions, fifos, regs, irq, stream, counts, history,
           SpiIInv, SpiInv, SpiTypeOK, FifoFits, InBounds, LeftByStop, OneCallback,
           TimeoutIsQuiet, OnTheWay, AtRest, OneEngine, InFifos, RoomHeld, Counted,
           Silenced, Asked, Woken
  <2>8. OneEngine'
    BY <1>1, <1>4
       DEF Return, task, flags, positions, fifos, regs, irq, stream, counts, history,
           SpiIInv, SpiInv, SpiTypeOK, FifoFits, InBounds, LeftByStop, OneCallback,
           TimeoutIsQuiet, OnTheWay, AtRest, OneEngine, InFifos, RoomHeld, Counted,
           Silenced, Asked, Woken
  <2>9. InFifos'
    BY <1>1, <1>4
       DEF Return, task, flags, positions, fifos, regs, irq, stream, counts, history,
           SpiIInv, SpiInv, SpiTypeOK, FifoFits, InBounds, LeftByStop, OneCallback,
           TimeoutIsQuiet, OnTheWay, AtRest, OneEngine, InFifos, RoomHeld, Counted,
           Silenced, Asked, Woken
  <2>10. RoomHeld'
    BY <1>1, <1>4
       DEF Return, task, flags, positions, fifos, regs, irq, stream, counts, history,
           SpiIInv, SpiInv, SpiTypeOK, FifoFits, InBounds, LeftByStop, OneCallback,
           TimeoutIsQuiet, OnTheWay, AtRest, OneEngine, InFifos, RoomHeld, Counted,
           Silenced, Asked, Woken
  <2>11. Counted'
    BY <1>1, <1>4
       DEF Return, task, flags, positions, fifos, regs, irq, stream, counts, history,
           SpiIInv, SpiInv, SpiTypeOK, FifoFits, InBounds, LeftByStop, OneCallback,
           TimeoutIsQuiet, OnTheWay, AtRest, OneEngine, InFifos, RoomHeld, Counted,
           Silenced, Asked, Woken
  <2>12. Silenced'
    BY <1>1, <1>4
       DEF Return, task, flags, positions, fifos, regs, irq, stream, counts, history,
           SpiIInv, SpiInv, SpiTypeOK, FifoFits, InBounds, LeftByStop, OneCallback,
           TimeoutIsQuiet, OnTheWay, AtRest, OneEngine, InFifos, RoomHeld, Counted,
           Silenced, Asked, Woken
  <2>13. Asked'
    BY <1>1, <1>4
       DEF Return, task, flags, positions, fifos, regs, irq, stream, counts, history,
           SpiIInv, SpiInv, SpiTypeOK, FifoFits, InBounds, LeftByStop, OneCallback,
           TimeoutIsQuiet, OnTheWay, AtRest, OneEngine, InFifos, RoomHeld, Counted,
           Silenced, Asked, Woken
  <2>14. Woken'
    BY <1>1, <1>4
       DEF Return, task, flags, positions, fifos, regs, irq, stream, counts, history,
           SpiIInv, SpiInv, SpiTypeOK, FifoFits, InBounds, LeftByStop, OneCallback,
           TimeoutIsQuiet, OnTheWay, AtRest, OneEngine, InFifos, RoomHeld, Counted,
           Silenced, Asked, Woken
  <2> QED
    BY <2>1, <2>2, <2>3, <2>4, <2>5, <2>6, <2>7, <2>8, <2>9, <2>10, <2>11, <2>12, <2>13, <2>14 DEF SpiIInv, SpiInv
<1>5. CASE Timeout
  BY <1>1, <1>5
     DEF Timeout, task, flags, positions, fifos, regs, irq, stream, counts, history,
         SpiIInv, SpiInv, SpiTypeOK, FifoFits, InBounds, LeftByStop, OneCallback,
         TimeoutIsQuiet, OnTheWay, AtRest, OneEngine, InFifos, RoomHeld, Counted,
         Silenced, Asked, Woken
<1>6. CASE \E n \in SpiLengths : BlockTransfer(n)
  BY <1>1, <1>6, SpiSizes
     DEF BlockTransfer, task, flags, positions, fifos, regs, irq, stream, counts,
         history, SpiIInv, SpiInv, SpiTypeOK, FifoFits, InBounds, LeftByStop,
         OneCallback, TimeoutIsQuiet, OnTheWay, AtRest, OneEngine, InFifos,
         RoomHeld, Counted, Silenced, Asked, Woken
<1> QED
  BY <1>1, <1>2, <1>3, <1>4, <1>5, <1>6

(* A time-out silences the transfer and frees the bus.                     *)
LEMMA SpiStops == SpiIInv /\ (StopBegin \/ StopEnd) => SpiIInv'
<1>1. SUFFICES ASSUME SpiIInv, StopBegin \/ StopEnd PROVE SpiIInv'
  OBVIOUS
<1>2. CASE StopBegin
  <2>1. Switches'
    BY <1>1, <1>2, TypeParts, Zenon
       DEF StopBegin, StopStreams, TaskRuns, task, flags, positions, fifos, regs, irq,
           stream, counts, history, SpiIInv, SpiInv, Switches
  <2>2. Amounts'
    BY <1>1, <1>2, TypeParts, SpiSizes
       DEF StopBegin, StopStreams, TaskRuns, task, flags, positions, fifos, regs, irq,
           stream, counts, history, SpiIInv, SpiInv, Amounts, InBounds, InFifos,
           OnTheWay, AtRest, RoomHeld
  <2>3. FifoFits' /\ InBounds' /\ LeftByStop' /\ RoomHeld'
    BY <1>1, <1>2, SpiSizes
       DEF StopBegin, StopStreams, TaskRuns, task, flags, positions, fifos, regs, irq,
           stream, counts, history, SpiIInv, SpiInv, SpiTypeOK, FifoFits, InBounds,
           LeftByStop, RoomHeld, AtRest, OneEngine, InFifos, OnTheWay
  <2>4. OneCallback' /\ TimeoutIsQuiet' /\ AtRest' /\ Silenced' /\ Asked'
    BY <1>1, <1>2
       DEF StopBegin, StopStreams, TaskRuns, task, flags, positions, fifos, regs, irq,
           stream, counts, history, SpiIInv, SpiInv, SpiTypeOK, OneCallback,
           TimeoutIsQuiet, LeftByStop, OnTheWay, AtRest, OneEngine, Silenced, Asked
  <2>5. OneEngine' /\ InFifos' /\ Counted' /\ Woken'
    BY <1>1, <1>2
       DEF StopBegin, StopStreams, TaskRuns, task, flags, positions, fifos, regs, irq,
           stream, counts, history, SpiIInv, SpiInv, SpiTypeOK, AtRest, OneEngine,
           InFifos, OnTheWay, Counted, Silenced, Woken
  <2> QED
    BY <2>1, <2>2, <2>3, <2>4, <2>5, TypeParts DEF SpiIInv, SpiInv
<1>3. CASE StopEnd
  <2>6. /\ tx = 0 /\ tx' = 0 /\ rx' = 0 /\ shifter' \in {shifter, 0} /\ IsBusy' = FALSE
        /\ stopped' = stopped + (IF IsBusy THEN 1 ELSE 0)
        /\ before' = before /\ spiLine' = spiLine /\ blk' = blk /\ tfr' = tfr /\ ipc' = ipc
    BY <1>3 DEF StopEnd, Deselected, stream, irq
  <2>7. /\ shifter \in 0..1 /\ rx \in Nat /\ stopped \in Nat /\ before \in Nat
        /\ ~spiLine /\ blk = 0 /\ ~tfr /\ before <= 1 /\ (stopped = 0 => before = 0)
        /\ stopped = 0 /\ ~IsBusy => tx + shifter + rx = 0
    BY <1>1, <1>3 DEF StopEnd, SpiIInv, SpiInv, SpiTypeOK, LeftByStop, Silenced, OnTheWay
  <2>8. PICK h \in 0..1 : shifter' = h /\ (h = 0 \/ h = shifter)
    BY <2>6, <2>7
  <2>9. tx' <= Fifo /\ rx' <= Fifo /\ tx' + shifter' + rx' <= 1
    BY <2>6, <2>8, SpiSizes
  <2>10. stopped' = 0 => stopped = 0 /\ ~IsBusy
    BY <2>6, <2>7
  <2>11. stopped = 0 /\ ~IsBusy => tx' + shifter' + rx' = 0
    BY <2>6, <2>7, <2>8
  <2>1. Switches'
    BY <1>1, <1>3, TypeParts, Zenon
       DEF StopEnd, Deselected, TaskRuns, task, flags, positions, fifos, regs, irq,
           stream, counts, history, SpiIInv, SpiInv, Switches
  <2>2. Amounts'
    BY <1>1, <1>3, TypeParts, SpiSizes
       DEF StopEnd, Deselected, TaskRuns, task, flags, positions, fifos, regs, irq,
           stream, counts, history, SpiIInv, SpiInv, Amounts, InBounds, InFifos,
           OnTheWay, AtRest, RoomHeld
  <2>3. FifoFits' /\ InBounds' /\ LeftByStop' /\ RoomHeld'
    <3>1. FifoFits'
      BY <2>6, <2>7, <2>9, Zenon DEF FifoFits
    <3>2. InBounds'
      BY <1>1, <1>3, SpiSizes
         DEF StopEnd, Deselected, TaskRuns, task, flags, positions, fifos, regs,
             irq, stream, counts, history, SpiIInv, SpiInv, SpiTypeOK, FifoFits,
             InBounds, LeftByStop, RoomHeld, AtRest, OneEngine, InFifos, OnTheWay
    <3>3. LeftByStop'
      BY <2>6, <2>7, <2>9, <2>10, <2>11, Zenon DEF LeftByStop, OnTheWay
    <3>4. RoomHeld'
      BY <1>1, <1>3, SpiSizes
         DEF StopEnd, Deselected, TaskRuns, task, flags, positions, fifos, regs,
             irq, stream, counts, history, SpiIInv, SpiInv, SpiTypeOK, FifoFits,
             InBounds, LeftByStop, RoomHeld, AtRest, OneEngine, InFifos, OnTheWay
    <3> QED
      BY <3>1, <3>2, <3>3, <3>4
  <2>4. OneCallback' /\ TimeoutIsQuiet' /\ AtRest' /\ Silenced' /\ Asked'
    <3>1. OneCallback'
      BY <1>1, <1>3
         DEF StopEnd, Deselected, TaskRuns, task, flags, positions, fifos, regs,
             irq, stream, counts, history, SpiIInv, SpiInv, SpiTypeOK, OneCallback,
             TimeoutIsQuiet, LeftByStop, OnTheWay, AtRest, OneEngine, Silenced,
             Asked
    <3>2. TimeoutIsQuiet'
      BY <2>6, <2>7, <2>9, Zenon DEF TimeoutIsQuiet, OnTheWay
    <3>3. AtRest'
      BY <1>1, <1>3
         DEF StopEnd, Deselected, TaskRuns, task, flags, positions, fifos, regs,
             irq, stream, counts, history, SpiIInv, SpiInv, SpiTypeOK, OneCallback,
             TimeoutIsQuiet, LeftByStop, OnTheWay, AtRest, OneEngine, Silenced,
             Asked
    <3>4. Silenced'
      BY <1>1, <1>3
         DEF StopEnd, Deselected, TaskRuns, task, flags, positions, fifos, regs,
             irq, stream, counts, history, SpiIInv, SpiInv, SpiTypeOK, OneCallback,
             TimeoutIsQuiet, LeftByStop, OnTheWay, AtRest, OneEngine, Silenced,
             Asked
    <3>5. Asked'
      BY <1>1, <1>3
         DEF StopEnd, Deselected, TaskRuns, task, flags, positions, fifos, regs,
             irq, stream, counts, history, SpiIInv, SpiInv, SpiTypeOK, OneCallback,
             TimeoutIsQuiet, LeftByStop, OnTheWay, AtRest, OneEngine, Silenced,
             Asked
    <3> QED
      BY <3>1, <3>2, <3>3, <3>4, <3>5
  <2>5. OneEngine' /\ InFifos' /\ Counted' /\ Woken'
    BY <1>1, <1>3
       DEF StopEnd, Deselected, TaskRuns, task, flags, positions, fifos, regs, irq,
           stream, counts, history, SpiIInv, SpiInv, SpiTypeOK, AtRest, OneEngine,
           InFifos, OnTheWay, Counted, Silenced, Woken
  <2> QED
    BY <2>1, <2>2, <2>3, <2>4, <2>5, TypeParts DEF SpiIInv, SpiInv
<1> QED
  BY <1>1, <1>2, <1>3

(* A transfer that is begun, by a call that waits or by one that does not. *)
LEMMA SpiBegins ==
  ASSUME SpiIInv, NEW n \in Nat \ {0}, NEW useDma, SPI_Transfer(n, useDma),
         TaskRuns,
         dma' = dma, arg' = arg, last' \in {last, "none"}, IsBlockMode' \in BOOLEAN,
         \/ place = "start" /\ place' = "wait"
         \/ place = "idle" /\ place' = "idle" /\ last' = "none"
  PROVE  SpiIInv'
<1>1. /\ ~IsBusy /\ started < MaxCalls /\ IsBusy' = TRUE /\ len' = n /\ moved' = 0
      /\ stale' = (sem = 1) /\ started' = started + 1
      /\ dma' = dma /\ sem' = sem /\ ipc' = ipc /\ txLen' = txLen
      /\ stopped' = stopped /\ called' = called
      /\ selected' = TRUE /\ shifter' \in {shifter, 0} /\ before' = tx + shifter' + rx
  BY DEF SPI_Transfer, irq
<1>2. /\ blk = 0 /\ ~tfr /\ ipc = "none"
      /\ tx \in Nat /\ rx \in Nat /\ shifter \in 0..1 /\ shifter' \in 0..1
      /\ before' \in 0..1 /\ tx \in 0..1 /\ rx \in 0..1
      /\ stopped = 0 => before' = 0
  <2>1. /\ ~IsBusy /\ blk = 0 /\ ~tfr /\ ipc = "none"
        /\ tx \in Nat /\ rx \in Nat /\ shifter \in 0..1
        /\ tx + shifter + rx <= 1 /\ (stopped = 0 => tx + shifter + rx = 0)
    BY <1>1 DEF SpiIInv, SpiInv, SpiTypeOK, AtRest, LeftByStop, OnTheWay
  <2>2. CASE shifter' = shifter
    BY <1>1, <2>1, <2>2
  <2>3. CASE shifter' = 0
    BY <1>1, <2>1, <2>3
  <2> QED
    BY <1>1, <2>2, <2>3
<1>5. /\ Amounts /\ started < MaxCalls /\ len' = n /\ moved' = 0 /\ started' = started + 1
      /\ sem' = sem /\ ipc' = ipc /\ txLen' = txLen /\ stopped' = stopped /\ called' = called
      /\ arg' = arg /\ last' \in {last, "none"} /\ place' \in {"idle", "wait"}
      /\ shifter' \in 0..1 /\ before' \in 0..1
  BY <1>1, <1>2, TypeParts, Zenon DEF SpiIInv, SpiInv
<1>3. CASE DmaStart(n)
  <2>1. /\ TxPos' = Block(n) /\ RxPos' = Block(n) /\ blk' = Block(n) /\ tfr' = FALSE
        /\ unmasked' = "none" /\ spiLine' = FALSE /\ overrun' = FALSE /\ lost' = 0
        /\ tx' = tx /\ rx' = rx /\ rxftlr' = rxftlr
    BY <1>3 DEF DmaStart, fifos
  <2>2. Block(n) \in Nat \ {0} /\ Block(n) <= n /\ Block(n) <= BlockMax
    BY BlockFits
  <2> QED
    <3>1. Switches'
      BY <1>1, <1>2, <2>1, <2>2, TypeParts, Zenon
         DEF SpiIInv, SpiInv, Switches
    <3>2. Amounts'
      BY <1>5, <2>1, <2>2, SpiSizes DEF Amounts
    <3>3. FifoFits' /\ InBounds' /\ LeftByStop' /\ RoomHeld'
      <4>1. FifoFits'
        BY <1>1, <1>2, <2>1, <2>2, SpiSizes
           DEF SpiIInv, SpiInv, SpiTypeOK, FifoFits, InBounds, LeftByStop,
               RoomHeld, AtRest, OneEngine, InFifos, OnTheWay
      <4>2. InBounds'
        BY <1>1, <1>2, <2>1, <2>2, SpiSizes
           DEF SpiIInv, SpiInv, SpiTypeOK, FifoFits, InBounds, LeftByStop,
               RoomHeld, AtRest, OneEngine, InFifos, OnTheWay
      <4>3. LeftByStop'
        <5>1. before' <= 1
          BY <1>2
        <5> QED
          BY <1>1, <1>2, <5>1, Zenon DEF LeftByStop
      <4>4. RoomHeld'
        BY <1>1, <1>2, <2>1, <2>2, SpiSizes
           DEF SpiIInv, SpiInv, SpiTypeOK, FifoFits, InBounds, LeftByStop,
               RoomHeld, AtRest, OneEngine, InFifos, OnTheWay
      <4> QED
        BY <4>1, <4>2, <4>3, <4>4
    <3>4. OneCallback' /\ TimeoutIsQuiet' /\ AtRest' /\ Silenced' /\ Asked'
      BY <1>1, <1>2, <2>1, <2>2, SpiSizes
         DEF SpiIInv, SpiInv, SpiTypeOK, OneCallback, TimeoutIsQuiet, LeftByStop,
             OnTheWay, AtRest, OneEngine, Silenced, Asked
    <3>5. OneEngine' /\ Woken'
      BY <1>1, <1>2, <2>1, <2>2, TypeParts DEF SpiIInv, SpiInv, Amounts, OneEngine, Woken
    <3>6. InFifos' /\ Counted'
      BY <1>1, <1>2, <2>1, <2>2, TypeParts
         DEF SpiIInv, SpiInv, Amounts, InFifos, OnTheWay, Counted
    <3> QED
      BY <3>1, <3>2, <3>3, <3>4, <3>5, <3>6, TypeParts DEF SpiIInv, SpiInv
<1>4. CASE FifoStart(n)
  <2>1. /\ TxPos' = Least(n, Fifo) /\ RxPos' = 0
        /\ tx' = Least(tx + Least(n, Fifo), Fifo) /\ lost' = tx + Least(n, Fifo) - tx'
        /\ unmasked' \in {"rx", "tx"} /\ rxftlr' \in {n - 1, rxftlr}
        /\ spiLine' = TRUE /\ overrun' = overrun /\ rx' = rx /\ blk' = blk /\ tfr' = tfr
    BY <1>4 DEF FifoStart, stream
  <2>2. /\ Least(n, Fifo) \in Nat /\ Least(n, Fifo) <= n /\ Least(n, Fifo) <= Fifo
        /\ tx' \in Nat /\ tx' <= Fifo /\ tx' <= tx + Least(n, Fifo) /\ lost' \in Nat
    <3>1. Least(n, Fifo) \in Nat /\ Least(n, Fifo) <= n /\ Least(n, Fifo) <= Fifo
      BY LeastOfTwo, SpiSizes
    <3>2. tx + Least(n, Fifo) \in Nat
      BY <1>2, <3>1
    <3>3. tx' \in Nat /\ tx' <= Fifo /\ tx' <= tx + Least(n, Fifo)
      BY <2>1, <3>2, LeastOfTwo, SpiSizes
    <3> QED
      BY <1>2, <2>1, <3>1, <3>3
  <2> QED
    <3>1. Switches'
      BY <1>1, <1>2, <2>1, <2>2, TypeParts, Zenon
         DEF SpiIInv, SpiInv, Switches
    <3>2. Amounts'
      BY <1>5, <2>1, <2>2, SpiSizes DEF Amounts
    <3>3. FifoFits' /\ InBounds' /\ LeftByStop' /\ RoomHeld'
      <4>1. FifoFits'
        BY <1>1, <1>2, <2>1, <2>2, SpiSizes
           DEF SpiIInv, SpiInv, SpiTypeOK, FifoFits, InBounds, LeftByStop,
               RoomHeld, AtRest, OneEngine, InFifos, OnTheWay
      <4>2. InBounds'
        <5>1. PICK b \in 0..1 : before' = b
          BY <1>2
        <5> QED
          BY <1>2, <1>5, <2>1, <2>2, <5>1, SpiSizes DEF InBounds
      <4>3. LeftByStop'
        <5>1. before' <= 1
          BY <1>2
        <5> QED
          BY <1>1, <1>2, <5>1, Zenon DEF LeftByStop
      <4>4. RoomHeld'
        BY <1>1, <1>2, <2>1, <2>2, SpiSizes
           DEF SpiIInv, SpiInv, SpiTypeOK, FifoFits, InBounds, LeftByStop,
               RoomHeld, AtRest, OneEngine, InFifos, OnTheWay
      <4> QED
        BY <4>1, <4>2, <4>3, <4>4
    <3>4. OneCallback' /\ TimeoutIsQuiet' /\ AtRest' /\ Silenced' /\ Asked'
      BY <1>1, <1>2, <2>1, <2>2, SpiSizes
         DEF SpiIInv, SpiInv, SpiTypeOK, OneCallback, TimeoutIsQuiet, LeftByStop,
             OnTheWay, AtRest, OneEngine, Silenced, Asked
    <3>5. OneEngine' /\ Woken'
      <4>1. ~tfr'
        BY <1>2, <2>1, Zenon
      <4>2. blk' = 0
        BY <1>2, <2>1
      <4>3. OneEngine'
        BY <4>1, <4>2 DEF OneEngine
      <4>4. Woken'
        BY <1>1 DEF Woken
      <4> QED
        BY <4>3, <4>4
    <3>6. InFifos' /\ Counted'
      BY <1>1, <1>2, <2>1, <2>2, TypeParts
         DEF SpiIInv, SpiInv, Amounts, InFifos, OnTheWay, Counted
    <3> QED
      BY <3>1, <3>2, <3>3, <3>4, <3>5, <3>6, TypeParts DEF SpiIInv, SpiInv
<1> QED
  BY <1>3, <1>4 DEF SPI_Transfer

LEMMA SpiTransfers ==
  ASSUME SpiIInv,
         \/ BlockStart
         \/ \E n \in SpiLengths : PolledTransfer(n) \/ NoBlockTransfer(n)
  PROVE  SpiIInv'
<1>1. CASE BlockStart
  <2>1. /\ TaskRuns /\ place = "start" /\ SPI_Transfer(arg, dma) /\ place' = "wait"
        /\ arg' = arg /\ last' = last /\ IsBlockMode' = IsBlockMode
    BY <1>1 DEF BlockStart
  <2>2. arg \in Nat \ {0} /\ IsBlockMode' \in BOOLEAN /\ dma' = dma
    BY <2>1 DEF SpiIInv, SpiInv, SpiTypeOK, Asked, SPI_Transfer
  <2> QED
    BY <2>1, <2>2, SpiBegins
<1>2. CASE \E n \in SpiLengths : NoBlockTransfer(n)
  <2>1. PICK n \in SpiLengths : NoBlockTransfer(n)
    BY <1>2
  <2>2. /\ TaskRuns /\ place = "idle" /\ SPI_Transfer(n, FALSE) /\ place' = "idle"
        /\ arg' = arg /\ last' = "none" /\ IsBlockMode' \in BOOLEAN /\ dma' = dma
    BY <2>1 DEF NoBlockTransfer, SPI_Transfer
  <2> QED
    BY <2>2, SpiSizes, SpiBegins
<1>3. CASE \E n \in SpiLengths : PolledTransfer(n)
  <2>6. PICK n \in SpiLengths : PolledTransfer(n)
    BY <1>3
  <2>7. /\ n \in Nat \ {0} /\ ~IsBusy /\ blk = 0 /\ ~tfr /\ ipc = "none"
        /\ tx \in Nat /\ rx \in Nat /\ shifter \in 0..1
        /\ tx + shifter + rx <= 1 /\ (stopped = 0 => tx + shifter + rx = 0)
    BY <2>6, SpiSizes
       DEF PolledTransfer, SpiIInv, SpiInv, SpiTypeOK, AtRest, LeftByStop, OnTheWay
  <2>8. /\ len' = n /\ TxPos' = n /\ RxPos' = n /\ moved' = n /\ lost' = 0 /\ spiLine' = FALSE
        /\ before' \in {tx + shifter + rx, tx + rx}
        /\ tx' \in 0..before' /\ shifter' \in 0..Least(before', 1) /\ rx' \in 0..before'
        /\ tx' + shifter' + rx' <= before'
        /\ IsBusy' = IsBusy /\ blk' = blk /\ ipc' = ipc /\ stopped' = stopped
        /\ place' = place /\ last' = "ok"
    BY <2>6 DEF PolledTransfer, OnTheWay, stream, irq
  <2>9. PICK b \in 0..1 : before' = b /\ (stopped = 0 => b = 0)
    BY <2>7, <2>8
  <2>10. shifter' \in 0..1
    <3>1. Least(b, 1) \in Nat /\ Least(b, 1) <= 1
      BY LeastOfTwo
    <3> QED
      BY <2>8, <2>9, <3>1
  <2>11. PICK t \in 0..1 : tx' = t
    BY <2>8, <2>9
  <2>12. PICK r \in 0..1 : rx' = r
    BY <2>8, <2>9
  <2>13. PICK h \in 0..1 : shifter' = h
    BY <2>10
  <2>14. t + h + r <= b
    BY <2>8, <2>9, <2>11, <2>12, <2>13
  <2>1. Switches'
    BY <1>3, TypeParts, Zenon
       DEF PolledTransfer, TaskRuns, task, flags, positions, fifos, regs, irq, stream,
           counts, history, SpiIInv, SpiInv, Switches
  <2>2. Amounts'
    <3>1. /\ arg' = arg /\ sem' = sem /\ unmasked' = unmasked /\ rxftlr' = rxftlr
          /\ txLen' = txLen /\ started' = started + 1 /\ called' = called + 1
          /\ started < MaxCalls
      BY <2>6 DEF PolledTransfer, irq
    <3> QED
      BY <1>1, <2>7, <2>8, <2>9, <2>10, <3>1, TypeParts, SpiSizes
         DEF SpiIInv, SpiInv, Amounts
  <2>3. FifoFits' /\ InBounds' /\ LeftByStop' /\ RoomHeld'
    <3>1. FifoFits'
      BY <2>7, <2>8, <2>9, <2>10, SpiSizes DEF FifoFits
    <3>2. InBounds'
      <4>1. n <= n + b /\ n <= n /\ 0 <= BlockMax
        BY <2>7, SpiSizes
      <4> QED
        BY <2>7, <2>8, <2>9, <4>1, Zenon DEF InBounds
    <3>3. LeftByStop'
      <4>1. t + h + r <= 1 /\ b <= 1 /\ (b = 0 => t + h + r = 0)
        BY <2>14
      <4> QED
        BY <2>8, <2>9, <2>11, <2>12, <2>13, <4>1, Zenon DEF LeftByStop, OnTheWay
    <3>4. RoomHeld'
      BY <1>3, SpiSizes
         DEF PolledTransfer, TaskRuns, task, flags, positions, fifos, regs, irq, stream,
             counts, history, SpiIInv, SpiInv, SpiTypeOK, FifoFits, InBounds,
             LeftByStop, RoomHeld, AtRest, OneEngine, InFifos, OnTheWay
    <3> QED
      BY <3>1, <3>2, <3>3, <3>4
  <2>4. OneCallback' /\ TimeoutIsQuiet' /\ AtRest' /\ Silenced' /\ Asked'
    BY <1>3, SpiSizes
       DEF PolledTransfer, TaskRuns, task, flags, positions, fifos, regs, irq, stream,
           counts, history, SpiIInv, SpiInv, SpiTypeOK, OneCallback,
           TimeoutIsQuiet, LeftByStop, OnTheWay, AtRest, OneEngine, Silenced, Asked
  <2>5. OneEngine' /\ InFifos' /\ Counted' /\ Woken'
    BY <1>3, SpiSizes
       DEF PolledTransfer, TaskRuns, task, flags, positions, fifos, regs, irq, stream,
           counts, history, SpiIInv, SpiInv, SpiTypeOK, AtRest, OneEngine, InFifos,
           OnTheWay, Counted, Silenced, Woken
  <2> QED
    BY <2>1, <2>2, <2>3, <2>4, <2>5, TypeParts DEF SpiIInv, SpiInv
<1> QED
  BY <1>1, <1>2, <1>3

(* The bus and the streams move what they are given.                       *)
LEMMA SpiBus == SpiIInv /\ (Shift \/ Land \/ BlockEnds) => SpiIInv'
<1>1. SUFFICES ASSUME SpiIInv, Shift \/ Land \/ BlockEnds PROVE SpiIInv'
  OBVIOUS
<1>2. CASE Shift
  BY <1>1, <1>2, SpiSizes
     DEF Shift, task, flags, positions, regs, irq, stream, counts, history,
         SpiIInv, SpiInv, SpiTypeOK, FifoFits, InBounds, LeftByStop, OneCallback,
         TimeoutIsQuiet, OnTheWay, AtRest, OneEngine, InFifos, RoomHeld, Counted,
         Silenced, Asked, Woken
<1>3. CASE BlockEnds
  <2>1. Switches'
    BY <1>1, <1>3, TypeParts, Zenon
       DEF BlockEnds, task, flags, positions, fifos, regs, irq, counts, history,
           SpiIInv, SpiInv, Switches
  <2>2. Amounts'
    BY <1>1, <1>3, TypeParts, SpiSizes
       DEF BlockEnds, task, flags, positions, fifos, regs, irq, counts, history,
           SpiIInv, SpiInv, Amounts, InBounds, InFifos, OnTheWay, AtRest, RoomHeld
  <2>3. FifoFits' /\ InBounds' /\ LeftByStop' /\ RoomHeld'
    <3>1. FifoFits'
      <4>1. /\ OnTheWay = before /\ before \in Nat /\ before <= 1 /\ ~spiLine
        BY <1>1, <1>3
           DEF BlockEnds, SpiIInv, SpiInv, SpiTypeOK, LeftByStop, AtRest,
               OneEngine, InFifos, Silenced, OnTheWay
      <4>2. tx' \in 0..OnTheWay /\ rx' \in 0..OnTheWay /\ spiLine' = spiLine
        BY <1>3 DEF BlockEnds, regs
      <4> QED
        BY <4>1, <4>2, SpiSizes DEF FifoFits
    <3>2. InBounds'
      BY <1>1, <1>3, SpiSizes
         DEF BlockEnds, task, flags, positions, fifos, regs, irq, counts, history,
             SpiIInv, SpiInv, SpiTypeOK, FifoFits, InBounds, LeftByStop, RoomHeld,
             AtRest, OneEngine, InFifos, OnTheWay
    <3>3. LeftByStop'
      BY <1>1, <1>3, SpiSizes
         DEF BlockEnds, task, flags, positions, fifos, regs, irq, counts, history,
             SpiIInv, SpiInv, SpiTypeOK, FifoFits, InBounds, LeftByStop, RoomHeld,
             AtRest, OneEngine, InFifos, OnTheWay
    <3>4. RoomHeld'
      BY <1>1, <1>3, SpiSizes
         DEF BlockEnds, task, flags, positions, fifos, regs, irq, counts, history,
             SpiIInv, SpiInv, SpiTypeOK, FifoFits, InBounds, LeftByStop, RoomHeld,
             AtRest, OneEngine, InFifos, OnTheWay
    <3> QED
      BY <3>1, <3>2, <3>3, <3>4
  <2>4. OneCallback' /\ TimeoutIsQuiet' /\ AtRest' /\ Silenced' /\ Asked'
    BY <1>1, <1>3
       DEF BlockEnds, task, flags, positions, fifos, regs, irq, counts, history,
           SpiIInv, SpiInv, SpiTypeOK, OneCallback, TimeoutIsQuiet, LeftByStop,
           OnTheWay, AtRest, OneEngine, Silenced, Asked
  <2>5. OneEngine' /\ InFifos' /\ Counted' /\ Woken'
    <3>1. OneEngine'
      BY <1>1, <1>3
         DEF BlockEnds, task, flags, positions, fifos, regs, irq, counts, history,
             SpiIInv, SpiInv, SpiTypeOK, AtRest, OneEngine, InFifos, OnTheWay,
             Counted, Silenced, Woken
    <3>2. InFifos'
      BY <1>1, <1>3
         DEF BlockEnds, task, flags, positions, fifos, regs, irq, counts, history,
             SpiIInv, SpiInv, SpiTypeOK, AtRest, OneEngine, InFifos, OnTheWay,
             Counted, Silenced, Woken
    <3>3. Counted'
      BY <1>1, <1>3
         DEF BlockEnds, task, flags, positions, fifos, regs, irq, counts, history,
             SpiIInv, SpiInv, SpiTypeOK, AtRest, OneEngine, InFifos, OnTheWay,
             Counted, Silenced, Woken
    <3>4. Woken'
      BY <1>1, <1>3
         DEF BlockEnds, task, flags, positions, fifos, regs, irq, counts, history,
             SpiIInv, SpiInv, SpiTypeOK, AtRest, OneEngine, InFifos, OnTheWay,
             Counted, Silenced, Woken
    <3> QED
      BY <3>1, <3>2, <3>3, <3>4
  <2> QED
    BY <2>1, <2>2, <2>3, <2>4, <2>5, TypeParts DEF SpiIInv, SpiInv
<1>4. CASE Land
  <2>1. Switches'
    BY <1>1, <1>4, TypeParts, Zenon
       DEF Land, task, flags, positions, irq, stream, history, SpiIInv, SpiInv, Switches
  <2>2. /\ shifter = 1 /\ shifter' = 0
        /\ \/ rx < Fifo /\ rx' = rx + 1 /\ lost' = lost
           \/ ~(rx < Fifo) /\ lost' = lost + 1 /\ rx' = rx
        /\ UNCHANGED <<task, flags, positions, tx, unmasked, rxftlr, spiLine, irq, stream,
                       moved, history, called>>
    BY <1>4 DEF Land
  <2> QED
    BY <1>1, <2>1, <2>2, TypeParts, SpiSizes
       DEF task, flags, positions, irq, stream, history,
           SpiIInv, SpiInv, Amounts, FifoFits, InBounds, LeftByStop, OneCallback,
           TimeoutIsQuiet, OnTheWay, AtRest, OneEngine, InFifos, RoomHeld, Counted,
           Silenced, Asked, Woken
<1> QED
  BY <1>1, <1>2, <1>3, <1>4

(* The next block, or the end of the transfer.                             *)
LEMMA SpiDMADone == SpiIInv /\ DMADone => SpiIInv'
<1>1. SUFFICES ASSUME SpiIInv, DMADone PROVE SpiIInv'
  OBVIOUS
<1>2. /\ tfr /\ ipc = "none" /\ tfr' = FALSE /\ len' = len
      /\ dma' = dma /\ place' = place /\ arg' = arg /\ last' = last
      /\ tx' = tx /\ rx' = rx /\ unmasked' = unmasked /\ rxftlr' = rxftlr
      /\ spiLine' = spiLine /\ ipc' = ipc /\ txLen' = txLen /\ moved' = moved
      /\ shifter' = shifter /\ selected' = selected /\ overrun' = overrun /\ lost' = lost
      /\ before' = before /\ stale' = stale /\ started' = started /\ stopped' = stopped
  BY <1>1 DEF DMADone, task, fifos, regs, irq, counts, history
<1>3. /\ IsBusy /\ blk = 0 /\ lost = 0 /\ ~spiLine /\ TxPos = RxPos
      /\ len \in Nat /\ TxPos \in Nat /\ RxPos \in Nat /\ RxPos <= len /\ place # "stop"
      /\ moved = RxPos /\ OnTheWay = before
  BY <1>1, <1>2
     DEF SpiIInv, SpiInv, SpiTypeOK, InBounds, AtRest, OneEngine, InFifos,
         OnTheWay, Counted, Silenced
<1>4. CASE len > RxPos
  <2> DEFINE n == Block(len - RxPos)
  <2>1. /\ blk' = n /\ TxPos' = TxPos + n /\ RxPos' = RxPos + n
        /\ IsBusy' = IsBusy /\ IsBlockMode' = IsBlockMode /\ sem' = sem /\ called' = called
    BY <1>1, <1>4 DEF DMADone, More, flags
  <2>2. n \in Nat \ {0} /\ n <= len - RxPos /\ n <= BlockMax
    <3>1. len - RxPos \in Nat \ {0}
      BY <1>3, <1>4
    <3> QED
      BY <3>1, BlockFits
  <2> HIDE DEF n
  <2> QED
    <3>1. Switches'
      BY <1>1, <1>2, <1>3, <2>1, <2>2, TypeParts, Zenon
         DEF SpiIInv, SpiInv, Switches
    <3>2. Amounts'
      BY <1>1, <1>2, <1>3, <2>1, <2>2, TypeParts, SpiSizes
         DEF SpiIInv, SpiInv, Amounts, InBounds, InFifos, OnTheWay, AtRest, RoomHeld
    <3>3. FifoFits' /\ InBounds' /\ LeftByStop' /\ RoomHeld'
      BY <1>1, <1>2, <1>3, <2>1, <2>2, SpiSizes
         DEF SpiIInv, SpiInv, SpiTypeOK, FifoFits, InBounds, LeftByStop, RoomHeld,
             AtRest, OneEngine, InFifos, OnTheWay
    <3>4. OneCallback' /\ TimeoutIsQuiet' /\ AtRest' /\ Silenced' /\ Asked'
      BY <1>1, <1>2, <1>3, <2>1, <2>2, SpiSizes
         DEF SpiIInv, SpiInv, SpiTypeOK, OneCallback, TimeoutIsQuiet, LeftByStop,
             OnTheWay, AtRest, OneEngine, Silenced, Asked
    <3>5. OneEngine' /\ InFifos' /\ Counted' /\ Woken'
      BY <1>1, <1>2, <1>3, <2>1, <2>2, SpiSizes
         DEF SpiIInv, SpiInv, SpiTypeOK, AtRest, OneEngine, InFifos, OnTheWay,
             Counted, Silenced, Woken
    <3> QED
      BY <3>1, <3>2, <3>3, <3>4, <3>5, TypeParts DEF SpiIInv, SpiInv
<1>5. CASE ~(len > RxPos)
  <2>1. /\ IsBusy' = FALSE /\ called' = called + 1
        /\ IsBlockMode' \in {IsBlockMode, FALSE} /\ sem' \in {sem, 1}
        /\ blk' = blk /\ TxPos' = TxPos /\ RxPos' = RxPos
    BY <1>1, <1>5 DEF DMADone, More, Finished, Give
  <2> QED
    <3>1. Switches'
      BY <1>1, <1>2, <1>3, <1>5, <2>1, TypeParts, Zenon
         DEF SpiIInv, SpiInv, Switches
    <3>2. Amounts'
      BY <1>1, <1>2, <1>3, <1>5, <2>1, TypeParts, SpiSizes
         DEF SpiIInv, SpiInv, Amounts, InBounds, InFifos, OnTheWay, AtRest, RoomHeld
    <3>3. FifoFits' /\ InBounds' /\ LeftByStop' /\ RoomHeld'
      BY <1>1, <1>2, <1>3, <1>5, <2>1, SpiSizes
         DEF SpiIInv, SpiInv, SpiTypeOK, FifoFits, InBounds, LeftByStop, RoomHeld,
             AtRest, OneEngine, InFifos, OnTheWay
    <3>4. OneCallback' /\ TimeoutIsQuiet' /\ AtRest' /\ Silenced' /\ Asked'
      BY <1>1, <1>2, <1>3, <1>5, <2>1, SpiSizes
         DEF SpiIInv, SpiInv, SpiTypeOK, OneCallback, TimeoutIsQuiet, LeftByStop,
             OnTheWay, AtRest, OneEngine, Silenced, Asked
    <3>5. OneEngine' /\ InFifos' /\ Counted' /\ Woken'
      BY <1>1, <1>2, <1>3, <1>5, <2>1, SpiSizes
         DEF SpiIInv, SpiInv, SpiTypeOK, AtRest, OneEngine, InFifos, OnTheWay,
             Counted, Silenced, Woken
    <3> QED
      BY <3>1, <3>2, <3>3, <3>4, <3>5, TypeParts DEF SpiIInv, SpiInv
<1> QED
  BY <1>4, <1>5

(* SPI_IrqHandle up to its decision.                                       *)
LEMMA SpiIrqBegins == SpiIInv /\ (IrqEnter \/ IrqDrain) => SpiIInv'
<1>1. SUFFICES ASSUME SpiIInv, IrqEnter \/ IrqDrain PROVE SpiIInv'
  OBVIOUS
<1>2. CASE IrqEnter
  <2>1. CASE IsBusy
    <3>1. /\ unmasked' = unmasked /\ spiLine' = spiLine /\ selected' = selected
          /\ ipc' = "drain" /\ txLen' = Fifo - tx /\ shifter' = shifter
          /\ ipc = "none" /\ overrun' = FALSE
      BY <1>2, <2>1 DEF IrqEnter
    <3>2. /\ dma' = dma /\ place' = place /\ arg' = arg /\ last' = last
          /\ IsBusy' = IsBusy /\ IsBlockMode' = IsBlockMode /\ sem' = sem
          /\ len' = len /\ TxPos' = TxPos /\ RxPos' = RxPos /\ tx' = tx /\ rx' = rx
          /\ rxftlr' = rxftlr /\ blk' = blk /\ tfr' = tfr /\ moved' = moved /\ lost' = lost
          /\ stale' = stale /\ before' = before /\ started' = started
          /\ stopped' = stopped /\ called' = called
      BY <1>2 DEF IrqEnter, task, flags, positions, stream, counts, history
    <3>3. spiLine /\ (unmasked = "tx" => tx <= TxLevel)
      BY <1>2, Zenon DEF IrqEnter, Raised
    <3>4. Switches'
      BY <1>1, <3>1, <3>2, TypeParts, Zenon DEF SpiIInv, SpiInv, Switches
    <3>5. Amounts'
      BY <1>1, <3>1, <3>2, TypeParts, SpiSizes DEF SpiIInv, SpiInv, Amounts, FifoFits
    <3>6. FifoFits' /\ InBounds' /\ LeftByStop' /\ RoomHeld'
      BY <1>1, <2>1, <3>1, <3>2, <3>3, SpiSizes
         DEF SpiIInv, SpiInv, SpiTypeOK, FifoFits, InBounds, LeftByStop, RoomHeld,
             AtRest, OneEngine, InFifos, OnTheWay
    <3>7. OneCallback' /\ TimeoutIsQuiet' /\ AtRest' /\ Silenced' /\ Asked'
      BY <1>1, <2>1, <3>1, <3>2, <3>3, SpiSizes
         DEF SpiIInv, SpiInv, SpiTypeOK, OneCallback, TimeoutIsQuiet, OnTheWay, AtRest,
             OneEngine, Silenced, Asked
    <3>8. OneEngine' /\ InFifos' /\ Counted' /\ Woken'
      BY <1>1, <2>1, <3>1, <3>2, <3>3, SpiSizes
         DEF SpiIInv, SpiInv, SpiTypeOK, AtRest, OneEngine, InFifos, OnTheWay, Counted,
             Silenced, Woken
    <3> QED
      BY <3>4, <3>5, <3>6, <3>7, <3>8, TypeParts DEF SpiIInv, SpiInv
  <2>2. CASE ~IsBusy
    <3>1. Switches'
      BY <1>1, <1>2, <2>2, TypeParts, Zenon
         DEF IrqEnter, Deselected, irq, task, flags, positions, fifos, stream,
             counts, history, SpiIInv, SpiInv, Switches
    <3>2. Amounts'
      BY <1>1, <1>2, <2>2, TypeParts, SpiSizes
         DEF IrqEnter, Deselected, irq, task, flags, positions, fifos, stream,
             counts, history, SpiIInv, SpiInv, Amounts, InBounds, InFifos,
             OnTheWay, AtRest, RoomHeld
    <3>3. FifoFits' /\ InBounds' /\ LeftByStop' /\ RoomHeld'
      BY <1>1, <1>2, <2>2
         DEF IrqEnter, Deselected, irq, task, flags, positions, fifos, stream,
             counts, history, SpiIInv, SpiInv, SpiTypeOK, FifoFits, InBounds,
             LeftByStop, RoomHeld, AtRest, OneEngine, InFifos, OnTheWay
    <3>4. OneCallback' /\ TimeoutIsQuiet' /\ AtRest' /\ Silenced' /\ Asked'
      BY <1>1, <1>2, <2>2
         DEF IrqEnter, Deselected, irq, task, flags, positions, fifos, stream,
             counts, history, SpiIInv, SpiInv, SpiTypeOK, OneCallback,
             TimeoutIsQuiet, LeftByStop, OnTheWay, AtRest, OneEngine, Silenced,
             Asked
    <3>5. OneEngine' /\ InFifos' /\ Counted' /\ Woken'
      BY <1>1, <1>2, <2>2
         DEF IrqEnter, Deselected, irq, task, flags, positions, fifos, stream,
             counts, history, SpiIInv, SpiInv, SpiTypeOK, AtRest, OneEngine,
             InFifos, OnTheWay, Counted, Silenced, Woken
    <3> QED
      BY <3>1, <3>2, <3>3, <3>4, <3>5, TypeParts DEF SpiIInv, SpiInv
  <2> QED
    BY <2>1, <2>2
<1>3. CASE IrqDrain
  BY <1>1, <1>3, SpiSizes
     DEF IrqDrain, task, flags, regs, stream, counts, history,
         SpiIInv, SpiInv, SpiTypeOK, FifoFits, InBounds, LeftByStop, OneCallback,
         TimeoutIsQuiet, OnTheWay, AtRest, OneEngine, InFifos, RoomHeld, Counted,
         Silenced, Asked, Woken
<1> QED
  BY <1>1, <1>2, <1>3

(* Its three ways to go on.                                                *)
LEMMA SpiIrqEnds == SpiIInv /\ (IrqDone \/ IrqFill \/ IrqTail) => SpiIInv'
<1>1. SUFFICES ASSUME SpiIInv, IrqDone \/ IrqFill \/ IrqTail PROVE SpiIInv'
  OBVIOUS
<1>2. CASE IrqDone
  <2>1. /\ ipc = "decide" /\ RxPos >= len /\ unmasked' = "none" /\ spiLine' = FALSE
        /\ IsBusy' = FALSE /\ called' = called + 1
        /\ IsBlockMode' \in {IsBlockMode, FALSE} /\ sem' \in {sem, 1}
        /\ ipc' = "none"
    BY <1>2 DEF IrqDone, Finished, Give
  <2>2. /\ dma' = dma /\ place' = place /\ arg' = arg /\ last' = last
        /\ len' = len /\ TxPos' = TxPos /\ RxPos' = RxPos /\ tx' = tx /\ rx' = rx
        /\ rxftlr' = rxftlr /\ txLen' = txLen /\ blk' = blk /\ tfr' = tfr
        /\ shifter' \in {shifter, 0} /\ selected' = FALSE /\ overrun' = FALSE
        /\ lost' = lost /\ before' = before
        /\ moved' = moved /\ stale' = stale /\ started' = started /\ stopped' = stopped
    BY <1>2 DEF IrqDone, Deselected, task, positions, stream, counts, history
  <2>3. /\ IsBusy /\ blk = 0 /\ ~tfr /\ place # "stop"
        /\ OnTheWay <= before /\ RxPos >= len /\ moved = RxPos
    BY <1>1, <2>1
       DEF SpiIInv, SpiInv, SpiTypeOK, InBounds, AtRest, OneEngine, InFifos,
           OnTheWay, Counted, Silenced
  <2> QED
    <3>1. Switches'
      BY <1>1, <2>1, <2>2, <2>3, TypeParts, Zenon
         DEF SpiIInv, SpiInv, Switches
    <3>2. Amounts'
      BY <1>1, <2>1, <2>2, <2>3, TypeParts, SpiSizes
         DEF SpiIInv, SpiInv, Amounts, InBounds, InFifos, OnTheWay, AtRest, RoomHeld
    <3>3. FifoFits' /\ InBounds' /\ LeftByStop' /\ RoomHeld'
      <4>1. FifoFits'
        BY <1>1, <2>1, <2>2, <2>3, SpiSizes
           DEF SpiIInv, SpiInv, SpiTypeOK, FifoFits, InBounds, LeftByStop,
               RoomHeld, AtRest, OneEngine, InFifos, OnTheWay
      <4>2. InBounds'
        BY <1>1, <2>1, <2>2, <2>3, SpiSizes
           DEF SpiIInv, SpiInv, SpiTypeOK, FifoFits, InBounds, LeftByStop,
               RoomHeld, AtRest, OneEngine, InFifos, OnTheWay
      <4>3. LeftByStop'
        <5>1. PICK h \in 0..1 : shifter' = h /\ h <= shifter
          BY <1>1, <2>2 DEF SpiIInv, SpiInv, SpiTypeOK
        <5>2. tx' + shifter' + rx' <= before
          BY <1>1, <2>2, <2>3, <5>1 DEF SpiIInv, SpiInv, SpiTypeOK, OnTheWay
        <5>3. before \in 0..1 /\ (stopped = 0 => before = 0)
          BY <1>1 DEF SpiIInv, SpiInv, SpiTypeOK, LeftByStop
        <5> QED
          BY <1>1, <2>2, <5>1, <5>2, <5>3 DEF SpiIInv, SpiInv, SpiTypeOK, LeftByStop, OnTheWay
      <4>4. RoomHeld'
        BY <1>1, <2>1, <2>2, <2>3, SpiSizes
           DEF SpiIInv, SpiInv, SpiTypeOK, FifoFits, InBounds, LeftByStop,
               RoomHeld, AtRest, OneEngine, InFifos, OnTheWay
      <4> QED
        BY <4>1, <4>2, <4>3, <4>4
    <3>4. OneCallback' /\ TimeoutIsQuiet' /\ AtRest' /\ Silenced' /\ Asked'
      <4>1. OneCallback'
        BY <1>1, <2>1, <2>2, <2>3, SpiSizes
           DEF SpiIInv, SpiInv, SpiTypeOK, OneCallback, TimeoutIsQuiet, LeftByStop,
               OnTheWay, AtRest, OneEngine, Silenced, Asked
      <4>2. TimeoutIsQuiet'
        BY <1>1, <2>1, <2>2, <2>3, SpiSizes
           DEF SpiIInv, SpiInv, SpiTypeOK, OneCallback, TimeoutIsQuiet, LeftByStop,
               OnTheWay, AtRest, OneEngine, Silenced, Asked
      <4>3. AtRest'
        BY <1>1, <2>1, <2>2, <2>3, SpiSizes
           DEF SpiIInv, SpiInv, SpiTypeOK, OneCallback, TimeoutIsQuiet, LeftByStop,
               OnTheWay, AtRest, OneEngine, Silenced, Asked
      <4>4. Silenced'
        BY <1>1, <2>1, <2>2, <2>3, SpiSizes
           DEF SpiIInv, SpiInv, SpiTypeOK, OneCallback, TimeoutIsQuiet, LeftByStop,
               OnTheWay, AtRest, OneEngine, Silenced, Asked
      <4>5. Asked'
        BY <1>1, <2>1, <2>2, <2>3, SpiSizes
           DEF SpiIInv, SpiInv, SpiTypeOK, OneCallback, TimeoutIsQuiet, LeftByStop,
               OnTheWay, AtRest, OneEngine, Silenced, Asked
      <4> QED
        BY <4>1, <4>2, <4>3, <4>4, <4>5
    <3>5. OneEngine' /\ InFifos' /\ Counted' /\ Woken'
      BY <1>1, <2>1, <2>2, <2>3, SpiSizes
         DEF SpiIInv, SpiInv, SpiTypeOK, AtRest, OneEngine, InFifos, OnTheWay,
             Counted, Silenced, Woken
    <3> QED
      BY <3>1, <3>2, <3>3, <3>4, <3>5, TypeParts DEF SpiIInv, SpiInv
<1>3. CASE IrqFill
  <2> DEFINE n == Least(txLen, len - TxPos)
  <2>1. n \in Nat /\ n <= txLen /\ n <= len - TxPos
    <3>1. txLen \in Nat /\ len - TxPos \in Nat
      BY <1>1, <1>3, SpiSizes DEF IrqFill, SpiIInv, SpiInv, SpiTypeOK
    <3> QED
      BY <3>1, LeastOfTwo
  <2>2. /\ ipc = "decide" /\ RxPos < len /\ TxPos < len /\ tx' = tx + n
        /\ TxPos' = TxPos + n /\ ipc' = "none"
    BY <1>3 DEF IrqFill, FifoRoom
  <2> HIDE DEF n
  <2>3. /\ dma' = dma /\ place' = place /\ arg' = arg /\ last' = last
        /\ IsBusy' = IsBusy /\ IsBlockMode' = IsBlockMode /\ sem' = sem
        /\ shifter' = shifter /\ selected' = selected /\ overrun' = overrun
        /\ lost' = lost /\ before' = before
        /\ len' = len /\ RxPos' = RxPos /\ rx' = rx /\ unmasked' = unmasked
        /\ rxftlr' = rxftlr /\ spiLine' = spiLine /\ txLen' = txLen /\ blk' = blk
        /\ tfr' = tfr /\ moved' = moved /\ stale' = stale /\ started' = started
        /\ stopped' = stopped /\ called' = called
    BY <1>3 DEF IrqFill, task, flags, regs, stream, counts, history
  <2> QED
    BY <1>1, <2>1, <2>2, <2>3, SpiSizes
       DEF SpiIInv, SpiInv, SpiTypeOK, FifoFits, InBounds, LeftByStop, OneCallback,
           TimeoutIsQuiet, OnTheWay, AtRest, OneEngine, InFifos, RoomHeld, Counted,
           Silenced, Asked, Woken
<1>4. CASE IrqTail
  <2> DEFINE n == Least(len - RxPos, Fifo)
  <2>1. n \in Nat /\ n > 0
    <3>1. len - RxPos \in Nat /\ len - RxPos > 0
      BY <1>1, <1>4 DEF IrqTail, SpiIInv, SpiInv, SpiTypeOK
    <3> QED
      BY <3>1, LeastOfTwo, SpiSizes
  <2>2. /\ ipc = "decide" /\ rxftlr' = n - 1 /\ unmasked' = "rx" /\ ipc' = "none"
    BY <1>4 DEF IrqTail, Level
  <2> HIDE DEF n
  <2>3. /\ dma' = dma /\ place' = place /\ arg' = arg /\ last' = last
        /\ IsBusy' = IsBusy /\ IsBlockMode' = IsBlockMode /\ sem' = sem
        /\ shifter' = shifter /\ selected' = selected /\ overrun' = overrun
        /\ lost' = lost /\ before' = before
        /\ len' = len /\ TxPos' = TxPos /\ RxPos' = RxPos /\ tx' = tx /\ rx' = rx
        /\ spiLine' = spiLine /\ txLen' = txLen /\ blk' = blk
        /\ tfr' = tfr /\ moved' = moved /\ stale' = stale /\ started' = started
        /\ stopped' = stopped /\ called' = called
    BY <1>4 DEF IrqTail, task, flags, positions, fifos, stream, counts, history
  <2> QED
    BY <1>1, <2>1, <2>2, <2>3, SpiSizes
       DEF SpiIInv, SpiInv, SpiTypeOK, FifoFits, InBounds, LeftByStop, OneCallback,
           TimeoutIsQuiet, OnTheWay, AtRest, OneEngine, InFifos, RoomHeld, Counted,
           Silenced, Asked, Woken
<1> QED
  BY <1>1, <1>2, <1>3, <1>4

LEMMA SpiNextKeeps == SpiIInv /\ [SpiNext]_spiVars => SpiIInv'
BY SpiStutters, SpiTask, SpiStops, SpiTransfers, SpiBus, SpiDMADone, SpiIrqBegins, SpiIrqEnds
   DEF SpiNext, Call, Going, SpiHandler, Bus

LEMMA SpiInductive == SpiSpec => []SpiIInv
BY SpiInitHolds, SpiNextKeeps, PTL DEF SpiSpec

-----------------------------------------------------------------------------
(* Whatever the lengths, the engines and the time-outs: no more is on the  *)
(* way than the receive FIFO takes and the shift register holds, neither   *)
(* interrupt runs past the buffers by more than an earlier transfer left,  *)
(* which is one byte at most and none unless one was stopped, and every    *)
(* transfer is accounted for once.                                         *)
THEOREM TransfersAccounted == SpiSpec => []SpiInv
<1>1. SpiIInv => SpiInv
  BY DEF SpiIInv
<1> QED
  BY SpiInductive, <1>1, PTL

(* A call returns 0 with bytes of its own still to come only if the        *)
(* semaphore was full when its transfer began, or, one byte short, if a    *)
(* stopped transfer had left one on the way.                               *)
THEOREM BlamesTheToken == SpiSpec => OnlyStaleTokens
<1>1. ASSUME SpiIInv, [SpiNext]_spiVars
      PROVE  [place = "took" /\ place' = "idle" /\ moved < len + before
                => stale \/ (stopped > 0 /\ before = 1 /\ moved >= len)]_spiVars
  BY <1>1 DEF SpiIInv, SpiInv, SpiTypeOK, LeftByStop, Woken
<1> QED
  BY SpiInductive, <1>1, PTL DEF SpiSpec, OnlyStaleTokens

-----------------------------------------------------------------------------
(***************************************************************************)
(* The audio stream: what is heard is the silence and then the file, a     *)
(* stream that is not paused does not rest, and once it is stopped with no *)
(* request outstanding nothing moves any more.  All of it rests on Prompt: *)
(* the first blocks are decoded before one has been played.                *)
(*                                                                         *)
(* What is inductive: the queue goes on where the DAC is; one actor at a   *)
(* time decodes, and it alone makes the queue longer; what was heard, what *)
(* is queued and what is being written make up what was read; and a block  *)
(* still being written when the stream is closed is the next to be heard   *)
(* if the DAC can be started by it at all.                                 *)
(***************************************************************************)
Due(i) == IF i <= Blanks THEN 0 ELSE i - Blanks

AtWork(l) == step["lua"] \in l \/ step["storage"] \in l

DacTyped ==
  dac \in [block : 0..FileBlocks, pos : 0..BlockLen, busy : BOOLEAN, sent : 0..BlockLen]

Alone ==
  /\ step["lua"] # "idle" => lua = "fill"
  /\ step["lua"] # "store"
  /\ lua \in {"new", "blanks", "fill"}
       => step["storage"] = "idle" /\ requests = 0 /\ ~IsPause /\ ~IsStop
  /\ lua = "fill" /\ step["lua"] = "kick" => DataHead # <<>>
  /\ lua = "closed" => ~IsStop

Silence ==
  /\ lua \in {"new", "blanks"}
       => played = <<>> /\ file = 0 /\ Len(DataHead) = Blanks - blanksLeft
  /\ lua = "new" => blanksLeft = Blanks /\ ~dac.busy
  /\ ~(lua \in {"new", "blanks"}) => blanksLeft = 0

Running == lua # "closed" => (dac.busy <=> IsHardwareRun)

Playing == dac.busy => IsHardwareRun /\ DataHead # <<>> /\ dac.block = Head(DataHead)

InLine ==
  lua # "closed" \/ dac.busy
    => \A i \in 1..Len(DataHead) : DataHead[i] = Due(Len(played) + i)

Pending == IF AtWork({"write"}) THEN 1 ELSE 0

Supply ==
  lua \in {"fill", "play"} /\ (~IsStop \/ AtWork({"read", "write"}))
    => Len(played) + Len(DataHead) = Blanks + file - Pending

ReadLast == AtWork({"write"}) => chunk = file /\ chunk > 0

HasRoom == AtWork({"read", "write"}) => Len(DataHead) < Ahead

Counting == step["storage"] = "store" => count \in 1..(requests + 1)

AfterClose ==
  lua = "closed" =>
    /\ Len(DataHead) <= 1
    /\ step["storage"] \in {"write", "kick"} => ~dac.busy
    /\ step["storage"] = "write" => DataHead = <<>>
    /\ ~IsHardwareRun /\ ~IsPause =>
         /\ step["storage"] = "write" => Len(played) = Blanks + chunk - 1
         /\ DataHead # <<>> => /\ step["storage"] = "kick"
                               /\ Head(DataHead) = Due(Len(played) + 1)

AllServed == lua = "closed" /\ ~early => requests = 0 /\ step["storage"] = "idle"

HeardTyped == played \in Seq(Nat)

AudioIInv ==
  /\ AudioInv /\ HeardTyped /\ DacTyped /\ Alone /\ Silence /\ Running /\ Playing
  /\ InLine /\ Supply /\ ReadLast /\ HasRoom /\ Counting /\ AfterClose /\ AllServed

LEMMA AudioSizes ==
  /\ FileBlocks \in Nat \ {0} /\ Ahead \in Nat \ {0} /\ BlockLen \in Nat \ {0}
  /\ DacLimit \in Nat \ {0} /\ DacChunk \in Nat \ {0} /\ DacChunk <= DacLimit
  /\ Blanks \in Nat /\ MaxPauses \in Nat
BY AudioAssumption DEF AudioAssumption

Reserve == Max({Blanks, Ahead})

LEMMA ReserveBounds == Reserve \in Nat /\ Blanks <= Reserve /\ Ahead <= Reserve
<1>1. \E x \in {Blanks, Ahead} : \A y \in {Blanks, Ahead} : x >= y
  <2>1. CASE Blanks <= Ahead
    BY <2>1, AudioSizes
  <2>2. CASE Ahead <= Blanks
    BY <2>2, AudioSizes
  <2> QED
    BY <2>1, <2>2, AudioSizes
<1>2. Reserve = CHOOSE x \in {Blanks, Ahead} : \A y \in {Blanks, Ahead} : x >= y
  BY Zenon DEF Reserve, Max
<1>3. Reserve \in {Blanks, Ahead} /\ \A y \in {Blanks, Ahead} : Reserve >= y
  BY <1>1, <1>2
<1> QED
  BY <1>3, AudioSizes

(* The queue is a sequence of blocks that is no longer than the reserve.   *)
LEMMA QueueIsBounded ==
  ASSUME NEW q
  PROVE  q \in BoundedSeq(0..FileBlocks, Max({Blanks, Ahead}))
           <=> q \in Seq(0..FileBlocks) /\ Len(q) <= Reserve
<1>1. BoundedSeq(0..FileBlocks, Max({Blanks, Ahead}))
        = UNION {[1..m -> 0..FileBlocks] : m \in 0..Reserve}
  BY DEF BoundedSeq, SeqOf, Reserve
<1>2. ASSUME q \in BoundedSeq(0..FileBlocks, Max({Blanks, Ahead}))
      PROVE  q \in Seq(0..FileBlocks) /\ Len(q) <= Reserve
  <2>1. PICK m \in 0..Reserve : q \in [1..m -> 0..FileBlocks]
    BY <1>1, <1>2
  <2>2. m \in Nat /\ m <= Reserve
    BY <2>1, ReserveBounds
  <2>3. q \in Seq(0..FileBlocks)
    BY <2>1, <2>2, SeqDef
  <2>4. DOMAIN q = 1..m /\ DOMAIN q = 1..Len(q) /\ Len(q) \in Nat
    BY <2>1, <2>3, LenProperties
  <2>5. Len(q) = m
    BY <2>2, <2>4
  <2> QED
    BY <2>2, <2>3, <2>5
<1>3. ASSUME q \in Seq(0..FileBlocks), Len(q) <= Reserve
      PROVE  q \in BoundedSeq(0..FileBlocks, Max({Blanks, Ahead}))
  <2>1. Len(q) \in Nat /\ q \in [1..Len(q) -> 0..FileBlocks]
    BY <1>3, LenProperties
  <2>2. Len(q) \in 0..Reserve
    BY <1>3, <2>1, ReserveBounds
  <2> QED
    BY <1>1, <2>1, <2>2, Zenon
<1> QED
  BY <1>2, <1>3

LEMMA LevelFits ==
  ASSUME NEW rest \in Nat
  PROVE  DacLevel(rest) \in Nat /\ DacLevel(rest) <= rest /\ DacLevel(rest) <= DacLimit
BY AudioSizes DEF DacLevel

(* Starting the DAC on a block.                                            *)
LEMMA SentIsTyped ==
  ASSUME NEW d, d \in [block : 0..FileBlocks, pos : 0..BlockLen, busy : BOOLEAN, sent : 0..BlockLen],
         NEW b \in 0..FileBlocks
  PROVE  /\ Sent(d, b) \in [block : 0..FileBlocks, pos : 0..BlockLen, busy : BOOLEAN,
                            sent : 0..BlockLen]
         /\ Sent(d, b).busy
         /\ d.busy => Sent(d, b) = d
         /\ ~d.busy => Sent(d, b).block = b /\ Sent(d, b).pos - Sent(d, b).sent <= DacLimit
<1>1. DacLevel(BlockLen) \in 0..BlockLen /\ DacLevel(BlockLen) <= DacLimit
  BY AudioSizes, LevelFits
<1>2. CASE d.busy
  BY <1>2 DEF Sent
<1>3. CASE ~d.busy
  <2>1. Sent(d, b) = [block |-> b, pos |-> DacLevel(BlockLen), busy |-> TRUE, sent |-> 0]
    BY <1>3 DEF Sent
  <2>2. 0 \in 0..BlockLen
    BY AudioSizes
  <2> HIDE DEF Sent
  <2> QED
    BY <1>1, <1>3, <2>1, <2>2
<1> QED
  BY <1>2, <1>3

LEMMA AudioInitHolds == AudioInit => AudioIInv
<1>1. SUFFICES ASSUME AudioInit PROVE AudioIInv
  OBVIOUS
<1>2. <<>> \in Seq(0..FileBlocks) /\ <<>> \in Seq(Nat) /\ Len(<<>>) = 0
  BY EmptySeq
<1>3. DataHead \in BoundedSeq(0..FileBlocks, Max({Blanks, Ahead}))
  <2>1. DataHead \in Seq(0..FileBlocks) /\ Len(DataHead) <= Reserve
    BY <1>1, <1>2, ReserveBounds DEF AudioInit
  <2> QED
    BY <2>1, QueueIsBounded, Zenon
<1>4. dac = [block |-> 0, pos |-> 0, busy |-> FALSE, sent |-> 0]
  BY <1>1 DEF AudioInit, Quiet
<1>5. step["lua"] = "idle" /\ step["storage"] = "idle"
  BY <1>1 DEF AudioInit, Actors
<1>6. AudioTypeOK
  <2>1. dac.block \in 0..FileBlocks /\ dac.pos \in 0..BlockLen /\ dac.sent \in 0..BlockLen
    BY <1>4, AudioSizes
  <2>2. dac.busy = FALSE
    BY <1>4
  <2>3. step \in [Actors -> {"idle", "test", "read", "write", "kick", "over", "store"}]
    BY <1>1 DEF AudioInit
  <2>4. 0 \in Nat /\ 0 \in 0..FileBlocks
    BY AudioSizes
  <2>5. blanksLeft \in Nat
    BY <1>1, AudioSizes DEF AudioInit
  <2> QED
    BY <1>1, <1>3, <2>1, <2>2, <2>3, <2>4, <2>5, Zenon DEF AudioInit, AudioTypeOK
<1>7. HeardTyped /\ DacTyped
  BY <1>1, <1>2, <1>4, AudioSizes DEF AudioInit, HeardTyped, DacTyped
<1>8. PlaysTheFile /\ InLine
  BY <1>1, <1>2 DEF AudioInit, PlaysTheFile, InLine
<1> QED
  BY <1>1, <1>2, <1>4, <1>5, <1>6, <1>7, <1>8, AudioSizes
     DEF AudioInit, AudioIInv, AudioInv, NeverRests, ChunkFits, QuietAfterStop,
         Accounted, Outstanding, Alone, Silence, Running, Playing, Supply, AtWork,
         ReadLast, HasRoom, Counting, AfterClose, AllServed

LEMMA AudioStutters == AudioIInv /\ UNCHANGED audioVars => AudioIInv'
BY DEF audioVars, control, decoder, env, heard,
       AudioIInv, AudioInv, AudioTypeOK, PlaysTheFile, NeverRests, ChunkFits,
       QuietAfterStop, Accounted, Outstanding, Actors, HeardTyped, DacTyped, Alone,
       Silence, Running, Playing, InLine, Supply, Pending, AtWork, ReadLast,
       HasRoom, Counting, AfterClose, AllServed

(* The steps after which queue, DAC and what was heard are as before.      *)
Still ==
  /\ DataHead' = DataHead /\ played' = played /\ dac' = dac
  /\ IsHardwareRun' = IsHardwareRun

LEMMA StillSeqs ==
  ASSUME AudioIInv, Still
  PROVE  /\ DataHead' \in BoundedSeq(0..FileBlocks, Max({Blanks, Ahead}))
         /\ PlaysTheFile' /\ HeardTyped' /\ DacTyped' /\ ChunkFits' /\ Playing'
         /\ dac'.busy = dac.busy /\ Len(DataHead') = Len(DataHead)
         /\ Len(played') = Len(played)
BY DEF Still, AudioIInv, AudioInv, AudioTypeOK, PlaysTheFile, HeardTyped, DacTyped, ChunkFits,
       Playing

(* The decoder's test, and its read.                                       *)
LEMMA AudioTest == AudioIInv /\ (\E a \in Actors : Test(a)) => AudioIInv'
<1>1. SUFFICES ASSUME AudioIInv, NEW a \in Actors, Test(a) PROVE AudioIInv'
  OBVIOUS
<1>2. /\ Still /\ IsPause' = IsPause /\ IsStop' = IsStop /\ waitRequire' = waitRequire
      /\ lua' = lua /\ chunk' = chunk /\ file' = file /\ count' = count
      /\ requests' = requests /\ blanksLeft' = blanksLeft /\ pauses' = pauses
      /\ early' = early
  BY <1>1 DEF Test, Still, control, env, heard
<1>3. /\ step[a] = "test"
      /\ \/ Len(DataHead) < Ahead /\ ~IsStop /\ step' = [step EXCEPT ![a] = "read"]
         \/ step' = [step EXCEPT ![a] = "over"]
  BY <1>1 DEF Test, Wants, Goto
<1>4. CASE a = "lua"
  BY <1>1, <1>2, <1>3, <1>4, StillSeqs
     DEF Still, AudioIInv, AudioInv, AudioTypeOK, NeverRests, QuietAfterStop,
         Accounted, Outstanding, Actors, Alone, Silence, Running, InLine, Supply,
         Pending, AtWork, ReadLast, HasRoom, Counting, AfterClose, AllServed
<1>5. CASE a = "storage"
  BY <1>1, <1>2, <1>3, <1>5, StillSeqs
     DEF Still, AudioIInv, AudioInv, AudioTypeOK, NeverRests, QuietAfterStop,
         Accounted, Outstanding, Actors, Alone, Silence, Running, InLine, Supply,
         Pending, AtWork, ReadLast, HasRoom, Counting, AfterClose, AllServed
<1> QED
  BY <1>1, <1>4, <1>5 DEF Actors

LEMMA AudioRead == AudioIInv /\ (\E a \in Actors : ReadFile(a)) => AudioIInv'
<1>1. SUFFICES ASSUME AudioIInv, NEW a \in Actors, ReadFile(a) PROVE AudioIInv'
  OBVIOUS
<1>2. /\ Still /\ IsPause' = IsPause /\ IsStop' = IsStop /\ waitRequire' = waitRequire
      /\ lua' = lua /\ count' = count
      /\ requests' = requests /\ blanksLeft' = blanksLeft /\ pauses' = pauses
      /\ early' = early
  BY <1>1 DEF ReadFile, Still, control, env, heard
<1>3. /\ step[a] = "read"
      /\ \/ /\ file < FileBlocks /\ lua # "closed"
            /\ file' = file + 1 /\ chunk' = file + 1 /\ step' = [step EXCEPT ![a] = "write"]
         \/ chunk' = 0 /\ file' = file /\ step' = [step EXCEPT ![a] = "over"]
  BY <1>1 DEF ReadFile, Goto
<1>4. CASE a = "lua"
  BY <1>1, <1>2, <1>3, <1>4, StillSeqs, AudioSizes
     DEF Still, AudioIInv, AudioInv, AudioTypeOK, NeverRests, QuietAfterStop,
         Accounted, Outstanding, Actors, Alone, Silence, Running, InLine, Supply,
         Pending, AtWork, ReadLast, HasRoom, Counting, AfterClose, AllServed
<1>5. CASE a = "storage"
  <2>1. step \in [Actors -> {"idle", "test", "read", "write", "kick", "over", "store"}]
    BY <1>1 DEF AudioIInv, AudioInv, AudioTypeOK
  <2>2. /\ step["storage"] = "read" /\ step'["lua"] = step["lua"]
        /\ step'["storage"] \in {"write", "over"} /\ step["lua"] \notin {"read", "write"}
        /\ step' \in [Actors -> {"idle", "test", "read", "write", "kick", "over", "store"}]
        /\ lua \in {"play", "closed"}
    BY <1>1, <1>3, <1>5, <2>1 DEF AudioIInv, AudioInv, AudioTypeOK, Alone, Actors
  <2>3. AtWork({"read"}) /\ AtWork({"read", "write"}) /\ ~AtWork({"write"}) /\ Pending = 0
    BY <2>2 DEF AtWork, Pending
  <2>4. AudioTypeOK' /\ NeverRests' /\ QuietAfterStop' /\ Accounted'
    BY <1>1, <1>2, <1>3, <2>2, StillSeqs, AudioSizes
       DEF Still, AudioIInv, AudioInv, AudioTypeOK, NeverRests, QuietAfterStop,
           Accounted, Outstanding, Actors
  <2>5. Alone' /\ Silence' /\ Running' /\ InLine' /\ Counting' /\ AllServed'
    BY <1>1, <1>2, <1>3, <2>2, StillSeqs
       DEF Still, AudioIInv, Alone, Silence, Running, InLine, Counting, AllServed
  <2>6. Supply' /\ ReadLast' /\ HasRoom' /\ AfterClose'
    <3>1. CASE step'["storage"] = "write"
      <4>1. /\ lua = "play" /\ file' = file + 1 /\ chunk' = file + 1
            /\ AtWork({"write"})' /\ Pending' = 1
        BY <1>3, <1>5, <2>1, <2>2, <3>1 DEF AtWork, Pending, Actors
      <4>2. file \in Nat /\ Len(DataHead) < Ahead
        BY <1>1, <2>3, AudioSizes DEF AudioIInv, AudioInv, AudioTypeOK, HasRoom
      <4>3. Len(played) + Len(DataHead) = Blanks + file
        BY <1>1, <2>3, <4>1, <4>2, AudioSizes DEF AudioIInv, Supply
      <4>4. Supply'
        BY <1>2, <4>1, <4>2, <4>3, AudioSizes DEF Supply, Still
      <4> QED
        BY <1>2, <4>1, <4>2, <4>4 DEF Still, ReadLast, HasRoom, AfterClose
    <3>2. CASE step'["storage"] # "write"
      <4>1. /\ step'["storage"] = "over" /\ file' = file
            /\ ~AtWork({"read", "write"})' /\ ~AtWork({"write"})' /\ Pending' = 0
        BY <1>3, <1>5, <2>1, <2>2, <3>2 DEF AtWork, Pending, Actors
      <4>2. Supply'
        BY <1>1, <1>2, <2>3, <4>1 DEF AudioIInv, Supply, Still
      <4> QED
        BY <1>1, <1>2, <2>2, <4>1, <4>2 DEF AudioIInv, ReadLast, HasRoom, AfterClose, Still
    <3> QED
      BY <3>1, <3>2
  <2> QED
    BY <2>4, <2>5, <2>6, StillSeqs, <1>1, <1>2 DEF AudioIInv, AudioInv
<1> QED
  BY <1>1, <1>4, <1>5 DEF Actors

(* What the storage task does beside decoding.                             *)
LEMMA AudioServes == AudioIInv /\ Storage => AudioIInv'
<1>1. SUFFICES ASSUME AudioIInv, Storage PROVE AudioIInv'
  OBVIOUS
<1>2. /\ Still /\ IsPause' = IsPause /\ IsStop' = IsStop
      /\ lua' = lua /\ chunk' = chunk /\ file' = file
      /\ blanksLeft' = blanksLeft /\ pauses' = pauses /\ early' = early
  BY <1>1 DEF Storage, Serve, Load, StoreCount, Still, control, env, heard
<1>3. CASE Serve
  <2>1. /\ step["storage"] = "idle" /\ requests > 0 /\ requests' = requests - 1
        /\ \/ IsStop /\ step' = [step EXCEPT !["storage"] = "over"]
           \/ ~IsStop /\ step' = [step EXCEPT !["storage"] = "test"]
        /\ waitRequire' = waitRequire /\ count' = count
    BY <1>3 DEF Serve, Goto, control
  <2> QED
    BY <1>1, <1>2, <2>1, StillSeqs
       DEF Still, AudioIInv, AudioInv, AudioTypeOK, NeverRests, QuietAfterStop,
           Accounted, Outstanding, Actors, Alone, Silence, Running, InLine, Supply,
           Pending, AtWork, ReadLast, HasRoom, Counting, AfterClose, AllServed
<1>4. CASE Load
  <2>1. /\ step["storage"] = "over" /\ count' = waitRequire /\ requests' = requests
        /\ \/ waitRequire = 0 /\ step' = [step EXCEPT !["storage"] = "idle"]
           \/ waitRequire # 0 /\ step' = [step EXCEPT !["storage"] = "store"]
        /\ waitRequire' = waitRequire
    BY <1>4 DEF Load, Goto, control
  <2> QED
    BY <1>1, <1>2, <2>1, StillSeqs
       DEF Still, AudioIInv, AudioInv, AudioTypeOK, NeverRests, QuietAfterStop,
           Accounted, Outstanding, Actors, Alone, Silence, Running, InLine, Supply,
           Pending, AtWork, ReadLast, HasRoom, Counting, AfterClose, AllServed
<1>5. CASE StoreCount
  <2>1. /\ step["storage"] = "store" /\ waitRequire' = count - 1 /\ requests' = requests
        /\ step' = [step EXCEPT !["storage"] = "idle"] /\ count' = count
    BY <1>5 DEF StoreCount, Goto, Decremented
  <2> QED
    BY <1>1, <1>2, <2>1, StillSeqs
       DEF Still, AudioIInv, AudioInv, AudioTypeOK, NeverRests, QuietAfterStop,
           Accounted, Outstanding, Actors, Alone, Silence, Running, InLine, Supply,
           Pending, AtWork, ReadLast, HasRoom, Counting, AfterClose, AllServed
<1> QED
  BY <1>1, <1>3, <1>4, <1>5 DEF Storage

(* What the Lua task does without touching the stream.                     *)
LEMMA AudioFlags ==
  AudioIInv /\ (FirstFill \/ FirstFilled \/ Pause \/ PlayStop) => AudioIInv'
<1>1. SUFFICES ASSUME AudioIInv, FirstFill \/ FirstFilled \/ Pause \/ PlayStop
               PROVE  AudioIInv'
  OBVIOUS
<1>2. /\ Still /\ waitRequire' = waitRequire /\ chunk' = chunk /\ file' = file
      /\ count' = count /\ requests' = requests /\ blanksLeft' = blanksLeft
      /\ early' = early
  BY <1>1 DEF FirstFill, FirstFilled, Pause, PlayStop, Still, control, decoder, env, heard
<1>3. CASE FirstFill
  <2>1. /\ lua = "blanks" /\ blanksLeft = 0 /\ lua' = "fill"
        /\ step' = [step EXCEPT !["lua"] = "test"]
        /\ IsPause' = IsPause /\ IsStop' = IsStop /\ pauses' = pauses
    BY <1>3 DEF FirstFill, Goto, control, env
  <2> QED
    BY <1>1, <1>2, <2>1, StillSeqs, AudioSizes, EmptySeq
       DEF Still, AudioIInv, AudioInv, AudioTypeOK, NeverRests, QuietAfterStop,
           Accounted, Outstanding, Actors, Alone, Silence, Running, InLine, Supply,
           Pending, AtWork, ReadLast, HasRoom, Counting, AfterClose, AllServed
<1>4. CASE FirstFilled
  <2>1. /\ lua = "fill" /\ step["lua"] = "over" /\ lua' = "play"
        /\ step' = [step EXCEPT !["lua"] = "idle"]
        /\ IsPause' = IsPause /\ IsStop' = IsStop /\ pauses' = pauses
    BY <1>4 DEF FirstFilled, Goto, control, env
  <2> QED
    BY <1>1, <1>2, <2>1, StillSeqs
       DEF Still, AudioIInv, AudioInv, AudioTypeOK, NeverRests, QuietAfterStop,
           Accounted, Outstanding, Actors, Alone, Silence, Running, InLine, Supply,
           Pending, AtWork, ReadLast, HasRoom, Counting, AfterClose, AllServed
<1>5. CASE Pause
  <2>1. /\ lua = "play" /\ IsPause' = TRUE /\ pauses' = pauses + 1
        /\ lua' = lua /\ step' = step /\ IsStop' = IsStop
    BY <1>5 DEF Pause, decoder
  <2> QED
    BY <1>1, <1>2, <2>1, StillSeqs
       DEF Still, AudioIInv, AudioInv, AudioTypeOK, NeverRests, QuietAfterStop,
           Accounted, Outstanding, Actors, Alone, Silence, Running, InLine, Supply,
           Pending, AtWork, ReadLast, HasRoom, Counting, AfterClose, AllServed
<1>6. CASE PlayStop
  <2>1. /\ lua = "play" /\ IsStop' = TRUE /\ pauses' = pauses
        /\ lua' = lua /\ step' = step /\ IsPause' = IsPause
    BY <1>6 DEF PlayStop, decoder, env
  <2> QED
    BY <1>1, <1>2, <2>1, StillSeqs
       DEF Still, AudioIInv, AudioInv, AudioTypeOK, NeverRests, QuietAfterStop,
           Accounted, Outstanding, Actors, Alone, Silence, Running, InLine, Supply,
           Pending, AtWork, ReadLast, HasRoom, Counting, AfterClose, AllServed
<1> QED
  BY <1>1, <1>3, <1>4, <1>5, <1>6

(* The DMA interrupt in the middle of a block.                             *)
LEMMA AudioNextChunk == AudioIInv /\ NextChunk => AudioIInv'
<1>1. SUFFICES ASSUME AudioIInv, NextChunk PROVE AudioIInv'
  OBVIOUS
<1> DEFINE n == DacLevel(BlockLen - dac.pos)
<1>2. /\ dac.busy /\ ~(dac.busy /\ dac.pos = BlockLen)
      /\ dac' = [dac EXCEPT !.pos = dac.pos + n, !.sent = dac.pos]
      /\ DataHead' = DataHead /\ played' = played /\ IsHardwareRun' = IsHardwareRun
      /\ IsPause' = IsPause /\ IsStop' = IsStop /\ waitRequire' = waitRequire
      /\ lua' = lua /\ step' = step /\ chunk' = chunk /\ file' = file /\ count' = count
      /\ requests' = requests /\ blanksLeft' = blanksLeft /\ pauses' = pauses
      /\ early' = early
  BY <1>1 DEF NextChunk, MayInterrupt, BlockOver, control, decoder, env, heard
<1>3. dac.pos \in 0..BlockLen /\ BlockLen - dac.pos \in Nat
  BY <1>1, AudioSizes DEF AudioIInv, DacTyped
<1>4. n \in Nat /\ n <= BlockLen - dac.pos /\ n <= DacLimit
  BY <1>3, LevelFits
<1> HIDE DEF n
<1>5. /\ dac' \in [block : 0..FileBlocks, pos : 0..BlockLen, busy : BOOLEAN, sent : 0..BlockLen]
      /\ dac'.busy = dac.busy /\ dac'.block = dac.block
      /\ dac'.pos = dac.pos + n /\ dac'.sent = dac.pos
  <2>1. dac.pos + n \in 0..BlockLen
    BY <1>3, <1>4, AudioSizes
  <2> QED
    BY <1>1, <1>2, <1>3, <2>1 DEF AudioIInv, DacTyped
<1>6. ChunkFits' /\ DacTyped' /\ Playing' /\ HeardTyped' /\ PlaysTheFile'
  BY <1>1, <1>2, <1>3, <1>4, <1>5
     DEF AudioIInv, AudioInv, ChunkFits, DacTyped, Playing, HeardTyped, PlaysTheFile
<1>7. AudioTypeOK'
  BY <1>1, <1>2, <1>5 DEF AudioIInv, AudioInv, AudioTypeOK
<1> QED
  BY <1>1, <1>2, <1>5, <1>6, <1>7
     DEF AudioIInv, AudioInv, NeverRests, QuietAfterStop, Accounted, Outstanding,
         Actors, Alone, Silence, Running, InLine, Supply, Pending, AtWork, ReadLast,
         HasRoom, Counting, AfterClose, AllServed

(* The DMA interrupt at the end of a block.                                *)
LEMMA HeardNext ==
  ASSUME AudioIInv, dac.busy,
         played' = Append(played, dac.block), DataHead' = Tail(DataHead)
  PROVE  /\ HeardTyped' /\ PlaysTheFile' /\ Len(played') = Len(played) + 1
         /\ DataHead' \in BoundedSeq(0..FileBlocks, Max({Blanks, Ahead}))
         /\ Len(DataHead) \in Nat /\ Len(DataHead) > 0 /\ Len(played) \in Nat
         /\ Len(DataHead') = Len(DataHead) - 1
         /\ DataHead' # <<>> <=> Len(DataHead) # 1
         /\ \A i \in 1..Len(DataHead') : DataHead'[i] = Due(Len(played') + i)
         /\ DataHead' # <<>> => Head(DataHead') \in 0..FileBlocks
<1>1. /\ DataHead \in Seq(0..FileBlocks) /\ Len(DataHead) <= Reserve
      /\ played \in Seq(Nat) /\ dac.block \in 0..FileBlocks
      /\ DataHead # <<>> /\ dac.block = Head(DataHead)
      /\ \A i \in 1..Len(DataHead) : DataHead[i] = Due(Len(played) + i)
      /\ \A i \in 1..Len(played) : played[i] = Due(i)
  <2>1. DataHead \in Seq(0..FileBlocks) /\ Len(DataHead) <= Reserve
    BY QueueIsBounded DEF AudioIInv, AudioInv, AudioTypeOK
  <2> QED
    BY <2>1 DEF AudioIInv, AudioInv, AudioTypeOK, HeardTyped, Playing, InLine, PlaysTheFile, Due
<1>2. /\ Len(DataHead) \in Nat /\ Len(DataHead) > 0 /\ Len(played) \in Nat
      /\ DataHead' \in Seq(0..FileBlocks) /\ Len(DataHead') = Len(DataHead) - 1
      /\ \A i \in 1..Len(DataHead') : DataHead'[i] = DataHead[i + 1]
      /\ Head(DataHead) = DataHead[1]
  <2>1. /\ Tail(DataHead) \in Seq(0..FileBlocks) /\ Len(Tail(DataHead)) = Len(DataHead) - 1
        /\ \A i \in 1..Len(Tail(DataHead)) : Tail(DataHead)[i] = DataHead[i + 1]
    BY <1>1, HeadTailProperties
  <2>2. Len(DataHead) \in Nat \ {0} /\ Len(played) \in Nat
    BY <1>1, EmptySeq, LenProperties
  <2>3. DataHead' = Tail(DataHead)
    OBVIOUS
  <2> QED
    BY <1>1, <2>1, <2>2, <2>3
<1>3. /\ played' \in Seq(Nat) /\ Len(played') = Len(played) + 1
      /\ \A i \in 1..Len(played) : played'[i] = played[i]
      /\ played'[Len(played) + 1] = dac.block
  <2>1. dac.block \in Nat
    BY <1>1, AudioSizes
  <2>2. played' = Append(played, dac.block)
    OBVIOUS
  <2> QED
    BY <1>1, <2>1, <2>2, AppendProperties
<1>4. \A i \in 1..Len(played') : played'[i] = Due(i)
  <2>1. DataHead[1] = Due(Len(played) + 1)
    BY <1>1, <1>2
  <2> QED
    BY <1>1, <1>2, <1>3, <2>1
<1>5. ASSUME NEW i \in 1..Len(DataHead') PROVE DataHead'[i] = Due(Len(played') + i)
  <2>1. i + 1 \in 1..Len(DataHead) /\ Len(played) + (i + 1) = Len(played') + i
    BY <1>2, <1>3
  <2> QED
    BY <1>1, <1>2, <2>1
<1>6. DataHead' # <<>> <=> Len(DataHead) # 1
  <2>1. DataHead' # <<>> => Len(DataHead') # 0
    BY <1>2, EmptySeq
  <2>2. DataHead' = <<>> => Len(DataHead') = 0
    BY EmptySeq
  <2> QED
    BY <1>2, <2>1, <2>2
<1>7. DataHead' # <<>> => Head(DataHead') \in 0..FileBlocks
  BY <1>2, HeadTailProperties
<1>8. DataHead' \in BoundedSeq(0..FileBlocks, Max({Blanks, Ahead}))
  <2>1. Len(DataHead') <= Reserve
    BY <1>1, <1>2, ReserveBounds
  <2> QED
    BY <1>2, <2>1, QueueIsBounded, Zenon
<1>9. HeardTyped' /\ PlaysTheFile'
  BY <1>3, <1>4 DEF HeardTyped, PlaysTheFile, Due
<1> QED
  BY <1>2, <1>3, <1>5, <1>6, <1>7, <1>8, <1>9

LEMMA AudioBlockDone == Prompt /\ AudioIInv /\ BlockDone => AudioIInv'
<1>1. SUFFICES ASSUME Prompt, AudioIInv, BlockDone PROVE AudioIInv'
  OBVIOUS
<1>2. /\ dac.busy /\ lua \in {"play", "closed"}
      /\ played' = Append(played, dac.block) /\ DataHead' = Tail(DataHead)
      /\ IsPause' = IsPause /\ IsStop' = IsStop
      /\ lua' = lua /\ step' = step /\ chunk' = chunk /\ file' = file /\ count' = count
      /\ blanksLeft' = blanksLeft /\ pauses' = pauses /\ early' = early
  BY <1>1 DEF BlockDone, MayInterrupt, decoder, env
<1>3. \/ waitRequire' = waitRequire /\ requests' = requests
      \/ waitRequire' = waitRequire + 1 /\ requests' = requests + 1
  BY <1>1 DEF BlockDone
<1>4. /\ HeardTyped' /\ PlaysTheFile' /\ Len(played') = Len(played) + 1
      /\ DataHead' \in BoundedSeq(0..FileBlocks, Max({Blanks, Ahead}))
      /\ Len(DataHead) \in Nat /\ Len(DataHead) > 0 /\ Len(played) \in Nat
      /\ Len(DataHead') = Len(DataHead) - 1
      /\ DataHead' # <<>> <=> Len(DataHead) # 1
      /\ \A i \in 1..Len(DataHead') : DataHead'[i] = Due(Len(played') + i)
      /\ DataHead' # <<>> => Head(DataHead') \in 0..FileBlocks
  BY <1>1, <1>2, HeardNext
<1>5. /\ DacTyped' /\ ChunkFits' /\ Playing' /\ Running'
      /\ dac'.busy = (DataHead' # <<>> /\ ~IsPause)
  <2> DEFINE over == [dac EXCEPT !.busy = FALSE]
  <2>1. /\ over \in [block : 0..FileBlocks, pos : 0..BlockLen, busy : BOOLEAN, sent : 0..BlockLen]
        /\ ~over.busy
    BY <1>1 DEF AudioIInv, DacTyped
  <2>2. /\ dac' = IF DataHead' # <<>> /\ ~IsPause THEN Sent(over, Head(DataHead')) ELSE over
        /\ IsHardwareRun' = (DataHead' # <<>> /\ ~IsPause)
    BY <1>1, <1>2, Zenon DEF BlockDone, Runs, GoesOn
  <2> HIDE DEF over
  <2>3. CASE DataHead' # <<>> /\ ~IsPause
    <3>1. /\ Sent(over, Head(DataHead')) \in [block : 0..FileBlocks, pos : 0..BlockLen,
                                              busy : BOOLEAN, sent : 0..BlockLen]
          /\ Sent(over, Head(DataHead')).busy
          /\ Sent(over, Head(DataHead')).block = Head(DataHead')
          /\ Sent(over, Head(DataHead')).pos - Sent(over, Head(DataHead')).sent <= DacLimit
      BY <1>4, <2>1, <2>3, SentIsTyped
    <3>2. dac' = Sent(over, Head(DataHead')) /\ IsHardwareRun' = TRUE
      BY <2>2, <2>3, Zenon
    <3>3. dac'.busy = TRUE
      BY <3>1, <3>2
    <3> QED
      BY <2>3, <3>1, <3>2, <3>3 DEF DacTyped, ChunkFits, Playing, Running
  <2>4. CASE ~(DataHead' # <<>> /\ ~IsPause)
    <3>1. dac' = over /\ IsHardwareRun' = FALSE
      BY <2>2, <2>4, Zenon
    <3>2. dac'.busy = FALSE
      BY <2>1, <3>1
    <3> QED
      BY <2>1, <2>4, <3>1, <3>2 DEF DacTyped, ChunkFits, Playing, Running
  <2> QED
    BY <2>3, <2>4
<1>6. AudioTypeOK'
  <2>1. waitRequire' \in Nat /\ requests' \in Nat
    BY <1>1, <1>3 DEF AudioIInv, AudioInv, AudioTypeOK
  <2>2. IsHardwareRun' \in BOOLEAN
    BY <1>1, Zenon DEF BlockDone, Runs, GoesOn
  <2>3. /\ dac'.block \in 0..FileBlocks /\ dac'.busy \in BOOLEAN
        /\ dac'.pos \in 0..BlockLen /\ dac'.sent \in 0..BlockLen
    BY <1>5 DEF DacTyped
  <2> QED
    BY <1>1, <1>2, <1>4, <2>1, <2>2, <2>3, Zenon DEF AudioIInv, AudioInv, AudioTypeOK
<1>7. InLine' /\ NeverRests'
  BY <1>2, <1>4, <1>5 DEF InLine, NeverRests
<1>8. Accounted' /\ Counting' /\ QuietAfterStop' /\ AllServed'
  <2>1. Accounted' /\ Counting'
    BY <1>1, <1>2, <1>3
       DEF AudioIInv, AudioInv, AudioTypeOK, Accounted, Outstanding, Counting
  <2>2. ~(lua = "closed" /\ ~early)
    BY <1>1, <1>2 DEF AudioIInv, AudioInv, QuietAfterStop
  <2> QED
    BY <1>2, <2>1, <2>2 DEF QuietAfterStop, AllServed
<1>9. Alone' /\ Silence' /\ ReadLast'
  BY <1>1, <1>2 DEF AudioIInv, Alone, Silence, ReadLast, AtWork
<1>10. Supply' /\ HasRoom'
  <2>1. Len(played') + Len(DataHead') = Len(played) + Len(DataHead)
    BY <1>4
  <2>2. Supply'
    BY <1>1, <1>2, <2>1 DEF AudioIInv, Supply, Pending, AtWork
  <2>3. HasRoom'
    BY <1>1, <1>2, <1>4, AudioSizes DEF AudioIInv, HasRoom, AtWork
  <2> QED
    BY <2>2, <2>3
<1>11. AfterClose'
  BY <1>1, <1>2, <1>4, <1>5 DEF AudioIInv, AfterClose
<1> QED
  BY <1>4, <1>5, <1>6, <1>7, <1>8, <1>9, <1>10, <1>11 DEF AudioIInv, AudioInv

(* Starting the DAC on the head of the queue.                              *)
LEMMA Starts ==
  ASSUME AudioIInv, DataHead # <<>>, DataHead' = DataHead, played' = played,
         dac' = Sent(dac, Head(DataHead)), IsHardwareRun' = TRUE
  PROVE  /\ DacTyped' /\ ChunkFits' /\ Playing' /\ HeardTyped' /\ PlaysTheFile'
         /\ dac'.busy /\ dac'.block \in 0..FileBlocks
         /\ dac'.pos \in 0..BlockLen /\ dac'.sent \in 0..BlockLen /\ dac'.busy \in BOOLEAN
<1>1. Head(DataHead) \in 0..FileBlocks
  <2>1. DataHead \in Seq(0..FileBlocks)
    BY QueueIsBounded DEF AudioIInv, AudioInv, AudioTypeOK
  <2> QED
    BY <2>1, HeadTailProperties
<1>2. dac \in [block : 0..FileBlocks, pos : 0..BlockLen, busy : BOOLEAN, sent : 0..BlockLen]
  BY DEF AudioIInv, DacTyped
<1>3. /\ dac' \in [block : 0..FileBlocks, pos : 0..BlockLen, busy : BOOLEAN, sent : 0..BlockLen]
      /\ dac'.busy
      /\ dac.busy => dac' = dac
      /\ ~dac.busy => dac'.block = Head(DataHead) /\ dac'.pos - dac'.sent <= DacLimit
  <2>1. dac' = Sent(dac, Head(DataHead))
    OBVIOUS
  <2>2. /\ Sent(dac, Head(DataHead)) \in [block : 0..FileBlocks, pos : 0..BlockLen,
                                          busy : BOOLEAN, sent : 0..BlockLen]
        /\ Sent(dac, Head(DataHead)).busy
        /\ dac.busy => Sent(dac, Head(DataHead)) = dac
        /\ ~dac.busy => /\ Sent(dac, Head(DataHead)).block = Head(DataHead)
                        /\ Sent(dac, Head(DataHead)).pos - Sent(dac, Head(DataHead)).sent
                             <= DacLimit
    BY <1>1, <1>2, SentIsTyped, Zenon
  <2> QED
    BY <2>1, <2>2, Zenon
<1>4. dac'.block = Head(DataHead) /\ dac'.pos - dac'.sent <= DacLimit
  BY <1>3 DEF AudioIInv, AudioInv, Playing, ChunkFits
<1> QED
  BY <1>3, <1>4 DEF AudioIInv, AudioInv, DacTyped, ChunkFits, Playing, HeardTyped, PlaysTheFile

(* A block that was decoded is queued.                                     *)
LEMMA AudioWrite == AudioIInv /\ (\E a \in Actors : Write(a)) => AudioIInv'
<1>1. SUFFICES ASSUME AudioIInv, NEW a \in Actors, Write(a) PROVE AudioIInv'
  OBVIOUS
<1>2. /\ dac' = dac /\ IsHardwareRun' = IsHardwareRun
      /\ IsPause' = IsPause /\ IsStop' = IsStop /\ waitRequire' = waitRequire
      /\ lua' = lua /\ chunk' = chunk /\ file' = file /\ count' = count
      /\ requests' = requests /\ blanksLeft' = blanksLeft /\ pauses' = pauses
      /\ played' = played /\ early' = early
  BY <1>1 DEF Write, control, env, heard
<1>3. step \in [Actors -> {"idle", "test", "read", "write", "kick", "over", "store"}]
      /\ step[a] = "write" /\ a \in {"lua", "storage"}
  BY <1>1 DEF AudioIInv, AudioInv, AudioTypeOK, Write, Actors
<1>4. CASE IsStop
  <2>1. Still /\ step' = [step EXCEPT ![a] = "test"]
    BY <1>1, <1>2, <1>4 DEF Write, Goto, Still
  <2>2. a = "storage" /\ lua = "play"
    BY <1>1, <1>3, <1>4 DEF AudioIInv, AudioInv, AudioTypeOK, Alone
  <2> QED
    BY <1>1, <1>2, <1>3, <1>4, <2>1, <2>2, StillSeqs
       DEF Still, AudioIInv, AudioInv, AudioTypeOK, NeverRests, QuietAfterStop,
           Accounted, Outstanding, Actors, Alone, Silence, Running, InLine, Supply,
           Pending, AtWork, ReadLast, HasRoom, Counting, AfterClose, AllServed
<1>5. CASE ~IsStop
  <2>1. DataHead' = Append(DataHead, chunk) /\ step' = [step EXCEPT ![a] = "kick"]
    BY <1>1, <1>5 DEF Write, Goto, Queued
  <2>2. /\ DataHead \in Seq(0..FileBlocks) /\ Len(DataHead) <= Reserve
        /\ chunk \in 0..FileBlocks /\ Len(DataHead) < Ahead
        /\ chunk = file /\ chunk > 0
        /\ Len(DataHead) \in Nat /\ Len(played) \in Nat
    <3>1. DataHead \in Seq(0..FileBlocks) /\ Len(DataHead) <= Reserve
      BY <1>1, QueueIsBounded DEF AudioIInv, AudioInv, AudioTypeOK
    <3>2. AtWork({"write"}) /\ AtWork({"read", "write"})
      BY <1>3 DEF AtWork
    <3> QED
      BY <1>1, <3>1, <3>2, LenProperties
         DEF AudioIInv, AudioInv, AudioTypeOK, HasRoom, ReadLast, HeardTyped
  <2>3. /\ DataHead' \in Seq(0..FileBlocks) /\ DataHead' # <<>>
        /\ Len(DataHead') = Len(DataHead) + 1
        /\ \A i \in 1..Len(DataHead) : DataHead'[i] = DataHead[i]
        /\ DataHead'[Len(DataHead) + 1] = chunk
    BY <2>1, <2>2, AppendProperties
  <2>4. /\ Head(DataHead') = DataHead'[1]
        /\ DataHead # <<>> => Head(DataHead) = DataHead[1] /\ Len(DataHead) > 0
    <3>1. DataHead # <<>> => Len(DataHead) \in Nat \ {0}
      BY <2>2, EmptySeq
    <3> QED
      BY <2>2, <2>3, <3>1
  <2>5. HeardTyped' /\ PlaysTheFile' /\ DacTyped' /\ ChunkFits' /\ Playing' /\ Running'
    BY <1>1, <1>2, <2>2, <2>3, <2>4
       DEF AudioIInv, AudioInv, HeardTyped, PlaysTheFile, DacTyped, ChunkFits,
           Playing, Running
  <2>6. AudioTypeOK'
    <3>1. DataHead' \in BoundedSeq(0..FileBlocks, Max({Blanks, Ahead}))
      <4>1. Len(DataHead') <= Reserve
        BY <2>2, <2>3, ReserveBounds, AudioSizes
      <4> QED
        BY <2>3, <4>1, QueueIsBounded
    <3> QED
      BY <1>1, <1>2, <1>3, <2>1, <3>1 DEF AudioIInv, AudioInv, AudioTypeOK
  <2>7. /\ step' \in [Actors -> {"idle", "test", "read", "write", "kick", "over", "store"}]
        /\ step'[a] = "kick" /\ \A b \in Actors : b # a => step'[b] = step[b]
    BY <1>3, <2>1
  <2>8. (a = "lua" /\ lua = "fill") \/ (a = "storage" /\ lua \in {"play", "closed"})
    BY <1>1, <1>3 DEF AudioIInv, AudioInv, AudioTypeOK, Alone
  <2>9. step'["lua"] \notin {"read", "write"} /\ step'["storage"] \notin {"read", "write"}
    BY <1>1, <1>3, <2>7, <2>8 DEF AudioIInv, Alone, Actors
  <2>10. Alone' /\ Silence' /\ ReadLast' /\ HasRoom'
    BY <1>1, <1>2, <1>3, <2>3, <2>7, <2>8, <2>9
       DEF AudioIInv, Alone, Silence, ReadLast, HasRoom, AtWork, Actors
  <2>11. lua \in {"fill", "play"} => Len(played) + Len(DataHead) = Blanks + file - 1
    <3>1. AtWork({"write"}) /\ Pending = 1
      BY <1>3 DEF AtWork, Pending
    <3> QED
      BY <1>1, <1>5, <3>1 DEF AudioIInv, Supply
  <2>12. Supply'
    <3>1. ~AtWork({"write"})' /\ Pending' = 0
      BY <2>9 DEF AtWork, Pending
    <3> QED
      BY <1>2, <2>2, <2>3, <2>11, <3>1, AudioSizes DEF Supply
  <2>13. InLine'
    <3>1. lua # "closed" \/ ~dac.busy
      BY <1>1, <1>3, <2>8 DEF AudioIInv, AfterClose
    <3>2. CASE lua # "closed"
      <4>1. Len(played) + (Len(DataHead) + 1) = Blanks + chunk
        <5>1. Len(played) + Len(DataHead) = Blanks + chunk - 1
          BY <2>2, <2>8, <2>11, <3>2
        <5>2. chunk \in Nat
          BY <2>2, AudioSizes
        <5> QED
          BY <2>2, <5>1, <5>2, AudioSizes
      <4>2. Due(Blanks + chunk) = chunk
        BY <2>2, AudioSizes DEF Due
      <4>3. \A i \in 1..Len(DataHead) : DataHead[i] = Due(Len(played) + i)
        BY <1>1, <3>2 DEF AudioIInv, InLine
      <4>4. ASSUME NEW i \in 1..Len(DataHead') PROVE DataHead'[i] = Due(Len(played) + i)
        <5>1. CASE i = Len(DataHead) + 1
          BY <2>3, <4>1, <4>2, <5>1
        <5>2. CASE i # Len(DataHead) + 1
          <6>1. i \in 1..Len(DataHead)
            BY <2>2, <2>3, <5>2
          <6> QED
            BY <2>3, <4>3, <6>1
        <5> QED
          BY <5>1, <5>2
      <4> QED
        BY <1>2, <4>4 DEF InLine
    <3>3. CASE lua = "closed"
      BY <1>2, <3>1, <3>3 DEF InLine
    <3> QED
      BY <3>2, <3>3
  <2>14. Accounted' /\ Counting' /\ QuietAfterStop' /\ AllServed' /\ NeverRests'
    BY <1>1, <1>2, <1>3, <2>7, <2>8
       DEF AudioIInv, AudioInv, Accounted, Outstanding, Counting, QuietAfterStop,
           AllServed, NeverRests, Actors
  <2>15. AfterClose'
    <3>1. CASE lua = "closed"
      <4>1. /\ a = "storage" /\ step["storage"] = "write" /\ DataHead = <<>> /\ ~dac.busy
            /\ ~IsHardwareRun /\ ~IsPause => Len(played) = Blanks + chunk - 1
        BY <1>1, <1>3, <2>8, <3>1 DEF AudioIInv, AfterClose
      <4>2. Len(DataHead) = 0
        BY <4>1
      <4>3. Head(DataHead') = chunk /\ Len(DataHead') = 1
        BY <2>3, <2>4, <4>2
      <4>4. Due(Blanks + chunk) = chunk
        BY <2>2, AudioSizes DEF Due
      <4>5. ~IsHardwareRun /\ ~IsPause => Len(played) + 1 = Blanks + chunk
        BY <2>2, <4>1, AudioSizes
      <4> QED
        BY <1>2, <2>7, <4>1, <4>3, <4>4, <4>5 DEF AfterClose
    <3> QED
      BY <1>2, <3>1 DEF AfterClose
  <2> QED
    BY <2>5, <2>6, <2>10, <2>12, <2>13, <2>14, <2>15 DEF AudioIInv, AudioInv
<1> QED
  BY <1>4, <1>5

(* The Lua task starts the stream.                                         *)
LEMMA AudioStartRaw == AudioIInv /\ StartRaw => AudioIInv'
<1>1. SUFFICES ASSUME AudioIInv, StartRaw PROVE AudioIInv'
  OBVIOUS
<1>2. /\ lua = "new" /\ DataHead' = <<>> /\ dac' = Quiet /\ IsHardwareRun' = FALSE
      /\ IsPause' = FALSE /\ lua' = "blanks" /\ IsStop' = IsStop
      /\ waitRequire' = waitRequire /\ step' = step /\ chunk' = chunk /\ file' = file
      /\ count' = count /\ requests' = requests /\ blanksLeft' = blanksLeft
      /\ pauses' = pauses /\ played' = played /\ early' = early
  BY <1>1 DEF StartRaw, decoder, env, heard
<1>3. <<>> \in Seq(0..FileBlocks) /\ Len(<<>>) = 0
  BY EmptySeq
<1>4. DataHead' \in BoundedSeq(0..FileBlocks, Max({Blanks, Ahead}))
  <2>1. DataHead' \in Seq(0..FileBlocks) /\ Len(DataHead') <= Reserve
    BY <1>2, <1>3, ReserveBounds
  <2> QED
    BY <2>1, QueueIsBounded, Zenon
<1>5. /\ dac' \in [block : 0..FileBlocks, pos : 0..BlockLen, busy : BOOLEAN, sent : 0..BlockLen]
      /\ dac'.busy = FALSE
  BY <1>2, AudioSizes DEF Quiet
<1>6. /\ step["lua"] = "idle" /\ step["storage"] = "idle" /\ requests = 0 /\ ~IsStop
      /\ played = <<>> /\ file = 0 /\ blanksLeft = Blanks
  BY <1>1, <1>2 DEF AudioIInv, Alone, Silence
<1>7. AudioTypeOK'
  <2>1. /\ dac'.block \in 0..FileBlocks /\ dac'.busy \in BOOLEAN
        /\ dac'.pos \in 0..BlockLen /\ dac'.sent \in 0..BlockLen
    BY <1>5
  <2> QED
    BY <1>1, <1>2, <1>4, <2>1 DEF AudioIInv, AudioInv, AudioTypeOK
<1>8. HeardTyped' /\ DacTyped' /\ PlaysTheFile' /\ ChunkFits' /\ Playing' /\ Running'
  BY <1>1, <1>2, <1>5
     DEF AudioIInv, AudioInv, HeardTyped, DacTyped, PlaysTheFile, ChunkFits,
         Playing, Running
<1>9. NeverRests' /\ InLine' /\ Silence'
  BY <1>2, <1>3, <1>5, <1>6, AudioSizes DEF NeverRests, InLine, Silence
<1>10. /\ QuietAfterStop' /\ Accounted' /\ Alone' /\ Supply' /\ ReadLast' /\ HasRoom'
       /\ Counting' /\ AfterClose' /\ AllServed'
  BY <1>1, <1>2, <1>6
     DEF AudioIInv, AudioInv, QuietAfterStop, Accounted, Outstanding, Alone,
         Supply, AtWork, ReadLast, HasRoom, Counting, AfterClose, AllServed
<1> QED
  BY <1>7, <1>8, <1>9, <1>10 DEF AudioIInv, AudioInv

(* Silence, put before what is queued.                                     *)
LEMMA AudioWriteBlank == AudioIInv /\ WriteBlank => AudioIInv'
<1>1. SUFFICES ASSUME AudioIInv, WriteBlank PROVE AudioIInv'
  OBVIOUS
<1>2. /\ lua = "blanks" /\ blanksLeft > 0 /\ DataHead' = <<0>> \o DataHead
      /\ blanksLeft' = blanksLeft - 1
      /\ IsPause' = IsPause /\ IsStop' = IsStop /\ waitRequire' = waitRequire
      /\ lua' = lua /\ step' = step /\ chunk' = chunk /\ file' = file
      /\ count' = count /\ requests' = requests
      /\ pauses' = pauses /\ played' = played /\ early' = early
  BY <1>1 DEF WriteBlank, decoder, heard
<1>3. /\ step["lua"] = "idle" /\ step["storage"] = "idle" /\ requests = 0 /\ ~IsStop
      /\ ~IsPause /\ played = <<>> /\ Len(played) = 0 /\ file = 0 /\ blanksLeft \in Nat
      /\ Len(DataHead) = Blanks - blanksLeft /\ (dac.busy <=> IsHardwareRun)
  BY <1>1, <1>2, EmptySeq
     DEF AudioIInv, AudioInv, AudioTypeOK, Alone, Silence, Running
<1>4. DataHead \in Seq(0..FileBlocks)
  BY <1>1, QueueIsBounded DEF AudioIInv, AudioInv, AudioTypeOK
<1>5. /\ DataHead' \in Seq(0..FileBlocks) /\ Len(DataHead') = Len(DataHead) + 1
      /\ Len(DataHead') <= Blanks
      /\ \A i \in 1..Len(DataHead') : DataHead'[i] = 0
  <2>1. /\ <<0>> \in Seq(0..FileBlocks) /\ Len(<<0>>) = 1 /\ <<0>>[1] = 0
    BY AudioSizes
  <2>2. /\ <<0>> \o DataHead \in Seq(0..FileBlocks)
        /\ Len(<<0>> \o DataHead) = 1 + Len(DataHead)
        /\ \A i \in 1..1 + Len(DataHead) :
             (<<0>> \o DataHead)[i] = IF i <= 1 THEN <<0>>[i] ELSE DataHead[i - 1]
    BY <1>4, <2>1, ConcatProperties
  <2>3. Len(DataHead) \in Nat /\ Len(DataHead) + 1 <= Blanks
    BY <1>2, <1>3, <1>4, AudioSizes, LenProperties
  <2>4. ASSUME NEW i \in 1..Len(DataHead) PROVE DataHead[i] = 0
    <3>1. DataHead[i] = Due(0 + i)
      BY <1>1, <1>2, <1>3, <2>4 DEF AudioIInv, InLine
    <3>2. i \in Nat /\ i <= Blanks
      BY <2>3, <2>4, AudioSizes
    <3> QED
      BY <3>1, <3>2 DEF Due
  <2>5. ASSUME NEW i \in 1..1 + Len(DataHead) PROVE (<<0>> \o DataHead)[i] = 0
    <3>1. CASE i = 1
      BY <2>1, <2>2, <3>1
    <3>2. CASE i # 1
      <4>1. i - 1 \in 1..Len(DataHead) /\ ~(i <= 1)
        BY <2>3, <3>2
      <4>2. DataHead[i - 1] = 0
        BY <2>4, <4>1
      <4> QED
        BY <2>2, <4>1, <4>2
    <3> QED
      BY <3>1, <3>2
  <2> QED
    BY <1>2, <2>2, <2>3, <2>5
<1>6. DataHead' # <<>> /\ Head(DataHead') = 0
  <2>1. Len(DataHead') > 0 /\ 1 \in 1..Len(DataHead')
    BY <1>4, <1>5, LenProperties
  <2> QED
    BY <1>5, <2>1, EmptySeq
<1>7. DataHead' \in BoundedSeq(0..FileBlocks, Max({Blanks, Ahead}))
  <2>1. Len(DataHead') <= Reserve
    BY <1>4, <1>5, ReserveBounds, AudioSizes, LenProperties
  <2> QED
    BY <1>5, <2>1, QueueIsBounded, Zenon
<1>8. /\ dac' \in [block : 0..FileBlocks, pos : 0..BlockLen, busy : BOOLEAN, sent : 0..BlockLen]
      /\ dac'.busy = TRUE /\ IsHardwareRun' = TRUE /\ dac'.block = 0
      /\ dac'.pos - dac'.sent <= DacLimit
  <2>1. dac \in [block : 0..FileBlocks, pos : 0..BlockLen, busy : BOOLEAN, sent : 0..BlockLen]
    BY <1>1 DEF AudioIInv, DacTyped
  <2>2. CASE IsHardwareRun
    <3>1. dac' = dac /\ IsHardwareRun' = IsHardwareRun
      BY <1>1, <2>2 DEF WriteBlank, MayRun
    <3>2. DataHead # <<>> /\ dac.block = Head(DataHead) /\ dac.pos - dac.sent <= DacLimit
      BY <1>1, <1>3, <2>2 DEF AudioIInv, AudioInv, Playing, ChunkFits
    <3>3. Head(DataHead) = 0
      <4>1. Len(DataHead) > 0 /\ Len(DataHead) \in Nat
        BY <1>4, <3>2, EmptySeq
      <4>2. DataHead[1] = Due(0 + 1) /\ 1 <= Blanks
        BY <1>1, <1>2, <1>3, <1>5, <4>1, AudioSizes DEF AudioIInv, InLine
      <4> QED
        BY <3>2, <4>1, <4>2 DEF Due
    <3> QED
      BY <1>3, <2>1, <2>2, <3>1, <3>2, <3>3
  <2>3. CASE ~IsHardwareRun
    <3>1. dac' = Sent(dac, 0) /\ IsHardwareRun' = TRUE
      BY <1>1, <1>3, <2>3 DEF WriteBlank, MayRun
    <3>2. 0 \in 0..FileBlocks /\ ~dac.busy
      BY <1>3, <2>3, AudioSizes
    <3>3. /\ Sent(dac, 0) \in [block : 0..FileBlocks, pos : 0..BlockLen, busy : BOOLEAN,
                               sent : 0..BlockLen]
          /\ Sent(dac, 0).busy
          /\ ~dac.busy => /\ Sent(dac, 0).block = 0
                          /\ Sent(dac, 0).pos - Sent(dac, 0).sent <= DacLimit
      BY <2>1, <3>2, SentIsTyped, Zenon
    <3> QED
      BY <3>1, <3>2, <3>3
  <2> QED
    BY <2>2, <2>3
<1>9. AudioTypeOK'
  <2>1. /\ dac'.block \in 0..FileBlocks /\ dac'.busy \in BOOLEAN
        /\ dac'.pos \in 0..BlockLen /\ dac'.sent \in 0..BlockLen
    BY <1>8
  <2>2. blanksLeft' \in Nat /\ IsHardwareRun' \in BOOLEAN
    BY <1>2, <1>3, <1>8
  <2> QED
    BY <1>1, <1>2, <1>7, <2>1, <2>2, Zenon DEF AudioIInv, AudioInv, AudioTypeOK
<1>10. HeardTyped' /\ DacTyped' /\ PlaysTheFile' /\ ChunkFits' /\ Playing' /\ Running'
  BY <1>1, <1>2, <1>6, <1>8
     DEF AudioIInv, AudioInv, HeardTyped, DacTyped, PlaysTheFile, ChunkFits,
         Playing, Running
<1>11. InLine'
  <2>1. ASSUME NEW i \in 1..Len(DataHead') PROVE DataHead'[i] = Due(Len(played') + i)
    <3>1. i \in Nat /\ 0 + i = i /\ i <= Blanks
      BY <1>4, <1>5, AudioSizes, LenProperties
    <3>2. Len(played') = 0
      BY <1>2, <1>3
    <3> QED
      BY <1>5, <3>1, <3>2 DEF Due
  <2> QED
    BY <2>1 DEF InLine
<1>12. NeverRests' /\ Silence'
  BY <1>2, <1>3, <1>5, <1>8, AudioSizes DEF NeverRests, Silence
<1>13. /\ QuietAfterStop' /\ Accounted' /\ Alone' /\ Supply' /\ ReadLast' /\ HasRoom'
       /\ Counting' /\ AfterClose' /\ AllServed'
  BY <1>1, <1>2, <1>3
     DEF AudioIInv, AudioInv, QuietAfterStop, Accounted, Outstanding, Alone,
         Supply, AtWork, ReadLast, HasRoom, Counting, AfterClose, AllServed
<1> QED
  BY <1>7, <1>8, <1>9, <1>10, <1>11, <1>12, <1>13 DEF AudioIInv, AudioInv

(* A stream that rested goes on: the head of its queue is played, or, when *)
(* there is none, a block is asked for.                                    *)
LEMMA AudioResume == AudioIInv /\ Resume => AudioIInv'
<1>1. SUFFICES ASSUME AudioIInv, Resume PROVE AudioIInv'
  OBVIOUS
<1>2. /\ lua = "play" /\ IsPause' = FALSE /\ IsStop' = IsStop /\ lua' = lua
      /\ DataHead' = DataHead /\ played' = played /\ early' = early
      /\ step' = step /\ chunk' = chunk /\ file' = file /\ count' = count
      /\ blanksLeft' = blanksLeft /\ pauses' = pauses
  BY <1>1 DEF Resume, decoder, env, heard
<1>3. dac.busy <=> IsHardwareRun
  BY <1>1, <1>2 DEF AudioIInv, Running
<1>4. /\ Alone' /\ Silence' /\ InLine' /\ Supply' /\ ReadLast' /\ HasRoom'
      /\ AfterClose' /\ AllServed' /\ QuietAfterStop'
  BY <1>1, <1>2
     DEF AudioIInv, AudioInv, Alone, Silence, InLine, Supply, Pending, AtWork, ReadLast,
         HasRoom, AfterClose, AllServed, QuietAfterStop
<1>5. /\ \/ waitRequire' = waitRequire /\ requests' = requests
         \/ waitRequire' = waitRequire + 1 /\ requests' = requests + 1
      /\ \/ dac' = dac /\ IsHardwareRun' = IsHardwareRun
            /\ (IsHardwareRun \/ DataHead = <<>>)
         \/ dac' = Sent(dac, Head(DataHead)) /\ IsHardwareRun' = TRUE /\ DataHead # <<>>
  BY <1>1 DEF Resume, RunDAC
<1>6. Accounted' /\ Counting'
  BY <1>1, <1>2, <1>5 DEF AudioIInv, AudioInv, AudioTypeOK, Accounted, Outstanding, Counting
<1>7. waitRequire' \in Nat /\ requests' \in Nat
  BY <1>1, <1>5 DEF AudioIInv, AudioInv, AudioTypeOK
<1>8. CASE dac' = dac /\ IsHardwareRun' = IsHardwareRun /\ (IsHardwareRun \/ DataHead = <<>>)
  <2>1. AudioTypeOK'
    BY <1>1, <1>2, <1>7, <1>8 DEF AudioIInv, AudioInv, AudioTypeOK
  <2>2. /\ HeardTyped' /\ DacTyped' /\ PlaysTheFile' /\ ChunkFits' /\ Playing' /\ Running'
        /\ NeverRests'
    BY <1>1, <1>2, <1>3, <1>8
       DEF AudioIInv, AudioInv, HeardTyped, DacTyped, PlaysTheFile, ChunkFits, Playing,
           Running, NeverRests
  <2> QED
    BY <1>4, <1>6, <2>1, <2>2 DEF AudioIInv, AudioInv
<1>9. CASE dac' = Sent(dac, Head(DataHead)) /\ IsHardwareRun' = TRUE /\ DataHead # <<>>
  <2>1. /\ DacTyped' /\ ChunkFits' /\ Playing' /\ HeardTyped' /\ PlaysTheFile'
        /\ dac'.busy /\ dac'.block \in 0..FileBlocks
        /\ dac'.pos \in 0..BlockLen /\ dac'.sent \in 0..BlockLen /\ dac'.busy \in BOOLEAN
    BY <1>1, <1>2, <1>9, Starts
  <2>2. AudioTypeOK'
    BY <1>1, <1>2, <1>7, <1>9, <2>1 DEF AudioIInv, AudioInv, AudioTypeOK
  <2>3. Running' /\ NeverRests'
    BY <1>9, <2>1 DEF Running, NeverRests
  <2> QED
    BY <1>4, <1>6, <2>1, <2>2, <2>3 DEF AudioIInv, AudioInv
<1> QED
  BY <1>5, <1>8, <1>9

(* The stream is closed.                                                   *)
LEMMA AudioStopRaw == AudioIInv /\ StopRaw => AudioIInv'
<1>1. SUFFICES ASSUME AudioIInv, StopRaw PROVE AudioIInv'
  OBVIOUS
<1>2. /\ lua = "play" /\ IsStop /\ dac' = [dac EXCEPT !.busy = FALSE] /\ DataHead' = <<>>
      /\ IsStop' = FALSE /\ waitRequire' = 0 /\ lua' = "closed"
      /\ early' = (Outstanding > 0) /\ IsHardwareRun' = IsHardwareRun
      /\ IsPause' = IsPause /\ step' = step /\ chunk' = chunk /\ file' = file
      /\ count' = count /\ requests' = requests /\ blanksLeft' = blanksLeft
      /\ pauses' = pauses /\ played' = played
  BY <1>1 DEF StopRaw, Stopped, decoder, env
<1>3. <<>> \in Seq(0..FileBlocks) /\ Len(<<>>) = 0
  BY EmptySeq
<1>4. DataHead' \in BoundedSeq(0..FileBlocks, Max({Blanks, Ahead}))
  <2>1. DataHead' \in Seq(0..FileBlocks) /\ Len(DataHead') <= Reserve
    BY <1>2, <1>3, ReserveBounds
  <2> QED
    BY <2>1, QueueIsBounded, Zenon
<1>5. /\ dac' \in [block : 0..FileBlocks, pos : 0..BlockLen, busy : BOOLEAN, sent : 0..BlockLen]
      /\ dac'.busy = FALSE
  BY <1>1, <1>2 DEF AudioIInv, DacTyped
<1>6. /\ step["lua"] = "idle" /\ requests \in Nat
      /\ step \in [Actors -> {"idle", "test", "read", "write", "kick", "over", "store"}]
  BY <1>1, <1>2 DEF AudioIInv, AudioInv, AudioTypeOK, Alone
<1>7. AudioTypeOK'
  <2>1. /\ dac'.block \in 0..FileBlocks /\ dac'.busy \in BOOLEAN
        /\ dac'.pos \in 0..BlockLen /\ dac'.sent \in 0..BlockLen
    BY <1>5
  <2> QED
    BY <1>1, <1>2, <1>4, <2>1 DEF AudioIInv, AudioInv, AudioTypeOK
<1>8. HeardTyped' /\ DacTyped' /\ PlaysTheFile' /\ ChunkFits' /\ Playing' /\ Running'
  BY <1>1, <1>2, <1>5
     DEF AudioIInv, AudioInv, HeardTyped, DacTyped, PlaysTheFile, ChunkFits,
         Playing, Running
<1>9. NeverRests' /\ InLine' /\ Supply' /\ QuietAfterStop'
  BY <1>2, <1>3, <1>5 DEF NeverRests, InLine, Supply, QuietAfterStop
<1>10. Alone' /\ Silence' /\ ReadLast' /\ HasRoom' /\ Counting'
  BY <1>1, <1>2, <1>3, <1>6, AudioSizes
     DEF AudioIInv, Alone, Silence, ReadLast, HasRoom, AtWork, Counting
<1>11. Accounted' /\ AllServed'
  <2>1. Accounted'
    BY <1>2, <1>6 DEF Accounted, Outstanding
  <2>2. ~early' => ~(Outstanding > 0)
    BY <1>2, Zenon
  <2>3. ~(Outstanding > 0) => requests = 0 /\ step["storage"] = "idle"
    BY <1>6 DEF Outstanding
  <2> QED
    BY <1>2, <2>1, <2>2, <2>3 DEF AllServed
<1>12. AfterClose'
  <2>1. ASSUME step["storage"] = "write", ~IsHardwareRun, ~IsPause
        PROVE  Len(played) = Blanks + chunk - 1
    <3>1. ~dac.busy /\ \A a \in Actors : step[a] # "kick"
      BY <1>1, <1>2, <1>6, <2>1 DEF AudioIInv, Running, Actors
    <3>2. DataHead = <<>>
      BY <1>1, <1>2, <2>1, <3>1 DEF AudioIInv, AudioInv, NeverRests
    <3>3. AtWork({"read", "write"}) /\ AtWork({"write"}) /\ Pending = 1
      BY <2>1 DEF AtWork, Pending
    <3>4. Len(played) + 0 = Blanks + file - 1 /\ chunk = file /\ Len(played) \in Nat
      BY <1>1, <1>2, <1>3, <3>2, <3>3, LenProperties
         DEF AudioIInv, Supply, ReadLast, HeardTyped
    <3> QED
      BY <3>4
  <2> QED
    BY <1>2, <1>3, <1>5, <2>1 DEF AfterClose
<1> QED
  BY <1>7, <1>8, <1>9, <1>10, <1>11, <1>12 DEF AudioIInv, AudioInv

(* The decoder, after queueing a block, starts a DAC that rests.           *)
LEMMA AudioWriteKick == AudioIInv /\ (\E a \in Actors : WriteKick(a)) => AudioIInv'
<1>1. SUFFICES ASSUME AudioIInv, NEW a \in Actors, WriteKick(a) PROVE AudioIInv'
  OBVIOUS
<1>2. /\ step[a] = "kick" /\ step' = [step EXCEPT ![a] = "test"]
      /\ DataHead' = DataHead /\ IsPause' = IsPause /\ IsStop' = IsStop /\ lua' = lua
      /\ chunk' = chunk /\ file' = file /\ count' = count /\ blanksLeft' = blanksLeft
      /\ pauses' = pauses /\ played' = played /\ early' = early
  BY <1>1 DEF WriteKick, Goto, env, heard
<1>3. /\ step \in [Actors -> {"idle", "test", "read", "write", "kick", "over", "store"}]
      /\ step' \in [Actors -> {"idle", "test", "read", "write", "kick", "over", "store"}]
      /\ step'[a] = "test" /\ \A b \in Actors : b # a => step'[b] = step[b]
      /\ a \in {"lua", "storage"}
      /\ (a = "lua" /\ lua = "fill") \/ (a = "storage" /\ lua \in {"play", "closed"})
  <2>1. step \in [Actors -> {"idle", "test", "read", "write", "kick", "over", "store"}]
    BY <1>1 DEF AudioIInv, AudioInv, AudioTypeOK
  <2>2. (a = "lua" /\ lua = "fill") \/ (a = "storage" /\ lua \in {"play", "closed"})
    BY <1>1, <1>2 DEF AudioIInv, AudioInv, AudioTypeOK, Alone, Actors
  <2> QED
    BY <1>2, <2>1, <2>2 DEF Actors
<1>4. step'["lua"] \notin {"read", "write"} /\ step'["storage"] \notin {"read", "write"}
  BY <1>1, <1>2, <1>3 DEF AudioIInv, Alone, Actors
<1>5. /\ \/ /\ waitRequire' = waitRequire /\ requests' = requests
         \/ /\ waitRequire' = waitRequire + 1 /\ requests' = requests + 1
            /\ a = "storage"
      /\ \/ /\ dac' = dac /\ IsHardwareRun' = IsHardwareRun
            /\ IsHardwareRun \/ IsPause \/ DataHead = <<>>
         \/ /\ dac' = Sent(dac, Head(DataHead)) /\ IsHardwareRun' = TRUE
            /\ DataHead # <<>> /\ ~IsHardwareRun /\ ~IsPause
  BY <1>1, <1>2, <1>3
     DEF AudioIInv, Alone, WriteKick, Kick, RunDAC, MayRun
<1>6. waitRequire' \in Nat /\ requests' \in Nat
  BY <1>1, <1>5 DEF AudioIInv, AudioInv, AudioTypeOK
<1>7. Accounted' /\ Counting' /\ Alone' /\ Silence'
  <2>1. step["storage"] = "idle" <=> step'["storage"] = "idle"
    BY <1>2, <1>3 DEF Actors
  <2>2. Accounted'
    BY <1>1, <1>5, <2>1 DEF AudioIInv, AudioInv, AudioTypeOK, Accounted, Outstanding
  <2>3. Counting'
    BY <1>1, <1>2, <1>3, <1>5 DEF AudioIInv, Counting, Actors
  <2>4. Alone'
    BY <1>1, <1>2, <1>3, <1>5 DEF AudioIInv, Alone, Actors
  <2>5. Silence'
    BY <1>1, <1>2, <1>3 DEF Silence, AudioIInv
  <2> QED
    BY <2>2, <2>3, <2>4, <2>5
<1>8. Supply' /\ ReadLast' /\ HasRoom'
  <2>1. ~AtWork({"write"})' /\ ~AtWork({"read", "write"})' /\ Pending' = 0
    BY <1>4 DEF AtWork, Pending
  <2>2. ~AtWork({"write"}) /\ Pending = 0
    BY <1>1, <1>2, <1>3 DEF AtWork, Pending, AudioIInv, Alone
  <2> QED
    BY <1>1, <1>2, <2>1, <2>2 DEF AudioIInv, Supply, ReadLast, HasRoom
<1>9. lua = "closed" => a = "storage" /\ early /\ ~dac.busy /\ Len(DataHead) <= 1
  BY <1>1, <1>2, <1>3 DEF AudioIInv, AllServed, AfterClose
<1>10. QuietAfterStop' /\ AllServed'
  BY <1>2, <1>9 DEF QuietAfterStop, AllServed
<1>11. CASE /\ dac' = dac /\ IsHardwareRun' = IsHardwareRun
            /\ IsHardwareRun \/ IsPause \/ DataHead = <<>>
  <2>1. AudioTypeOK'
    BY <1>1, <1>2, <1>3, <1>6, <1>11 DEF AudioIInv, AudioInv, AudioTypeOK
  <2>2. /\ HeardTyped' /\ DacTyped' /\ PlaysTheFile' /\ ChunkFits' /\ Playing' /\ Running'
        /\ InLine'
    BY <1>1, <1>2, <1>11
       DEF AudioIInv, AudioInv, HeardTyped, DacTyped, PlaysTheFile, ChunkFits, Playing,
           Running, InLine
  <2>3. NeverRests'
    BY <1>1, <1>2, <1>11 DEF AudioIInv, NeverRests, Running
  <2>4. AfterClose'
    BY <1>1, <1>2, <1>3, <1>4, <1>9, <1>11 DEF AfterClose, Actors
  <2> QED
    BY <1>7, <1>8, <1>10, <2>1, <2>2, <2>3, <2>4 DEF AudioIInv, AudioInv
<1>12. CASE /\ dac' = Sent(dac, Head(DataHead)) /\ IsHardwareRun' = TRUE
            /\ DataHead # <<>> /\ ~IsHardwareRun /\ ~IsPause
  <2>1. /\ DacTyped' /\ ChunkFits' /\ Playing' /\ HeardTyped' /\ PlaysTheFile'
        /\ dac'.busy /\ dac'.block \in 0..FileBlocks
        /\ dac'.pos \in 0..BlockLen /\ dac'.sent \in 0..BlockLen /\ dac'.busy \in BOOLEAN
    BY <1>1, <1>2, <1>12, Starts
  <2>2. AudioTypeOK'
    BY <1>1, <1>2, <1>3, <1>6, <1>12, <2>1 DEF AudioIInv, AudioInv, AudioTypeOK
  <2>3. Running' /\ NeverRests'
    BY <1>12, <2>1 DEF Running, NeverRests
  <2>4. InLine'
    <3>1. CASE lua # "closed"
      BY <1>1, <1>2, <3>1 DEF AudioIInv, InLine
    <3>2. CASE lua = "closed"
      <4>1. Head(DataHead) = Due(Len(played) + 1)
        BY <1>1, <1>12, <3>2 DEF AudioIInv, AfterClose
      <4>2. DataHead \in Seq(0..FileBlocks)
        BY <1>1, QueueIsBounded DEF AudioIInv, AudioInv, AudioTypeOK
      <4>3. Len(DataHead) \in Nat /\ Len(DataHead) > 0
        BY <1>12, <4>2, EmptySeq
      <4>4. Len(DataHead) = 1
        <5>1. \A n \in Nat : n > 0 /\ n <= 1 => n = 1
          OBVIOUS
        <5> QED
          BY <1>9, <3>2, <4>3, <5>1, Zenon
      <4>5. Head(DataHead) = DataHead[1]
        BY <4>2, <4>3
      <4>6. ASSUME NEW i \in 1..Len(DataHead) PROVE DataHead[i] = Due(Len(played) + i)
        <5>1. i = 1
          BY <4>4
        <5> QED
          BY <4>1, <4>5, <5>1
      <4> QED
        BY <1>2, <4>6 DEF InLine
    <3> QED
      BY <3>1, <3>2
  <2>5. AfterClose'
    BY <1>2, <1>4, <1>9, <1>12, <1>3 DEF AfterClose
  <2> QED
    BY <1>7, <1>8, <1>10, <2>1, <2>2, <2>3, <2>4, <2>5 DEF AudioIInv, AudioInv
<1> QED
  BY <1>5, <1>11, <1>12

LEMMA AudioNextKeeps == Prompt /\ AudioIInv /\ [AudioNext]_audioVars => AudioIInv'
BY AudioStutters, AudioTest, AudioRead, AudioWrite, AudioWriteKick, AudioServes, AudioFlags,
   AudioStartRaw, AudioWriteBlank, AudioResume, AudioStopRaw, AudioNextChunk,
   AudioBlockDone
   DEF AudioNext, Decode, Player, User, Storage, Hardware

-----------------------------------------------------------------------------
(* Whatever the lengths of the file, the silence and the reserve: what is  *)
(* heard is the silence and then the file, block by block; a stream that   *)
(* is not paused does not rest with blocks queued; and no more is claimed  *)
(* to be outstanding than is, so that a stop is not waited for in vain.    *)
THEOREM PlaysInOrder ==
  ASSUME Prompt
  PROVE  AudioSpec => []AudioInv
<1>1. AudioIInv /\ [AudioNext]_audioVars => AudioIInv'
  BY AudioNextKeeps
<1>2. AudioIInv => AudioInv
  BY DEF AudioIInv
<1> QED
  BY AudioInitHolds, <1>1, <1>2, PTL DEF AudioSpec

(* prvDAC always has its IsBusy: it is what an interrupt clears.           *)
HasBusy == "busy" \in DOMAIN dac

LEMMA AlwaysHasBusy == AudioSpec => []HasBusy
<1>1. AudioInit => HasBusy
  BY DEF AudioInit, Quiet, HasBusy
<1>2. ASSUME HasBusy, [AudioNext]_audioVars PROVE HasBusy'
  <2>1. \A x : HasBusy => "busy" \in DOMAIN Sent(dac, x)
    BY DEF HasBusy, Sent
  <2>2. DOMAIN [dac EXCEPT !.busy = FALSE] = DOMAIN dac
    OBVIOUS
  <2>3. \A x : "busy" \in DOMAIN Sent([dac EXCEPT !.busy = FALSE], x)
    BY <1>2, <2>2 DEF HasBusy, Sent
  <2>4. \/ dac' \in {dac, Quiet, Stopped}
        \/ \E x : dac' = Sent(dac, x)
        \/ \E x : dac' = Sent([dac EXCEPT !.busy = FALSE], x)
        \/ NextChunk
    BY <1>2
       DEF AudioNext, audioVars, Decode, Test, ReadFile, Write, WriteKick, Kick, RunDAC,
           Player, StartRaw, WriteBlank, FirstFill, FirstFilled, User, Pause, Resume,
           PlayStop, StopRaw, Storage, Serve, Load, StoreCount, Hardware,
           BlockDone, Stopped
  <2>5. NextChunk => HasBusy'
    BY <1>2 DEF NextChunk, HasBusy
  <2>6. dac' \in {dac, Quiet, Stopped} => HasBusy'
    BY <1>2, <2>2 DEF HasBusy, Quiet, Stopped
  <2>7. (\E x : dac' = Sent(dac, x)) => HasBusy'
    BY <1>2, <2>1 DEF HasBusy
  <2>8. (\E x : dac' = Sent([dac EXCEPT !.busy = FALSE], x)) => HasBusy'
    BY <2>3 DEF HasBusy
  <2> QED
    BY <2>4, <2>5, <2>6, <2>7, <2>8
<1> QED
  BY <1>1, <1>2, PTL DEF AudioSpec

(* While the stream is paused the block under way may end, and no other    *)
(* one starts.                                                             *)
THEOREM PauseKeepsStill == AudioSpec => PauseHolds
<1>1. ASSUME HasBusy, [AudioNext]_audioVars
      PROVE  [IsPause /\ IsPause' /\ dac'.busy => dac.busy /\ played' = played]_audioVars
  <2>1. CASE UNCHANGED audioVars
    BY <2>1
  <2>2. CASE AudioNext
    <3>1. SUFFICES ASSUME IsPause, IsPause', dac'.busy PROVE dac.busy /\ played' = played
      BY Zenon
    <3>2. CASE \E a \in Actors : Decode(a)
      BY <3>1, <3>2
         DEF Decode, Test, ReadFile, Write, WriteKick, Kick, MayRun, heard
    <3>3. CASE Player
      BY <3>1, <3>3
         DEF Player, StartRaw, WriteBlank, FirstFill, FirstFilled, MayRun, Quiet, heard
    <3>4. CASE User
      <4>1. CASE StopRaw
        BY <1>1, <3>1, <4>1 DEF StopRaw, Stopped, HasBusy
      <4>2. CASE Pause \/ Resume \/ PlayStop
        BY <3>1, <4>2 DEF Pause, Resume, PlayStop, heard
      <4> QED
        BY <3>4, <4>1, <4>2 DEF User
    <3>5. CASE Storage
      BY <3>1, <3>5 DEF Storage, Serve, Load, StoreCount, heard
    <3>6. CASE NextChunk
      BY <3>1, <3>6 DEF NextChunk, MayInterrupt, heard
    <3>7. ~BlockDone
      <4>1. BlockDone => dac' = [dac EXCEPT !.busy = FALSE]
        BY <3>1, Zenon DEF BlockDone, GoesOn
      <4>2. dac' = [dac EXCEPT !.busy = FALSE] => ~dac'.busy
        BY <1>1 DEF HasBusy
      <4> QED
        BY <3>1, <4>1, <4>2
    <3> QED
      BY <2>2, <3>2, <3>3, <3>4, <3>5, <3>6, <3>7 DEF AudioNext, Hardware
  <2> QED
    BY <1>1, <2>1, <2>2
<1> QED
  BY AlwaysHasBusy, <1>1, PTL DEF AudioSpec, PauseHolds
=============================================================================

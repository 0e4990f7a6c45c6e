--------------------------- MODULE UsbMsc_proofs ---------------------------
(***************************************************************************)
(* For any card, any size of the caches, any host, commands and faults:    *)
(* the disk keeps the promise of DiskPromise.                              *)
(*                                                                         *)
(* First the card and its driver, of SdhcDisk, for any order of calls.     *)
(* The invariant has two halves: the writing half (Stored) says what the   *)
(* queue and the card have to do with the blocks as handed over; the       *)
(* reading half (Cached) says what the current cache holds, by where the   *)
(* transfer is.  They meet in DirtyCovers: what is read from the card is   *)
(* the disk except for dirty blocks.                                       *)
(*                                                                         *)
(* Then the USB disk: every step of the USB task is a step of SdhcDisk or  *)
(* leaves its state alone, provided that what it passes on comes from a    *)
(* command the host sent: the types of the queue of events and of the      *)
(* control structure say that much.                                        *)
(*                                                                         *)
(* Agree adds where the task and the driver are in a transfer, Truthful    *)
(* which command the packets, the control structure and the status are of. *)
(***************************************************************************)
EXTENDS UsbMsc, TLAPS

Stored == QueueLastWins /\ CardFollows /\ DirtyCovers /\ WritingSome

Cached ==
  /\ WindowIsDisk /\ TakeIsDisk /\ FetchIsNext /\ PastIsOver /\ WantIsNext
  /\ WriteFits

-----------------------------------------------------------------------------
LEMMA InitSdInv == SdInit => SdInv
<1> SUFFICES ASSUME SdInit PROVE SdInv
  OBVIOUS
<1> USE SdhcAssumption DEF SdhcAssumption, SdInit, NoRead
<1>0. Queued = {}
  BY DEF Queued
<1>1. SdTypeOK
  <2>1. card \in [Blks -> Contents] /\ disk \in [Blks -> Contents]
    BY DEF Blks
  <2>2. pCache \in Caches /\ pCacheLen \in [{0, 1} -> 0..CacheBlocks]
    BY DEF Caches
  <2>3. want \in [at : 0..LogBlockNbr, n : 0..CacheBlocks, ahead : BOOLEAN]
    OBVIOUS
  <2>4. /\ CacheBuf \in [data : Seq(Contents), max : Nat]
        /\ out \in [at : Nat, data : Seq(Contents)]
        /\ queue \in Seq([at : Nat, data : Seq(Contents)])
    OBVIOUS
  <2>5. /\ isReady \in BOOLEAN /\ writing \in BOOLEAN
        /\ window \in BOOLEAN /\ trust \in BOOLEAN
    OBVIOUS
  <2>6. /\ CurBlock \in Nat /\ EndBlock \in 0..LogBlockNbr
        /\ PreCurBlock \in 0..LogBlockNbr /\ PreEndBlock \in Nat
        /\ CurCacheSn \in {0, 1}
        /\ errors \in 0..MaxErrors
        /\ turn \in {"free", "take", "fetch", "past", "write"}
        /\ pos \in 0..LogBlockNbr
        /\ dirty \subseteq Blks /\ lost \subseteq Blks
    OBVIOUS
  <2> HIDE DEF SdInit
  <2> QED
    BY <2>1, <2>2, <2>3, <2>4, <2>5, <2>6 DEF SdTypeOK
<1>2. Stored
  BY <1>0 DEF Stored, QueueLastWins, CardFollows, DirtyCovers, WritingSome
<1>3. Cached
  BY DEF Cached, WindowIsDisk, TakeIsDisk, FetchIsNext, PastIsOver, WantIsNext,
         WriteFits
<1> QED
  BY <1>1, <1>2, <1>3 DEF SdInv, Stored, Cached

(* The read that is asked for is one the cache has room for.               *)
LEMMA NextReadType ==
  ASSUME NEW cur \in Nat, NEW end \in 0..LogBlockNbr
  PROVE  /\ NextRead(cur, end).at \in 0..LogBlockNbr
         /\ NextRead(cur, end).n \in 1..CacheBlocks
         /\ NextRead(cur, end) \in [at : 0..LogBlockNbr, n : 0..CacheBlocks,
                                    ahead : BOOLEAN]
  BY SdhcAssumption DEF SdhcAssumption, NextRead, Least

LEMMA JoinedType ==
  ASSUME SdTypeOK, turn = "write", WriteFits, NEW ps \in Seq(Contents)
  PROVE  /\ Joined(ps) \in [at : Nat, data : Seq(Contents)]
         /\ Len(Joined(ps).data) = EndBlock - CurBlock
         /\ Joined(ps).at = CurBlock
         /\ Span(Joined(ps)) \subseteq Blks
<1>1. CurBlock \in Nat /\ EndBlock \in Nat /\ CurBlock < EndBlock /\ EndBlock <= LogBlockNbr
  BY SdhcAssumption DEF SdhcAssumption, SdTypeOK, WriteFits
<1>2. EndBlock - CurBlock \in Nat
  BY <1>1
<1>3. Joined(ps).data \in [1..(EndBlock - CurBlock) -> Contents]
  BY <1>2, SdhcAssumption DEF SdhcAssumption, Joined
<1>4. Joined(ps).data \in Seq(Contents) /\ Len(Joined(ps).data) = EndBlock - CurBlock
  BY <1>2, <1>3
<1>5. Joined(ps).at = CurBlock /\ Joined(ps) = [at |-> CurBlock, data |-> Joined(ps).data]
  BY DEF Joined
<1>6. Joined(ps) \in [at : Nat, data : Seq(Contents)]
  BY <1>1, <1>4, <1>5
<1>7. Span(Joined(ps)) \subseteq Blks
  BY <1>1, <1>4, <1>5, SdhcAssumption DEF SdhcAssumption, Span, Blks
<1> QED
  BY <1>4, <1>5, <1>6, <1>7

LEMMA FilledType ==
  ASSUME SdTypeOK, NEW k \in 0..CacheBlocks, k <= There
  PROVE  Filled(k) \in Caches
<1>1. /\ LogBlockNbr \in Nat /\ CacheBlocks \in Nat /\ CacheBlocks > 0
      /\ want.at \in 0..LogBlockNbr /\ want.n \in 0..CacheBlocks
      /\ CurCacheSn \in {0, 1}
      /\ card \in [0..(LogBlockNbr - 1) -> Contents]
      /\ pCache \in [{0, 1} -> [0..(CacheBlocks - 1) -> Contents]]
  BY SdhcAssumption DEF SdhcAssumption, SdTypeOK, Blks, Caches
<1>2. ASSUME NEW i \in 0..(CacheBlocks - 1), i < k
      PROVE  card[want.at + i] \in Contents
  <2>1. want.at + i \in 0..(LogBlockNbr - 1)
    BY <1>1, <1>2 DEF There
  <2> QED
    BY <1>1, <2>1
<1>3. [i \in 0..(CacheBlocks - 1) |->
         IF i < k THEN card[want.at + i] ELSE pCache[CurCacheSn][i]]
        \in [0..(CacheBlocks - 1) -> Contents]
  BY <1>1, <1>2
<1> QED
  BY <1>1, <1>3 DEF Filled, Caches

(* What is handed out is made of the current cache.                        *)
LEMMA CurrentType ==
  ASSUME SdTypeOK, NEW max \in Nat
  PROVE  /\ Current(max) \in Seq(Contents)
         /\ Len(Current(max)) = Least(pCacheLen[CurCacheSn], max)
         /\ Len(Current(max)) \in 0..max
         /\ \A i \in 1..Len(Current(max)) :
              Current(max)[i] = pCache[CurCacheSn][i - 1]
<1> DEFINE n == Least(pCacheLen[CurCacheSn], max)
<1>0. /\ CacheBlocks \in Nat
      /\ pCacheLen[CurCacheSn] \in 0..CacheBlocks
      /\ pCache[CurCacheSn] \in [0..(CacheBlocks - 1) -> Contents]
  BY SdhcAssumption DEF SdhcAssumption, SdTypeOK, Caches
<1>1. n \in 0..max /\ n \in 0..CacheBlocks
  BY <1>0 DEF Least
<1>2. \A i \in 1..n : pCache[CurCacheSn][i - 1] \in Contents
  BY <1>0, <1>1
<1>3. Current(max) = [i \in 1..n |-> pCache[CurCacheSn][i - 1]]
  BY DEF Current, n
<1> HIDE DEF n
<1>4. Current(max) \in [1..n -> Contents]
  BY <1>2, <1>3
<1>5. Current(max) \in Seq(Contents) /\ Len(Current(max)) = n
  BY <1>1, <1>4
<1> QED
  BY <1>1, <1>3, <1>5 DEF n
-----------------------------------------------------------------------------
(***************************************************************************)
(* The types.                                                              *)
(***************************************************************************)
(* The end of a read leaves the variables in their types.                  *)
LEMMA AfterReadType ==
  ASSUME SdTypeOK, NEW good \in BOOLEAN, AfterRead(good),
         pCache' \in Caches, isReady' \in BOOLEAN, errors' \in 0..MaxErrors,
         Queued \subseteq Blks
  PROVE  SdTypeOK'
<1> USE SdhcAssumption DEF SdhcAssumption
<1>1. want' \in [at : 0..LogBlockNbr, n : 0..CacheBlocks, ahead : BOOLEAN]
  BY DEF AfterRead, NoRead
<1>2. /\ CurBlock' \in Nat /\ EndBlock' \in 0..LogBlockNbr
      /\ PreCurBlock' \in 0..LogBlockNbr /\ PreEndBlock' \in Nat
  <2>1. /\ CurBlock \in Nat /\ EndBlock \in 0..LogBlockNbr /\ EndBlock' = EndBlock
        /\ PreCurBlock \in 0..LogBlockNbr /\ PreEndBlock \in Nat
        /\ want.n \in 0..CacheBlocks
    BY DEF AfterRead, SdTypeOK
  <2>2. \/ /\ PreCurBlock' = EndBlock /\ PreEndBlock' = EndBlock + CacheBlocks
           /\ CurBlock' = CurBlock
        \/ /\ CurBlock' = CurBlock + want.n
           /\ PreCurBlock' = PreCurBlock /\ PreEndBlock' = PreEndBlock
    BY DEF AfterRead
  <2> QED
    BY <2>1, <2>2
<1>2a. turn' \in {"free", "take", "fetch", "past", "write"}
  BY DEF AfterRead
<1>3. window' \in BOOLEAN /\ trust' \in BOOLEAN
  BY DEF AfterRead, SdTypeOK
<1>4. dirty' \subseteq Blks
  BY DEF AfterRead, SdTypeOK
<1>5. pCacheLen' \in [{0, 1} -> 0..CacheBlocks]
  BY DEF AfterRead, SdTypeOK
<1>6. Caches' = Caches /\ Blks' = Blks
  BY DEF Caches, Blks
<1>7. UNCHANGED <<card, EndBlock, CurCacheSn, CacheBuf, storeVars, pos, out>>
  BY DEF AfterRead
<1> QED
  BY <1>1, <1>2, <1>2a, <1>3, <1>4, <1>5, <1>6, <1>7 DEF SdTypeOK, storeVars

LEMMA QueuedType == QueueLastWins => Queued \subseteq Blks
  BY DEF QueueLastWins, Queued

(* The first event and the others.                                         *)
LEMMA HeadTail ==
  ASSUME NEW E, NEW q \in Seq(E), q # <<>>
  PROVE  /\ Head(q) = q[1] /\ 1 \in 1..Len(q) /\ Head(q) \in E
         /\ Tail(q) \in Seq(E) /\ Len(Tail(q)) = Len(q) - 1
         /\ Len(q) \in Nat
         /\ \A i \in 1..(Len(q) - 1) : Tail(q)[i] = q[i + 1]
  OBVIOUS

(* What the storage task does to the card leaves it a card.                *)
LEMMA WroteType ==
  ASSUME SdTypeOK, QueueLastWins, queue # <<>>, NEW k \in Nat
  PROVE  Wrote(k) \in [Blks -> Contents]
<1>1. /\ Head(queue) = queue[1] /\ 1 \in 1..Len(queue)
      /\ Head(queue) \in [at : Nat, data : Seq(Contents)]
  <2>1. queue \in Seq([at : Nat, data : Seq(Contents)])
    BY DEF SdTypeOK
  <2> QED
    BY <2>1, HeadTail
<1>2. \A b \in Span(Head(queue)) : At(Head(queue), b) \in Contents
  BY <1>1 DEF Span, At
<1> QED
  BY <1>2 DEF Wrote, SdTypeOK

LEMMA TypeStep ==
  ASSUME SdInv, SdNext
  PROVE  SdTypeOK'
<1> USE SdhcAssumption DEF SdhcAssumption
<1>0. SdTypeOK /\ QueueLastWins /\ WritingSome /\ WantIsNext /\ WriteFits
  BY DEF SdInv
<1>a. Caches' = Caches /\ Blks' = Blks
  BY DEF Caches, Blks
<1>b. Queued \subseteq Blks
  BY <1>0, QueuedType
<1>1. ASSUME NEW a \in Blks, NEW n \in 1..LogBlockNbr, PreRead(a, n)
      PROVE  SdTypeOK'
  <2>1. a \in Nat /\ n \in Nat /\ a + n \in 0..LogBlockNbr
    BY <1>1 DEF PreRead, InRange, Blks
  <2>2. NextRead(a, a + n) \in [at : 0..LogBlockNbr, n : 0..CacheBlocks,
                                ahead : BOOLEAN]
    BY <2>1, NextReadType
  <2>3. /\ EndBlock' \in 0..LogBlockNbr /\ CurBlock' \in Nat
        /\ pos' \in 0..LogBlockNbr
        /\ turn' \in {"free", "take", "fetch", "past", "write"}
    BY <1>0, <1>1, <2>1 DEF PreRead, SdTypeOK
  <2>4. want' \in [at : 0..LogBlockNbr, n : 0..CacheBlocks, ahead : BOOLEAN]
    BY <1>0, <1>1, <2>2 DEF PreRead, SdTypeOK
  <2>5. trust' \in BOOLEAN /\ window' \in BOOLEAN
    BY <1>0, <1>1 DEF PreRead, SdTypeOK
  <2>6. UNCHANGED <<card, isReady, PreCurBlock, PreEndBlock, CurCacheSn, pCache,
                    pCacheLen, CacheBuf, storeVars, errors, dirty, out>>
    BY <1>1 DEF PreRead
  <2> QED
    BY <1>0, <1>a, <2>3, <2>4, <2>5, <2>6 DEF SdTypeOK, storeVars
<1>2. ASSUME NEW a \in Blks, NEW n \in 1..LogBlockNbr, PreWrite(a, n)
      PROVE  SdTypeOK'
  <2>1. a \in Nat /\ n \in Nat /\ a + n \in 0..LogBlockNbr
    BY <1>2 DEF PreWrite, InRange, Blks
  <2>2. CacheBuf' \in [data : Seq(Contents), max : Nat]
    BY <1>2, <2>1 DEF PreWrite
  <2>3. /\ CurBlock' = a /\ EndBlock' = a + n /\ turn' = "write"
        /\ UNCHANGED <<card, isReady, PreCurBlock, PreEndBlock, CurCacheSn,
                       pCache, pCacheLen, want, storeVars, errors, pos, dirty,
                       window, trust, out>>
    BY <1>2 DEF PreWrite
  <2> QED
    BY <1>0, <1>a, <2>1, <2>2, <2>3 DEF SdTypeOK, storeVars
<1>3. ASSUME ReadNext
      PROVE  SdTypeOK'
  <2>1. want' \in [at : 0..LogBlockNbr, n : 0..CacheBlocks, ahead : BOOLEAN]
    BY <1>0, <1>3, NextReadType DEF ReadNext, SdTypeOK
  <2> QED
    BY <1>0, <1>3, <1>a, <2>1 DEF ReadNext, SdTypeOK, cacheVars, storeVars
<1>4. ASSUME NEW max \in 0..LogBlockNbr, Read(max)
      PROVE  SdTypeOK'
  <2>1. /\ Current(max) \in Seq(Contents)
        /\ Len(Current(max)) \in 0..max
    BY <1>0, CurrentType
  <2>2. pos' \in 0..LogBlockNbr
    <3>1. /\ pos \in 0..LogBlockNbr /\ EndBlock \in 0..LogBlockNbr
          /\ max = EndBlock - pos
      BY <1>0, <1>4 DEF Read, SdTypeOK
    <3>2. pos' = pos \/ pos' = pos + Len(Current(max))
      BY <1>4 DEF Read
    <3> QED
      BY <3>1, <3>2, <2>1
  <2>3. out' \in [at : Nat, data : Seq(Contents)]
    BY <1>0, <1>4, <2>1 DEF Read, SdTypeOK
  <2>4. pCacheLen' \in [{0, 1} -> 0..CacheBlocks] /\ CurCacheSn' \in {0, 1}
    BY <1>0, <1>4 DEF Read, OtherCache, SdTypeOK
  <2>5. trust' \in BOOLEAN /\ window' \in BOOLEAN
    BY <1>0, <1>4 DEF Read, SdTypeOK
  <2>6. /\ turn' = "fetch"
        /\ UNCHANGED <<card, isReady, CurBlock, EndBlock, PreCurBlock,
                       PreEndBlock, pCache, CacheBuf, want, storeVars, errors,
                       dirty>>
    BY <1>4 DEF Read
  <2> QED
    BY <1>0, <1>a, <2>2, <2>3, <2>4, <2>5, <2>6 DEF SdTypeOK, storeVars
<1>5. ASSUME NEW p \in Contents, Write(p)
      PROVE  SdTypeOK'
  <2> DEFINE ps == Append(CacheBuf.data, p)
  <2>1. ps \in Seq(Contents)
    BY <1>0 DEF SdTypeOK
  <2>2. UNCHANGED <<card, isReady, cacheVars, want, writing, errors, pos, lost,
                    window, trust, out>>
    BY <1>5 DEF Write
  <2>3. CASE HandOver(Joined(ps))
    <3>1. turn = "write"
      BY <1>5 DEF Write
    <3>2. /\ Joined(ps) \in [at : Nat, data : Seq(Contents)]
          /\ Span(Joined(ps)) \subseteq Blks
      BY <1>0, <2>1, <3>1, JoinedType
    <3> HIDE DEF ps
    <3>3. \A b \in Span(Joined(ps)) : At(Joined(ps), b) \in Contents
      BY <3>2 DEF Span, At
    <3>4. disk' \in [Blks -> Contents]
      BY <1>0, <2>3, <3>3 DEF HandOver, SdTypeOK
    <3>5. queue' \in Seq([at : Nat, data : Seq(Contents)])
      BY <1>0, <2>3, <3>2 DEF HandOver, SdTypeOK
    <3>6. /\ dirty' \subseteq Blks /\ turn' = "free"
          /\ CacheBuf' \in [data : Seq(Contents), max : Nat]
      BY <1>0, <2>3, <3>2 DEF HandOver, Empty, SdTypeOK
    <3> QED
      BY <1>0, <1>a, <2>2, <3>4, <3>5, <3>6 DEF SdTypeOK, cacheVars
  <2>4. CASE /\ CacheBuf' = [CacheBuf EXCEPT !.data = ps]
             /\ UNCHANGED <<queue, disk, dirty, turn>>
    <3>1. CacheBuf' \in [data : Seq(Contents), max : Nat]
      BY <1>0, <2>1, <2>4 DEF SdTypeOK
    <3> HIDE DEF ps
    <3> QED
      BY <1>0, <1>a, <2>2, <2>4, <3>1 DEF SdTypeOK, cacheVars
  <2> QED
    BY <1>5, <2>3, <2>4 DEF Write
<1>6. ASSUME ReInit
      PROVE  SdTypeOK'
  BY <1>0, <1>6, <1>a DEF ReInit, SdTypeOK, cacheVars, storeVars
<1>7. ASSUME ReadBlocks
      PROVE  SdTypeOK'
  <2>1. pCache' \in Caches
    <3>1. want.n \in 0..CacheBlocks
      BY <1>0 DEF SdTypeOK
    <3> QED
      BY <1>0, <1>7, <3>1, FilledType DEF ReadBlocks
  <2>2. /\ isReady' \in BOOLEAN /\ errors' \in 0..MaxErrors
        /\ AfterRead(TRUE)
    BY <1>0, <1>7 DEF ReadBlocks, SdTypeOK
  <2> QED
    BY <1>0, <1>b, <2>1, <2>2, AfterReadType
<1>8. ASSUME NEW k \in 0..CacheBlocks, ReadFails(k)
      PROVE  SdTypeOK'
  <2>1. pCache' \in Caches
    BY <1>0, <1>8, FilledType DEF ReadFails
  <2>2. isReady' \in BOOLEAN /\ AfterRead(FALSE)
    BY <1>8 DEF ReadFails
  <2>3. errors' \in 0..MaxErrors
    BY <1>0, <1>8 DEF ReadFails, SdTypeOK
  <2> QED
    BY <1>0, <1>b, <2>1, <2>2, <2>3, AfterReadType, FALSE \in BOOLEAN
<1>9. ASSUME ReadGivesUp
      PROVE  SdTypeOK'
  <2>1. pCache' \in Caches /\ isReady' \in BOOLEAN /\ AfterRead(FALSE)
    BY <1>0, <1>9 DEF ReadGivesUp, SdTypeOK
  <2>2. errors' \in 0..MaxErrors
    BY <1>0, <1>9 DEF ReadGivesUp, SdTypeOK
  <2> QED
    BY <1>0, <1>b, <2>1, <2>2, AfterReadType, FALSE \in BOOLEAN
<1>10. ASSUME StartWrite
       PROVE  SdTypeOK'
  BY <1>0, <1>10, <1>a DEF StartWrite, SdTypeOK, cacheVars
<1>11. ASSUME writing, NEW k \in Nat, card' = Wrote(k),
              lost' \in {lost \ Span(Head(queue)), lost \union Span(Head(queue))},
              isReady' \in BOOLEAN, errors' \in 0..MaxErrors, EndWrite
       PROVE  SdTypeOK'
  <2>1. /\ queue # <<>>
        /\ Head(queue) = queue[1] /\ 1 \in 1..Len(queue)
        /\ Tail(queue) \in Seq([at : Nat, data : Seq(Contents)])
    BY <1>0, <1>11 DEF WritingSome, SdTypeOK
  <2>2. card' \in [Blks -> Contents]
    BY <1>0, <1>11, <2>1, WroteType
  <2>3. lost' \subseteq Blks
    BY <1>0, <1>11, <2>1 DEF QueueLastWins, SdTypeOK
  <2> QED
    BY <1>0, <1>a, <1>11, <2>1, <2>2, <2>3 DEF EndWrite, SdTypeOK, cacheVars
<1>12. ASSUME WriteBlocks
       PROVE  SdTypeOK'
  <2>1. Len(Head(queue).data) \in Nat
    BY <1>0, <1>12 DEF WriteBlocks, WritingSome, SdTypeOK
  <2> QED
    BY <1>0, <1>11, <1>12, <2>1 DEF WriteBlocks, SdTypeOK
<1>13. ASSUME NEW k \in Blks, WriteFails(k)
       PROVE  SdTypeOK'
  <2>1. k \in Nat /\ errors' \in 0..MaxErrors
    BY <1>0, <1>13 DEF WriteFails, SdTypeOK, Blks
  <2> QED
    BY <1>11, <1>13, <2>1 DEF WriteFails
<1> QED
  BY <1>1, <1>2, <1>3, <1>4, <1>5, <1>6, <1>7, <1>8, <1>9, <1>10, <1>12, <1>13
     DEF SdNext, CardStep
-----------------------------------------------------------------------------
(***************************************************************************)
(* The writing half: a write that is handed over goes behind all others,   *)
(* one that is over was in front of them.                                  *)
(***************************************************************************)
LEMMA StoredHandOver ==
  ASSUME SdTypeOK, Stored,
         NEW e \in [at : Nat, data : Seq(Contents)], Span(e) \subseteq Blks,
         HandOver(e), UNCHANGED <<card, lost, writing>>
  PROVE  Stored'
<1> DEFINE E == [at : Nat, data : Seq(Contents)]
<1>1. queue \in Seq(E) /\ Len(queue) \in Nat
  BY DEF SdTypeOK
<1>2. /\ queue' = Append(queue, e)
      /\ disk' = [b \in Blks |-> IF b \in Span(e) THEN At(e, b) ELSE disk[b]]
      /\ dirty' = dirty \union Span(e)
  BY DEF HandOver
<1>3. /\ Len(queue') = Len(queue) + 1 /\ queue'[Len(queue) + 1] = e
      /\ \A i \in 1..Len(queue) : queue'[i] = queue[i]
  BY <1>1, <1>2
<1>4. Blks' = Blks /\ Queued' = Queued \union Span(e)
  <2>1. \A b : b \in Queued <=> \E i \in 1..Len(queue) : b \in Span(queue[i])
    BY DEF Queued
  <2>2. \A b : b \in Queued' <=> \E i \in 1..Len(queue') : b \in Span(queue'[i])
    BY DEF Queued, Span
  <2>3. \A i : i \in 1..Len(queue') <=> i \in 1..Len(queue) \/ i = Len(queue) + 1
    BY <1>1, <1>3
  <2>4. \A b : b \in Queued' <=> b \in Queued \/ b \in Span(e)
    BY <1>3, <2>1, <2>2, <2>3
  <2> QED
    BY <2>4 DEF Blks
<1>5. QueueLastWins'
  <2>1. SUFFICES ASSUME NEW i \in 1..Len(queue')
                 PROVE  /\ Span(queue'[i]) \subseteq Blks
                        /\ \A b \in Span(queue'[i]) :
                             LastOf(b, i)' => At(queue'[i], b) = disk'[b]
    BY <1>4 DEF QueueLastWins, Span, At
  <2>2. CASE i = Len(queue) + 1
    BY <1>2, <1>3, <2>2
  <2>3. CASE i \in 1..Len(queue)
    <3>1. queue'[i] = queue[i] /\ Span(queue[i]) \subseteq Blks
      BY <1>3, <2>3 DEF Stored, QueueLastWins
    <3>2. ASSUME NEW b \in Span(queue[i]), LastOf(b, i)'
          PROVE  At(queue[i], b) = disk'[b]
      <4>1. b \notin Span(queue'[Len(queue) + 1])
        <5>1. Len(queue) + 1 \in (i + 1)..Len(queue')
          BY <1>1, <1>3, <2>3
        <5> QED
          BY <3>2, <5>1 DEF LastOf, Span
      <4>2. LastOf(b, i)
        <5>1. \A j \in (i + 1)..Len(queue') : b \notin Span(queue'[j])
          BY <3>2 DEF LastOf, Span
        <5> QED
          BY <1>1, <1>3, <2>3, <5>1 DEF LastOf
      <4>3. b \in Blks /\ disk'[b] = disk[b]
        BY <1>2, <1>3, <3>1, <4>1
      <4> QED
        BY <2>3, <4>2, <4>3 DEF Stored, QueueLastWins
    <3> QED
      BY <3>1, <3>2
  <2> QED
    BY <1>1, <1>3, <2>2, <2>3
<1>6. CardFollows'
  BY <1>2, <1>4 DEF Stored, CardFollows
<1>7. DirtyCovers' /\ WritingSome'
  <2>1. queue' # <<>>
    BY <1>1, <1>3
  <2> QED
    BY <1>2, <1>4, <2>1 DEF Stored, DirtyCovers, WritingSome
<1> QED
  BY <1>5, <1>6, <1>7 DEF Stored

(* The first write is over: the first k blocks of it are on the card, and  *)
(* unless that is all of them its blocks are lost.                         *)
LEMMA StoredEndWrite ==
  ASSUME SdTypeOK, Stored, writing, EndWrite, NEW k \in Nat, card' = Wrote(k),
         \/ /\ k = Len(Head(queue).data)
            /\ lost' = lost \ Span(Head(queue))
         \/ lost' = lost \union Span(Head(queue))
  PROVE  Stored'
<1> DEFINE E == [at : Nat, data : Seq(Contents)]
<1> DEFINE e == Head(queue)
<1>0. queue \in Seq(E) /\ queue # <<>>
  BY DEF SdTypeOK, Stored, WritingSome
<1>1. /\ e = queue[1] /\ 1 \in 1..Len(queue) /\ e \in E
      /\ Len(queue) \in Nat
  BY <1>0, HeadTail
<1>2. /\ queue' = Tail(queue) /\ ~writing'
      /\ UNCHANGED <<disk, dirty>>
  BY DEF EndWrite
<1>3. /\ Len(queue') = Len(queue) - 1
      /\ \A i \in 1..(Len(queue) - 1) : queue'[i] = queue[i + 1]
  BY <1>0, <1>2, HeadTail
<1> HIDE DEF E, e
<1>4. Blks' = Blks /\ Queued' \subseteq Queued /\ Queued \subseteq Queued' \union Span(e)
  <2>1. \A j \in 1..Len(queue) : j = 1 \/ (j - 1 \in 1..Len(queue') /\ queue'[j - 1] = queue[j])
    BY <1>1, <1>3
  <2>2. \A i \in 1..Len(queue') : i + 1 \in 1..Len(queue) /\ queue'[i] = queue[i + 1]
    BY <1>1, <1>3
  <2>3. \A b : b \in Queued <=> \E i \in 1..Len(queue) : b \in Span(queue[i])
    BY DEF Queued
  <2>4. \A b : b \in Queued' <=> \E i \in 1..Len(queue') : b \in Span(queue'[i])
    BY DEF Queued, Span
  <2>5. \A b : b \in Queued' => b \in Queued
    BY <2>2, <2>3, <2>4
  <2>6. \A b : b \in Queued => b \in Queued' \/ b \in Span(e)
    BY <1>1, <2>1, <2>3, <2>4
  <2> QED
    BY <2>5, <2>6 DEF Blks
<1>5. QueueLastWins'
  <2>1. SUFFICES ASSUME NEW i \in 1..Len(queue')
                 PROVE  /\ Span(queue'[i]) \subseteq Blks
                        /\ \A b \in Span(queue'[i]) :
                             LastOf(b, i)' => At(queue'[i], b) = disk'[b]
    BY <1>4 DEF QueueLastWins, Span, At
  <2>2. i + 1 \in 1..Len(queue) /\ queue'[i] = queue[i + 1]
    BY <1>1, <1>3
  <2>3. ASSUME NEW b, LastOf(b, i)'
        PROVE  LastOf(b, i + 1)
    <3>1. \A j \in (i + 1)..Len(queue') : b \notin Span(queue'[j])
      BY <2>3 DEF LastOf, Span
    <3>2. \A j \in ((i + 1) + 1)..Len(queue) :
            j - 1 \in (i + 1)..Len(queue') /\ queue'[j - 1] = queue[j]
      BY <1>1, <1>3
    <3>3. \A j \in ((i + 1) + 1)..Len(queue) : b \notin Span(queue[j])
      BY <3>1, <3>2
    <3> QED
      BY <3>3 DEF LastOf
  <2> QED
    BY <1>2, <2>2, <2>3 DEF Stored, QueueLastWins
<1>6. CardFollows'
  <2>1. SUFFICES ASSUME NEW b \in Blks \ (Queued' \union lost')
                 PROVE  card'[b] = disk'[b]
    BY <1>4 DEF CardFollows
  <2>2. card'[b] = IF b \in Span(e) /\ b < e.at + k THEN At(e, b) ELSE card[b]
    BY DEF Wrote, e
  <2>3. CASE b \in Span(e)
    <3>1. k = Len(e.data)
      BY <2>1, <2>3 DEF e
    <3>2. b < e.at + k
      BY <1>1, <2>1, <2>3, <3>1 DEF Span, Blks, E
    <3>3. LastOf(b, 1)
      <4>1. \A j \in 2..Len(queue) : j - 1 \in 1..Len(queue') /\ queue'[j - 1] = queue[j]
        BY <1>1, <1>3
      <4>2. \A j \in 1..Len(queue') : b \notin Span(queue'[j])
        BY <2>1 DEF Queued, Span
      <4> QED
        BY <4>1, <4>2 DEF LastOf
    <3>4. At(e, b) = disk[b]
      BY <1>1, <2>3, <3>3 DEF Stored, QueueLastWins
    <3> QED
      BY <1>2, <2>2, <2>3, <3>2, <3>4
  <2>4. CASE b \notin Span(e)
    <3>1. b \notin Queued /\ b \notin lost
      BY <1>4, <2>1, <2>4 DEF e
    <3> QED
      BY <1>2, <2>2, <2>4, <3>1 DEF Stored, CardFollows
  <2> QED
    BY <2>3, <2>4
<1>7. DirtyCovers' /\ WritingSome'
  <2>1. Span(e) \subseteq Queued
    BY <1>1 DEF Queued
  <2>2. lost' \subseteq lost \union Span(e)
    BY DEF e
  <2> QED
    BY <1>2, <1>4, <2>1, <2>2 DEF Stored, DirtyCovers, WritingSome
<1> QED
  BY <1>5, <1>6, <1>7 DEF Stored

LEMMA StoredSame ==
  ASSUME Stored, UNCHANGED <<card, disk, queue, lost>>,
         Queued \union lost \subseteq dirty', writing' => queue # <<>>
  PROVE  Stored'
  BY DEF Stored, QueueLastWins, LastOf, CardFollows, DirtyCovers, WritingSome,
         Queued, Span, At, Blks
LEMMA StoredStep ==
  ASSUME SdInv, SdNext
  PROVE  Stored'
<1>0. SdTypeOK /\ Stored /\ WantIsNext /\ WriteFits
  BY DEF SdInv, Stored
<1>1. ASSUME NEW a \in Blks, NEW n \in 1..LogBlockNbr, PreRead(a, n)
      PROVE  Stored'
  BY <1>0, <1>1, StoredSame
     DEF PreRead, storeVars, Stored, DirtyCovers, WritingSome
<1>2. ASSUME NEW a \in Blks, NEW n \in 1..LogBlockNbr, PreWrite(a, n)
      PROVE  Stored'
  BY <1>0, <1>2, StoredSame
     DEF PreWrite, storeVars, Stored, DirtyCovers, WritingSome
<1>3. ASSUME ReadNext
      PROVE  Stored'
  BY <1>0, <1>3, StoredSame
     DEF ReadNext, storeVars, Stored, DirtyCovers, WritingSome
<1>4. ASSUME NEW max \in 0..LogBlockNbr, Read(max)
      PROVE  Stored'
  BY <1>0, <1>4, StoredSame
     DEF Read, storeVars, Stored, DirtyCovers, WritingSome
<1>5. ASSUME NEW p \in Contents, Write(p)
      PROVE  Stored'
  <2> DEFINE ps == Append(CacheBuf.data, p)
  <2>1. ps \in Seq(Contents)
    BY <1>0 DEF SdTypeOK
  <2>2. UNCHANGED <<card, writing, lost>> /\ turn = "write"
    BY <1>5 DEF Write
  <2>3. CASE HandOver(Joined(ps))
    <3>1. /\ Joined(ps) \in [at : Nat, data : Seq(Contents)]
          /\ Span(Joined(ps)) \subseteq Blks
      BY <1>0, <2>1, <2>2, JoinedType
    <3> HIDE DEF ps
    <3> QED
      BY <1>0, <2>2, <2>3, <3>1, StoredHandOver
  <2>4. CASE UNCHANGED <<queue, disk, dirty>>
    BY <1>0, <2>2, <2>4, StoredSame DEF Stored, DirtyCovers, WritingSome
  <2> QED
    BY <1>5, <2>3, <2>4 DEF Write
<1>6. ASSUME ReInit
      PROVE  Stored'
  BY <1>0, <1>6, StoredSame
     DEF ReInit, storeVars, Stored, DirtyCovers, WritingSome
<1>7. ASSUME NEW good \in BOOLEAN, AfterRead(good)
      PROVE  Stored'
  <2>1. Queued \union lost \subseteq dirty'
    BY <1>0, <1>7 DEF AfterRead, Stored, DirtyCovers
  <2> QED
    BY <1>0, <1>7, <2>1, StoredSame DEF AfterRead, storeVars, Stored, WritingSome
<1>8. ASSUME ReadBlocks \/ ReadGivesUp \/ \E k \in 0..CacheBlocks : ReadFails(k)
      PROVE  Stored'
  BY <1>7, <1>8, TRUE \in BOOLEAN, FALSE \in BOOLEAN
     DEF ReadBlocks, ReadGivesUp, ReadFails
<1>9. ASSUME StartWrite
      PROVE  Stored'
  BY <1>0, <1>9, StoredSame DEF StartWrite, Stored, DirtyCovers
<1>10. ASSUME WriteBlocks
       PROVE  Stored'
  <2>1. queue # <<>> /\ queue \in Seq([at : Nat, data : Seq(Contents)])
    BY <1>0, <1>10 DEF WriteBlocks, Stored, WritingSome, SdTypeOK
  <2>2. Len(Head(queue).data) \in Nat
    BY <2>1, HeadTail
  <2> QED
    BY <1>0, <1>10, <2>2, StoredEndWrite DEF WriteBlocks
<1>11. ASSUME NEW k \in Blks, WriteFails(k)
       PROVE  Stored'
  <2>1. k \in Nat
    BY SdhcAssumption DEF SdhcAssumption, Blks
  <2> QED
    BY <1>0, <1>11, <2>1, StoredEndWrite DEF WriteFails
<1> QED
  BY <1>1, <1>2, <1>3, <1>4, <1>5, <1>6, <1>8, <1>9, <1>10, <1>11
     DEF SdNext, CardStep

-----------------------------------------------------------------------------
(***************************************************************************)
(* The reading half.                                                       *)
(***************************************************************************)
(* Where the transfer and the caches are is left alone, and what changes   *)
(* of the disk is dirty.                                                   *)
LEMMA CachedSame ==
  ASSUME SdTypeOK, Cached,
         UNCHANGED <<CurBlock, EndBlock, PreCurBlock, PreEndBlock, CurCacheSn,
                     pCache, pCacheLen, CacheBuf, want, turn, pos, window,
                     trust>>,
         dirty \subseteq dirty',
         \A b \in Blks \ dirty' : disk'[b] = disk[b]
  PROVE  Cached'
<1>1. ASSUME NEW a \in Nat, NEW n \in Nat, Holds(a, n)
      PROVE  Holds(a, n)'
  <2>1. \A i \in 0..(n - 1) : a + i < LogBlockNbr => a + i \in Blks
    BY SdhcAssumption DEF SdhcAssumption, Blks
  <2> QED
    BY <1>1, <2>1 DEF Holds
<1>2. PreCurBlock \in Nat /\ CacheBlocks \in Nat /\ pos \in Nat
      /\ pCacheLen[CurCacheSn] \in Nat
  BY SdhcAssumption DEF SdhcAssumption, SdTypeOK
<1>3. WindowIsDisk'
  <2>1. Holds(PreCurBlock, CacheBlocks) => Holds(PreCurBlock, CacheBlocks)'
    BY <1>1, <1>2 DEF Holds
  <2> QED
    BY <2>1 DEF Cached, WindowIsDisk
<1>4. TakeIsDisk'
  <2>1. Holds(pos, pCacheLen[CurCacheSn]) => Holds(pos, pCacheLen[CurCacheSn])'
    BY <1>1, <1>2 DEF Holds
  <2> QED
    BY <2>1 DEF Cached, TakeIsDisk
<1>5. FetchIsNext' /\ PastIsOver' /\ WantIsNext' /\ WriteFits'
  BY DEF Cached, FetchIsNext, PastIsOver, WantIsNext, WriteFits, NextRead
<1> QED
  BY <1>3, <1>4, <1>5 DEF Cached

(* The blocks of a good read are the disk's but for the dirty ones.        *)
LEMMA GoodRead ==
  ASSUME SdTypeOK, Stored, NEW a \in Nat, NEW n \in Nat,
         want.at = a, want.n = n, There = n,
         pCache' = Filled(n), AfterRead(TRUE)
  PROVE  /\ pCacheLen'[CurCacheSn'] = n
         /\ Holds(a, n)'
<1>1. /\ LogBlockNbr \in Nat /\ CacheBlocks \in Nat
      /\ a \in 0..LogBlockNbr /\ n \in 0..CacheBlocks
      /\ CurCacheSn \in {0, 1}
      /\ pCache \in [{0, 1} -> [0..(CacheBlocks - 1) -> Contents]]
      /\ pCacheLen \in [{0, 1} -> 0..CacheBlocks]
  BY SdhcAssumption DEF SdhcAssumption, SdTypeOK, Caches
<1>2. /\ CurCacheSn' = CurCacheSn /\ disk' = disk
      /\ pCacheLen' = [pCacheLen EXCEPT ![CurCacheSn] = n]
      /\ Queued \union lost \subseteq dirty'
  BY DEF AfterRead, storeVars, Stored, DirtyCovers
<1>3. a + n <= LogBlockNbr
  BY <1>1 DEF There
<1>4. ASSUME NEW i \in 0..(n - 1)
      PROVE  /\ a + i < LogBlockNbr
             /\ a + i \notin dirty' =>
                  pCache'[CurCacheSn][i] = disk[a + i]
  <2>1. a + i \in Blks /\ a + i < LogBlockNbr
    BY <1>1, <1>3 DEF Blks
  <2>2. pCache'[CurCacheSn][i] = card[a + i]
    BY <1>1 DEF Filled
  <2> QED
    BY <1>2, <2>1, <2>2 DEF Stored, CardFollows
<1> QED
  BY <1>1, <1>2, <1>4 DEF Holds

LEMMA CachedRead ==
  ASSUME SdInv, want.n > 0, NEW good \in BOOLEAN, AfterRead(good),
         good => There = want.n /\ pCache' = Filled(want.n)
  PROVE  Cached'
<1> USE SdhcAssumption DEF SdhcAssumption
<1>0. SdTypeOK /\ Stored /\ Cached
  BY DEF SdInv, Stored, Cached
<1>1. /\ turn = "fetch" /\ want = NextRead(CurBlock, EndBlock) /\ ~window
      /\ want'.n = 0
  BY <1>0 DEF Cached, WantIsNext, AfterRead, NoRead
<1>1a. trust => pos = Least(CurBlock, EndBlock)
  BY <1>0, <1>1 DEF Cached, FetchIsNext
<1>2. /\ CurBlock \in Nat /\ EndBlock \in Nat /\ pos \in Nat
      /\ want.at \in Nat /\ want.n \in Nat /\ CacheBlocks \in Nat
  BY <1>0 DEF SdTypeOK
<1>3. CASE want.ahead
  <2>1. /\ EndBlock <= CurBlock /\ want.at = EndBlock /\ want.n = CacheBlocks
    BY <1>1, <1>2, <1>3 DEF NextRead
  <2>2. /\ PreCurBlock' = EndBlock /\ PreEndBlock' = EndBlock + CacheBlocks
        /\ turn' = "past" /\ window' = good /\ EndBlock' = EndBlock
        /\ pos' = pos /\ trust' = (trust /\ good)
    BY <1>3 DEF AfterRead
  <2>3. WindowIsDisk'
    <3>1. SUFFICES ASSUME good PROVE WindowIsDisk'
      BY <2>2 DEF WindowIsDisk
    <3>2. AfterRead(TRUE) /\ There = CacheBlocks /\ pCache' = Filled(CacheBlocks)
      BY <2>1, <3>1
    <3>3. /\ pCacheLen'[CurCacheSn'] = CacheBlocks
          /\ Holds(EndBlock, CacheBlocks)'
      <4>1. \A a \in Nat : want.at = a =>
              pCacheLen'[CurCacheSn'] = CacheBlocks /\ Holds(a, CacheBlocks)'
        BY <1>0, <1>2, <2>1, <3>2, GoodRead
      <4> QED
        BY <1>2, <2>1, <2>2, <4>1 DEF Holds
    <3> QED
      BY <2>2, <3>3 DEF WindowIsDisk, Holds
  <2>4. PastIsOver'
    <3>1. Least(CurBlock, EndBlock) = EndBlock
      BY <1>2, <2>1 DEF Least
    <3> QED
      BY <1>1a, <2>2, <3>1 DEF PastIsOver
  <2> QED
    BY <1>1, <2>2, <2>3, <2>4
       DEF Cached, TakeIsDisk, FetchIsNext, WantIsNext, WriteFits
<1>4. CASE ~want.ahead
  <2>1. /\ CurBlock < EndBlock /\ want.at = CurBlock
    BY <1>1, <1>2, <1>4 DEF NextRead
  <2>2. /\ CurBlock' = CurBlock + want.n /\ turn' = "take"
        /\ ~window' /\ pos' = pos /\ trust' = (trust /\ good)
    BY <1>1, <1>4 DEF AfterRead
  <2>3. TakeIsDisk'
    <3>1. SUFFICES ASSUME trust' PROVE TakeIsDisk'
      BY DEF TakeIsDisk
    <3>0. Least(CurBlock, EndBlock) = CurBlock
      BY <1>2, <2>1 DEF Least
    <3>2. good /\ trust /\ pos = CurBlock
      BY <1>1a, <2>2, <3>0, <3>1
    <3>3. AfterRead(TRUE)
      BY <3>2
    <3>4. \A a \in Nat, n \in Nat : want.at = a /\ want.n = n =>
            pCacheLen'[CurCacheSn'] = n /\ Holds(a, n)'
      BY <1>0, <3>2, <3>3, GoodRead
    <3>5. pos' = want.at /\ pCacheLen'[CurCacheSn'] = want.n
      BY <1>2, <2>1, <2>2, <3>2, <3>4
    <3>6. Holds(pos, pCacheLen[CurCacheSn])'
      <4>1. \A a \in Nat, n \in Nat : pos' = a /\ pCacheLen'[CurCacheSn'] = n
              => Holds(a, n)'
        BY <3>4, <3>5
      <4> QED
        BY <1>2, <3>5, <4>1 DEF Holds
    <3> QED
      BY <1>2, <2>1, <2>2, <3>2, <3>5, <3>6 DEF TakeIsDisk
  <2> QED
    BY <1>1, <2>2, <2>3
       DEF Cached, WindowIsDisk, FetchIsNext, PastIsOver, WantIsNext, WriteFits
<1> QED
  BY <1>3, <1>4

LEMMA CachedStep ==
  ASSUME SdInv, SdNext
  PROVE  Cached'
<1> USE SdhcAssumption DEF SdhcAssumption
<1>0. SdTypeOK /\ Cached
  BY DEF SdInv, Cached
<1>a. /\ CurBlock \in Nat /\ EndBlock \in Nat /\ pos \in Nat
      /\ CacheBlocks \in Nat /\ pCacheLen[CurCacheSn] \in 0..CacheBlocks
  BY <1>0 DEF SdTypeOK
<1>1. ASSUME NEW a \in Blks, NEW n \in 1..LogBlockNbr, PreRead(a, n)
      PROVE  Cached'
  <2>1. a \in Nat /\ n \in Nat /\ 0 < n
    BY DEF Blks
  <2>2. /\ want.n = 0 /\ EndBlock' = a + n /\ pos' = a
        /\ UNCHANGED <<PreCurBlock, PreEndBlock, CurCacheSn, pCache, pCacheLen,
                       disk, dirty>>
    BY <1>1 DEF PreRead, storeVars
  <2>3. CASE Hit(a)
    <3>1. /\ CurBlock' = PreEndBlock /\ want' = want /\ turn' = "take"
          /\ trust' = window /\ window' = window /\ PreCurBlock = a
      BY <1>1, <2>3 DEF PreRead, Hit
    <3>2. WindowIsDisk'
      BY <1>0, <2>2, <3>1 DEF Cached, WindowIsDisk, Holds
    <3>3. TakeIsDisk'
      BY <1>0, <2>2, <3>1 DEF Cached, WindowIsDisk, TakeIsDisk, Holds
    <3> QED
      BY <2>2, <3>1, <3>2, <3>3
         DEF Cached, FetchIsNext, PastIsOver, WantIsNext, WriteFits
  <2>4. CASE ~Hit(a)
    <3>1. /\ CurBlock' = a /\ want' = NextRead(a, a + n) /\ turn' = "fetch"
          /\ window' = FALSE
      BY <1>1, <2>4 DEF PreRead
    <3>2. FetchIsNext'
      BY <2>1, <2>2, <3>1 DEF FetchIsNext, Least
    <3>3. WantIsNext'
      BY <2>2, <3>1 DEF WantIsNext, NextRead
    <3> QED
      BY <3>1, <3>2, <3>3
         DEF Cached, WindowIsDisk, TakeIsDisk, PastIsOver, WriteFits
  <2> QED
    BY <2>3, <2>4
<1>2. ASSUME NEW a \in Blks, NEW n \in 1..LogBlockNbr, PreWrite(a, n)
      PROVE  Cached'
  <2>1. a \in Nat /\ n \in Nat /\ 0 < n
    BY DEF Blks
  <2>2. /\ want.n = 0 /\ want' = want /\ turn' = "write"
        /\ CurBlock' = a /\ EndBlock' = a + n
        /\ CacheBuf' = [data |-> <<>>, max |-> 2 * n]
        /\ UNCHANGED <<PreCurBlock, PreEndBlock, CurCacheSn, pCache, pCacheLen,
                       disk, dirty, window>>
    BY <1>2 DEF PreWrite, storeVars
  <2>3. WindowIsDisk'
    BY <1>0, <2>2 DEF Cached, WindowIsDisk, Holds
  <2>4. WriteFits'
    BY <2>1, <2>2 DEF WriteFits
  <2> QED
    BY <2>2, <2>3, <2>4
       DEF Cached, TakeIsDisk, FetchIsNext, PastIsOver, WantIsNext
<1>3. ASSUME ReadNext
      PROVE  Cached'
  <2>1. /\ turn = "fetch" /\ want' = NextRead(CurBlock, EndBlock)
        /\ UNCHANGED <<cacheVars, turn, pos, disk, dirty, window, trust,
                       CacheBuf>>
    BY <1>3 DEF ReadNext, storeVars
  <2>2. FetchIsNext' /\ WantIsNext'
    BY <1>0, <2>1 DEF Cached, FetchIsNext, WantIsNext, cacheVars, NextRead
  <2>3. WindowIsDisk'
    BY <1>0, <2>1 DEF Cached, WantIsNext, WindowIsDisk
  <2> QED
    BY <2>1, <2>2, <2>3 DEF Cached, TakeIsDisk, PastIsOver, WriteFits
<1>4. ASSUME NEW max \in 0..LogBlockNbr, Read(max)
      PROVE  Cached'
  <2>1. /\ want.n = 0 /\ turn \in {"take", "past"}
        /\ pos < EndBlock /\ max = EndBlock - pos
        /\ window' = FALSE /\ turn' = "fetch"
        /\ UNCHANGED <<CurBlock, EndBlock, want>>
    BY <1>4 DEF Read
  <2>2. FetchIsNext'
    <3>1. SUFFICES ASSUME trust' PROVE FetchIsNext'
      BY DEF FetchIsNext
    <3>2. trust /\ pos' = pos + Len(Current(max))
      BY <1>4, <3>1 DEF Read
    <3>3. turn = "take"
      <4>1. turn = "past" => pos = EndBlock
        BY <1>0, <3>2 DEF Cached, PastIsOver
      <4> QED
        BY <1>a, <2>1, <4>1
    <3>4. pos + pCacheLen[CurCacheSn] = CurBlock
      BY <1>0, <3>2, <3>3 DEF Cached, TakeIsDisk
    <3>5. Len(Current(max)) = Least(pCacheLen[CurCacheSn], max)
      <4>1. max \in Nat
        OBVIOUS
      <4> QED
        BY <1>0, <4>1, CurrentType
    <3> QED
      BY <1>a, <2>1, <3>2, <3>4, <3>5 DEF FetchIsNext, Least
  <2> QED
    BY <2>1, <2>2
       DEF Cached, WindowIsDisk, TakeIsDisk, PastIsOver, WantIsNext, WriteFits
<1>5. ASSUME NEW p \in Contents, Write(p)
      PROVE  Cached'
  <2> DEFINE e == Joined(Append(CacheBuf.data, p))
  <2>1. /\ want.n = 0 /\ turn = "write"
        /\ UNCHANGED <<cacheVars, want, pos, window, trust>>
    BY <1>5 DEF Write
  <2>2. CASE HandOver(e)
    <3> HIDE DEF e
    <3>1. /\ dirty \subseteq dirty' /\ turn' = "free"
          /\ \A b \in Blks \ dirty' : disk'[b] = disk[b]
      BY <2>2 DEF HandOver
    <3>2. WindowIsDisk'
      <4>1. \A i \in 0..(CacheBlocks - 1) :
              PreCurBlock + i < LogBlockNbr => PreCurBlock + i \in Blks
        BY <1>0 DEF SdTypeOK, Blks
      <4> QED
        BY <1>0, <2>1, <3>1, <4>1 DEF Cached, WindowIsDisk, Holds, cacheVars
    <3> QED
      BY <2>1, <3>1, <3>2
         DEF Cached, TakeIsDisk, FetchIsNext, PastIsOver, WantIsNext, WriteFits
  <2>3. CASE /\ CacheBuf' = [CacheBuf EXCEPT !.data = Append(CacheBuf.data, p)]
             /\ UNCHANGED <<queue, disk, dirty, turn>>
    <3>1. WindowIsDisk'
      BY <1>0, <2>1, <2>3 DEF Cached, WindowIsDisk, Holds, cacheVars
    <3>2. WriteFits'
      BY <1>0, <2>1, <2>3 DEF Cached, WriteFits, cacheVars, SdTypeOK
    <3> QED
      BY <2>1, <2>3, <3>1, <3>2
         DEF Cached, TakeIsDisk, FetchIsNext, PastIsOver, WantIsNext
  <2> QED
    BY <1>5, <2>2, <2>3 DEF Write
<1>6. ASSUME ReInit \/ StartWrite
      PROVE  Cached'
  BY <1>0, <1>6, CachedSame DEF ReInit, StartWrite, cacheVars, storeVars
<1>7. ASSUME ReadBlocks
      PROVE  Cached'
  BY <1>7, CachedRead, TRUE \in BOOLEAN DEF ReadBlocks
<1>8. ASSUME ReadGivesUp \/ \E k \in 0..CacheBlocks : ReadFails(k)
      PROVE  Cached'
  BY <1>8, CachedRead, FALSE \in BOOLEAN DEF ReadGivesUp, ReadFails
<1>9. ASSUME WriteBlocks \/ \E k \in Blks : WriteFails(k)
      PROVE  Cached'
  BY <1>0, <1>9, CachedSame DEF WriteBlocks, WriteFails, EndWrite, cacheVars
<1> QED
  BY <1>1, <1>2, <1>3, <1>4, <1>5, <1>6, <1>7, <1>8, <1>9 DEF SdNext, CardStep

-----------------------------------------------------------------------------
(***************************************************************************)
(* The theorems.                                                           *)
(***************************************************************************)
LEMMA SdInvStep == SdInv /\ [SdNext]_sdVars => SdInv'
<1> SUFFICES ASSUME SdInv, [SdNext]_sdVars PROVE SdInv'
  OBVIOUS
<1>1. CASE SdNext
  BY <1>1, TypeStep, StoredStep, CachedStep DEF SdInv, Stored, Cached
<1>2. CASE UNCHANGED sdVars
  <2>1. SdTypeOK /\ Stored /\ Cached
    BY DEF SdInv, Stored, Cached
  <2>2. SdTypeOK'
    BY <1>2, <2>1 DEF SdTypeOK, sdVars, cacheVars, storeVars, Caches, Blks
  <2>3. Stored'
    BY <1>2, <2>1, StoredSame
       DEF sdVars, cacheVars, storeVars, Stored, DirtyCovers, WritingSome
  <2>4. Cached'
    BY <1>2, <2>1, CachedSame DEF sdVars, cacheVars, storeVars
  <2> QED
    BY <2>2, <2>3, <2>4 DEF SdInv, Stored, Cached
<1> QED
  BY <1>1, <1>2

(* Whatever the size of the card and of the caches, and in whatever order  *)
(* the SCSI layer, the storage task and the failures of the card come: the *)
(* queue has the last contents of every block it will write, the card has  *)
(* those of every block it will not, and the caches hold what the transfer *)
(* takes them to hold (dev_sdhc_spi.c:123-239).                            *)
THEOREM SdInvariant == SdSpec => []SdInv
  BY InitSdInv, SdInvStep, PTL DEF SdSpec

LEMMA InitPromise == SdInit => Disk!PromiseInit
  BY DEF SdInit, Disk!PromiseInit

(* What neither writes nor hands out settles, or is a mishap.              *)
LEMMA Quietly ==
  ASSUME dirty \subseteq Blks, dirty' \subseteq dirty,
         trust \in BOOLEAN, trust' \in BOOLEAN, UNCHANGED <<disk, out>>
  PROVE  Disk!Settle \/ Disk!Mishap
<1>1. CASE trust'
  BY <1>1 DEF Disk!Settle
<1>2. CASE ~trust'
  BY <1>2 DEF Disk!Mishap, Disk!Blks, Blks
<1> QED
  BY <1>1, <1>2

LEMMA StepPromise ==
  ASSUME SdInv, SdInv', [SdNext]_sdVars
  PROVE  [Disk!PromiseNext]_(Disk!promiseVars)
<1> USE SdhcAssumption DEF SdhcAssumption
<1>0. SdTypeOK /\ Stored /\ Cached /\ Disk!Blks = Blks
  BY DEF SdInv, Stored, Cached, Disk!Blks, Blks
<1>a. /\ dirty \subseteq Blks /\ trust \in BOOLEAN /\ trust' \in BOOLEAN
      /\ disk' \in [Blks -> Contents]
      /\ out' \in [at : Nat, data : Seq(Contents)]
  BY <1>0 DEF SdInv, SdTypeOK, Blks
<1>b. ASSUME dirty' \subseteq dirty, UNCHANGED <<disk, out>>
      PROVE  Disk!PromiseNext
  BY <1>a, <1>b, Quietly DEF Disk!PromiseNext
<1>1. ASSUME NEW a \in Blks, NEW n \in 1..LogBlockNbr,
             PreRead(a, n) \/ PreWrite(a, n)
      PROVE  Disk!PromiseNext
  BY <1>1, <1>b DEF PreRead, PreWrite, storeVars
<1>2. ASSUME ReadNext \/ ReInit \/ StartWrite
      PROVE  Disk!PromiseNext
  BY <1>2, <1>b DEF ReadNext, ReInit, StartWrite, storeVars
<1>3. ASSUME NEW good \in BOOLEAN, AfterRead(good)
      PROVE  Disk!PromiseNext
  <2>1. dirty' \subseteq dirty
    BY <1>0, <1>3 DEF AfterRead, Stored, DirtyCovers
  <2> QED
    BY <1>3, <1>b, <2>1 DEF AfterRead, storeVars
<1>4. ASSUME ReadBlocks \/ ReadGivesUp \/ \E k \in 0..CacheBlocks : ReadFails(k)
      PROVE  Disk!PromiseNext
  BY <1>3, <1>4, TRUE \in BOOLEAN, FALSE \in BOOLEAN
     DEF ReadBlocks, ReadGivesUp, ReadFails
<1>5. ASSUME WriteBlocks \/ \E k \in Blks : WriteFails(k)
      PROVE  Disk!PromiseNext
  BY <1>5, <1>b DEF WriteBlocks, WriteFails, EndWrite
<1>6. ASSUME NEW max \in 0..LogBlockNbr, Read(max)
      PROVE  Disk!PromiseNext
  <2>1. CASE ~isReady
    BY <1>6, <1>b, <2>1 DEF Read, storeVars
  <2>2. CASE isReady
    <3>1. /\ out' = [at |-> pos, data |-> Current(max)]
          /\ trust' = trust /\ UNCHANGED <<disk, dirty>>
          /\ turn \in {"take", "past"} /\ pos < EndBlock /\ max = EndBlock - pos
      BY <1>6, <2>2 DEF Read, storeVars
    <3>2. /\ Len(Current(max)) = Least(pCacheLen[CurCacheSn], max)
          /\ Len(Current(max)) \in 0..max
          /\ \A i \in 1..Len(Current(max)) :
               Current(max)[i] = pCache[CurCacheSn][i - 1]
      <4>1. max \in Nat
        OBVIOUS
      <4> QED
        BY <1>0, <4>1, CurrentType
    <3>3. /\ pos \in Nat /\ EndBlock \in 0..LogBlockNbr
          /\ pCacheLen[CurCacheSn] \in 0..CacheBlocks
      BY <1>0 DEF SdTypeOK
    <3>4. \A b \in Disk!Span(out') :
            /\ b \in Blks /\ b - pos \in 0..(pCacheLen[CurCacheSn] - 1)
            /\ Disk!At(out', b) = pCache[CurCacheSn][b - pos]
      <4>1. SUFFICES ASSUME NEW b \in Disk!Span(out')
                     PROVE  /\ b \in Blks
                            /\ b - pos \in 0..(pCacheLen[CurCacheSn] - 1)
                            /\ Disk!At(out', b) = pCache[CurCacheSn][b - pos]
        OBVIOUS
      <4>2. b \in pos..(pos + Len(Current(max)) - 1)
        BY <3>1 DEF Disk!Span
      <4>3. /\ b \in Blks /\ b - pos \in 0..(pCacheLen[CurCacheSn] - 1)
            /\ b - pos + 1 \in 1..Len(Current(max))
        BY <3>1, <3>2, <3>3, <4>2 DEF Blks, Least
      <4>4. Disk!At(out', b) = Current(max)[b - pos + 1]
        BY <3>1 DEF Disk!At
      <4>5. (b - pos + 1) - 1 = b - pos
        BY <4>3, <3>3 DEF Blks
      <4> QED
        BY <3>2, <4>3, <4>4, <4>5
    <3>5. ASSUME trust, NEW b \in Disk!Span(out') \ dirty
          PROVE  Disk!At(out', b) = disk[b]
      <4>1. turn = "take"
        <5>1. turn = "past" => pos = EndBlock
          BY <1>0, <3>5 DEF Cached, PastIsOver
        <5> QED
          BY <3>1, <3>3, <5>1
      <4>2. Holds(pos, pCacheLen[CurCacheSn])
        BY <1>0, <3>5, <4>1 DEF Cached, TakeIsDisk
      <4>3. /\ b - pos \in 0..(pCacheLen[CurCacheSn] - 1) /\ pos + (b - pos) = b
            /\ Disk!At(out', b) = pCache[CurCacheSn][b - pos]
        BY <3>3, <3>4, <3>5 DEF Blks
      <4> QED
        BY <3>5, <4>2, <4>3 DEF Holds
    <3>6. Disk!Span(out') \subseteq Disk!Blks
      BY <1>0, <3>4
    <3>7. Disk!Serve
      <4>1. \A b \in Disk!Span(out') \ (IF trust THEN dirty ELSE Blks) :
              Disk!At(out', b) = disk[b]
        BY <3>4, <3>5
      <4> QED
        BY <1>a, <3>1, <3>6, <4>1 DEF Disk!Serve, Disk!Extents
    <3> QED
      BY <3>7 DEF Disk!PromiseNext
  <2> QED
    BY <2>1, <2>2
<1>7. ASSUME NEW p \in Contents, Write(p)
      PROVE  Disk!PromiseNext \/ UNCHANGED Disk!promiseVars
  <2> DEFINE e == Joined(Append(CacheBuf.data, p))
  <2>1. trust' = trust /\ out' = out /\ turn = "write"
    BY <1>7 DEF Write
  <2>2. CASE HandOver(e)
    <3>1. Append(CacheBuf.data, p) \in Seq(Contents)
      BY <1>0 DEF SdTypeOK
    <3>2. Span(e) \subseteq Blks
      BY <1>0, <2>1, <3>1, JoinedType DEF Cached
    <3> HIDE DEF e
    <3>3. /\ dirty' = dirty \union Span(e)
          /\ \A b \in Blks \ Span(e) : disk'[b] = disk[b]
      BY <2>2 DEF HandOver
    <3>4. Disk!Store
      <4>1. Span(e) \in SUBSET Disk!Blks /\ Disk!Blks' = Disk!Blks
        BY <1>0, <3>2
      <4> QED
        BY <1>0, <1>a, <2>1, <3>3, <4>1 DEF Disk!Store, Blks
    <3> QED
      BY <3>4 DEF Disk!PromiseNext
  <2>3. CASE UNCHANGED <<disk, dirty>>
    BY <1>b, <2>1, <2>3
  <2> QED
    BY <1>7, <2>2, <2>3 DEF Write
<1>8. CASE UNCHANGED sdVars
  BY <1>8 DEF sdVars, storeVars, Disk!promiseVars, Blks
<1> QED
  BY <1>1, <1>2, <1>4, <1>5, <1>6, <1>7, <1>8 DEF SdNext, CardStep

(* The disk keeps its promise, for every card and every order of calls: a  *)
(* read no mishap hits hands out each block as it was last written, unless *)
(* it was written since the last read-ahead (dev_sdhc_spi.c:123-239).      *)
THEOREM KeepsPromise == SdSpec => ImplementsDisk
<1>1. SdSpec => []SdInv
  BY SdInvariant
<1> QED
  BY <1>1, InitPromise, StepPromise, PTL
     DEF SdSpec, ImplementsDisk, Disk!PromiseSpec

-----------------------------------------------------------------------------
(***************************************************************************)
(* The USB disk over it.                                                   *)
(***************************************************************************)
LEMMA SizesType ==
  /\ LogBlockNbr \in Nat /\ CacheBlocks \in Nat
  /\ MaxCommands \in Nat /\ MaxTag \in Nat /\ MaxFaults \in Nat
  /\ Junk \in Contents
  /\ Commands \subseteq CBWs
<1>1. Commands \subseteq [op : Ops, at : Blks, n : 1..LogBlockNbr,
                          data : Contents, tag : {0}]
  BY MscAssumption DEF MscAssumption
<1>2. MaxTag \in Nat
  BY MscAssumption DEF MscAssumption
<1>3. Commands \subseteq CBWs
  BY <1>1, <1>2 DEF CBWs
<1> QED
  BY <1>2, <1>3, SdhcAssumption, MscAssumption
     DEF SdhcAssumption, MscAssumption

LEMMA InitMscType == Init => MscTypeOK
<1> SUFFICES ASSUME Init PROVE MscTypeOK
  OBVIOUS
<1>1. pMSC \in Control
  BY DEF Init, Control, Status
<1>2. events \in Seq(Event) /\ tx \in Sending
  BY DEF Init, Nothing, Sending
<1>3. host \in [st : {"idle", "out", "in", "status", "broken"},
                cmd : CBWs \union {NoCommand}, sent : Nat, got : Seq(Nat)]
  BY DEF Init
<1>4. /\ ReadTimer = FALSE /\ stall = FALSE /\ pc = "wait"
      /\ served = 0 /\ faults = 0
  BY DEF Init
<1>5. 0 \in Nat /\ 0 \in 0..MaxFaults
  BY SizesType
<1> QED
  BY <1>1, <1>2, <1>3, <1>4, <1>5, Zenon DEF MscTypeOK

(* What the task takes from its queue.                                     *)
LEMMA EventType ==
  ASSUME MscTypeOK, events # <<>>
  PROVE  /\ Tail(events) \in Seq(Event)
         /\ Head(events) \in Event
         /\ Head(events).kind = "cbw" => Head(events).cbw \in CBWs
         /\ Head(events).kind = "data" => Head(events).data \in Contents
         /\ Head(events).kind \in {"cbw", "data", "empty", "in"}
<1>1. Head(events) \in Event /\ Tail(events) \in Seq(Event)
  BY HeadTail DEF MscTypeOK
<1> QED
  BY <1>1 DEF Event

LEMMA LengthType ==
  ASSUME NEW c \in CBWs PROVE Length(c) \in Nat
<1>1. c.n \in Nat /\ c.n <= LogBlockNbr
  BY SizesType DEF CBWs
<1> QED
  BY <1>1 DEF Length

LEMMA CommandType ==
  ASSUME MscTypeOK, NEW ops, TakeCommand(ops)
  PROVE  /\ Command \in Control /\ Command.CBW = Head(events).cbw
         /\ Command.CBW \in CBWs
         /\ Length(Command.CBW) \in Nat
         /\ events' \in Seq(Event)
<1>1. /\ Head(events).cbw \in CBWs /\ Tail(events) \in Seq(Event)
      /\ events' = Tail(events)
  BY EventType DEF TakeCommand, Take
<1>2. Command \in Control /\ Command.CBW = Head(events).cbw
  BY <1>1 DEF MscTypeOK, Control, Command, Status
<1> QED
  BY <1>1, <1>2, LengthType

LEMMA CSWType ==
  ASSUME NEW m \in Control, SendCSW(m)
  PROVE  pMSC' \in Control /\ tx' \in Sending /\ ReadTimer' \in BOOLEAN
<1>1. m.CBW.tag \in 0..MaxTag
  BY SizesType DEF Control, CBWs, NoCommand
<1>2. pMSC' \in Control
  BY DEF SendCSW, Control
<1>3. tx' \in Sending
  BY <1>1 DEF SendCSW, Sending, Control
<1> QED
  BY <1>2, <1>3 DEF SendCSW

LEMMA FailedType ==
  ASSUME NEW m \in Control
  PROVE  /\ Failed(m) \in Control
         /\ \A s \in Status : [m EXCEPT !.CSWStatus = s] \in Control
         /\ \A x \in BOOLEAN : [m EXCEPT !.Sense = x] \in Control
  BY DEF Failed, Control, Status

LEMMA TxDataType ==
  ASSUME SdTypeOK, NEW m \in Control, Left(m) \in Nat,
         NEW rest \in Seq(Event), TxData(m, rest)
  PROVE  pMSC' \in Control /\ tx' \in Sending /\ events' \in Seq(Event)
<1> DEFINE n == Len(Current(Left(m)))
<1>1. n \in Nat
  BY CurrentType
<1>2. pMSC' = [m EXCEPT !.LastXferLen = 2 * n, !.BotState = "data_in"]
  BY DEF TxData
<1>3. pMSC' \in Control
  <2>1. 2 * n \in Nat
    BY <1>1
  <2> HIDE DEF n
  <2> QED
    BY <1>2, <2>1 DEF Control
<1>4. CASE n > 0
  <2>1. /\ tx' = [kind |-> "data", at |-> pos, n |-> n, sn |-> CurCacheSn]
        /\ events' = rest
    BY <1>4 DEF TxData
  <2>2. pos \in Nat /\ CurCacheSn \in {0, 1}
    BY SizesType DEF SdTypeOK
  <2> QED
    BY <1>1, <1>3, <2>1, <2>2 DEF Sending
<1>5. CASE ~(n > 0)
  <2>1. tx' = Nothing /\ events' = Append(rest, [kind |-> "in"])
    BY <1>5 DEF TxData
  <2>2. [kind |-> "in"] \in Event
    BY DEF Event
  <2> QED
    BY <1>3, <2>1, <2>2 DEF Sending, Nothing
<1> QED
  BY <1>4, <1>5

-----------------------------------------------------------------------------
(* The parts of the type invariant a step of the task may change.          *)
TaskTypes ==
  /\ pMSC \in Control /\ events \in Seq(Event) /\ tx \in Sending
  /\ ReadTimer \in BOOLEAN /\ stall \in BOOLEAN
  /\ pc \in {"wait", "again", "first", "next", "start", "rest"}

LEMMA TaskType ==
  ASSUME MscTypeOK, SdTypeOK, UsbTask
  PROVE  TaskTypes'
<1>0. TaskTypes
  BY DEF MscTypeOK, TaskTypes
<1>a. events # <<>> => Tail(events) \in Seq(Event)
  BY EventType
<1>b. Acked \in BOOLEAN
  BY <1>0, Zenon DEF Acked, TaskTypes
<1>c. pMSC \in Control
  BY <1>0 DEF TaskTypes
<1>1. CASE NotACommand
  <2>1. [[pMSC EXCEPT !.Sense = TRUE] EXCEPT !.CSWStatus = "failed"] \in Control
    BY <1>c DEF Control, Status
  <2>2. /\ SendCSW([[pMSC EXCEPT !.Sense = TRUE] EXCEPT !.CSWStatus = "failed"])
        /\ stall' = TRUE /\ events' = Tail(events) /\ events # <<>> /\ pc' = pc
    BY <1>1 DEF NotACommand, ErrorOut, Take
  <2> QED
    BY <1>0, <1>a, <2>1, <2>2, CSWType DEF TaskTypes
<1>2. CASE Refuse
  <2>1. /\ SendCSW(Failed(Command)) /\ pc' \in {"again", "wait"}
        /\ TakeCommand(Ops) /\ stall' \in {TRUE, Acked}
    BY <1>2 DEF Refuse, FailCommand
  <2>2. Failed(Command) \in Control /\ events' \in Seq(Event)
    BY <2>1, CommandType, FailedType
  <2> QED
    BY <1>b, <2>1, <2>2, CSWType DEF TaskTypes
<1>3. CASE Again
  <2>1. SendCSW([pMSC EXCEPT !.CSWStatus = "failed"]) /\ stall' = TRUE
        /\ pc' = "wait" /\ events' = events
    BY <1>3 DEF Again, ErrorOut
  <2>2. [pMSC EXCEPT !.CSWStatus = "failed"] \in Control
    BY <1>c DEF Control, Status
  <2> QED
    BY <1>0, <2>1, <2>2, CSWType DEF TaskTypes
<1>4. CASE NoData
  <2> DEFINE ops == {"test", "eject", "load", "lock", "unlock"}
             m == [Command EXCEPT !.Sense = FALSE,
                                  !.MediumState = Medium(Command.CBW.op)]
  <2>1. TakeCommand(ops) /\ SendCSW(m) /\ stall' = Acked /\ pc' = pc
    BY <1>4 DEF NoData
  <2>2. Command \in Control /\ events' \in Seq(Event)
    BY <2>1, CommandType
  <2>3. Medium(Command.CBW.op) \in {"unlocked", "locked", "ejected"}
    BY <1>c DEF Medium, Control
  <2>4. m \in Control
    BY <2>2, <2>3 DEF Control
  <2> QED
    BY <1>0, <1>b, <2>1, <2>2, <2>4, CSWType DEF TaskTypes
<1>5. CASE SendBotData
  <2>1. /\ TakeCommand({"sense"})
        /\ pMSC' = [Command EXCEPT !.Sense = FALSE, !.BotState = "data_in",
                                   !.XferTotalLen = 1, !.LastXferLen = 1]
        /\ tx' = [kind |-> "sense"] /\ stall' = Acked
        /\ UNCHANGED <<ReadTimer, pc>>
    BY <1>5 DEF SendBotData
  <2>2. Command \in Control /\ events' \in Seq(Event)
    BY <2>1, CommandType
  <2>3. pMSC' \in Control /\ tx' \in Sending
    BY <2>1, <2>2 DEF Control, Sending
  <2> QED
    BY <1>0, <1>b, <2>1, <2>2, <2>3 DEF TaskTypes
<1>6. CASE WriteCommand
  <2>1. /\ TakeCommand({"write"})
        /\ pMSC' = [Command EXCEPT !.Sense = FALSE, !.BotState = "data_out",
                                   !.XferTotalLen = Length(Command.CBW)]
        /\ stall' = Acked /\ UNCHANGED <<ReadTimer, tx, pc>>
    BY <1>6 DEF WriteCommand
  <2>2. /\ Command \in Control /\ events' \in Seq(Event)
        /\ Length(Command.CBW) \in Nat
    BY <2>1, CommandType
  <2>3. pMSC' \in Control
    BY <2>1, <2>2 DEF Control
  <2> QED
    BY <1>0, <1>b, <2>1, <2>2, <2>3 DEF TaskTypes
<1>7. CASE ReadCommand
  <2>1. /\ TakeCommand({"read"})
        /\ pMSC' = [Command EXCEPT !.XferTotalLen = Length(Command.CBW)]
        /\ stall' = Acked /\ pc' = "first" /\ UNCHANGED <<ReadTimer, tx>>
    BY <1>7 DEF ReadCommand
  <2>2. /\ Command \in Control /\ events' \in Seq(Event)
        /\ Length(Command.CBW) \in Nat
    BY <2>1, CommandType
  <2>3. pMSC' \in Control
    BY <2>1, <2>2 DEF Control
  <2> QED
    BY <1>0, <1>b, <2>1, <2>2, <2>3 DEF TaskTypes
<1>8. CASE ReadFirst
  <2>1. Left(pMSC) \in Nat
    BY <1>8, SizesType DEF ReadFirst, Read, SdTypeOK
  <2>2. CASE isReady
    <3>1. TxData(pMSC, events) /\ pc' = "next" /\ UNCHANGED <<ReadTimer, stall>>
      BY <1>8, <2>2 DEF ReadFirst
    <3> QED
      BY <1>0, <1>c, <2>1, <3>1, TxDataType DEF TaskTypes
  <2>3. CASE ~isReady
    <3>1. /\ SendCSW(Failed(pMSC)) /\ pc' \in {"again", "wait"}
          /\ UNCHANGED <<events, stall>>
      BY <1>8, <2>3 DEF ReadFirst, FailCommand
    <3> QED
      BY <1>0, <1>c, <3>1, FailedType, CSWType DEF TaskTypes
  <2> QED
    BY <2>2, <2>3
<1>9. CASE ReadAhead
  <2>1. /\ pc' \in {"start", "wait"}
        /\ UNCHANGED <<pMSC, ReadTimer, events, tx, stall>>
    BY <1>9 DEF ReadAhead, busVars
  <2> QED
    BY <1>0, <2>1 DEF TaskTypes
<1>10. CASE StartTimer
  <2>1. /\ pc' = "wait" /\ ReadTimer' = TRUE
        /\ pMSC' = [pMSC EXCEPT !.Sense = FALSE]
        /\ UNCHANGED <<events, tx, stall>>
    BY <1>10 DEF StartTimer, busVars
  <2> QED
    BY <1>0, <1>c, <2>1, FailedType DEF TaskTypes
<1>11. CASE ToDeviceData
  <2> DEFINE e == Head(events)
             fails == e.kind # "empty" /\ (~isReady \/ EndBlock <= CurBlock)
             done == pMSC.XferDoneLen + PacketLen(e)
             m == [IF fails THEN Failed(pMSC) ELSE pMSC
                     EXCEPT !.XferDoneLen = done]
  <2>1. /\ events' = Tail(events) /\ events # <<>>
        /\ UNCHANGED <<stall, pc>>
        /\ \/ SendCSW(m)
           \/ pMSC' = m /\ UNCHANGED <<tx, ReadTimer>>
    BY <1>11 DEF ToDeviceData, Take
  <2>2. done \in Nat
    BY <1>c DEF Control, PacketLen
  <2>3. Failed(pMSC) \in Control
    BY <1>c, FailedType
  <2>4. m \in Control
    <3> HIDE DEF done, fails
    <3> QED
      BY <1>c, <2>2, <2>3 DEF Control
  <2> QED
    BY <1>0, <1>a, <2>1, <2>4, CSWType DEF TaskTypes
<1>12. CASE PhaseError
  <2>1. /\ SendCSW([pMSC EXCEPT !.CSWStatus = "phase"]) /\ stall' = TRUE
        /\ events' = Tail(events) /\ events # <<>> /\ pc' = pc
    BY <1>12 DEF PhaseError, Take
  <2>2. [pMSC EXCEPT !.CSWStatus = "phase"] \in Control
    BY <1>c DEF Control, Status
  <2> QED
    BY <1>0, <1>a, <2>1, <2>2, CSWType DEF TaskTypes
<1>13. CASE CSWSent
  <2>1. /\ pMSC' = [pMSC EXCEPT !.BotState = "idle"]
        /\ events' = Tail(events) /\ events # <<>>
        /\ stall' \in {Acked, stall} /\ UNCHANGED <<ReadTimer, tx, pc>>
    BY <1>13 DEF CSWSent, Sent, Take
  <2>2. pMSC' \in Control
    BY <1>c, <2>1 DEF Control
  <2> QED
    BY <1>0, <1>a, <1>b, <2>1, <2>2 DEF TaskTypes
<1>14. CASE NothingToSend
  <2>1. /\ SendCSW(Failed(pMSC)) /\ UNCHANGED <<stall, pc>>
        /\ events' = Tail(events) /\ events # <<>>
    BY <1>14 DEF NothingToSend, Sent, Take
  <2> QED
    BY <1>0, <1>a, <1>c, <2>1, FailedType, CSWType DEF TaskTypes
<1>g. Gone \in Control
  BY <1>c DEF Gone, Control
<1>15. CASE AllSent
  <2>1. /\ SendCSW(Gone) /\ UNCHANGED <<stall, pc>>
        /\ events' = Tail(events) /\ events # <<>>
    BY <1>15 DEF AllSent, Sent, Take
  <2> QED
    BY <1>0, <1>a, <1>g, <2>1, CSWType DEF TaskTypes
<1>16. CASE ReadMore
  <2>1. Left(Gone) \in Nat /\ events # <<>> /\ pc' = "rest" /\ stall' = stall
    BY <1>16, SizesType DEF ReadMore, Read, SdTypeOK, Sent, Take
  <2>2. CASE isReady
    <3>1. TxData(Gone, Tail(events)) /\ UNCHANGED ReadTimer
      BY <1>16, <2>2 DEF ReadMore
    <3> QED
      BY <1>0, <1>a, <1>g, <2>1, <3>1, TxDataType DEF TaskTypes
  <2>3. CASE ~isReady
    <3>1. SendCSW(Failed(Gone)) /\ events' = Tail(events)
      BY <1>16, <2>3 DEF ReadMore
    <3> QED
      BY <1>0, <1>a, <1>g, <2>1, <3>1, FailedType, CSWType DEF TaskTypes
  <2> QED
    BY <2>2, <2>3
<1> QED
  BY <1>1, <1>2, <1>3, <1>4, <1>5, <1>6, <1>7, <1>8, <1>9, <1>10, <1>11,
     <1>12, <1>13, <1>14, <1>15, <1>16 DEF UsbTask

LEMMA TimerType ==
  ASSUME MscTypeOK, TimerFires
  PROVE  TaskTypes'
<1>1. pMSC' = [pMSC EXCEPT !.BotState = "idle", !.CBW = NoCommand,
                          !.CSWStatus = "passed", !.bStatus = "passed",
                          !.XferTotalLen = 0, !.XferDoneLen = 0,
                          !.LastXferLen = 0, !.MediumState = "unlocked"]
  BY DEF TimerFires
<1>2. pMSC' \in Control
  BY <1>1 DEF MscTypeOK, Control, Status
<1>3. tx' \in Sending
  BY DEF TimerFires, Nothing, Sending
<1> QED
  BY <1>2, <1>3 DEF TimerFires, MscTypeOK, TaskTypes

(* The host's own record, and the counts.                                  *)
HostTypes ==
  /\ host \in [st : {"idle", "out", "in", "status", "broken"},
               cmd : CBWs \union {NoCommand}, sent : Nat, got : Seq(Nat)]
  /\ served \in Nat /\ faults \in 0..MaxFaults

LEMMA DueType ==
  ASSUME MscTypeOK, NEW free, Due(free)
  PROVE  faults' \in 0..MaxFaults
  BY SizesType DEF MscTypeOK, Due

LEMMA RetryType ==
  ASSUME MscTypeOK
  PROVE  /\ Retry \in [st : {"idle", "out", "in", "status", "broken"},
                       cmd : CBWs \union {NoCommand}, sent : Nat,
                       got : Seq(Nat)]
         /\ [Retry EXCEPT !.cmd = NoCommand] \in
              [st : {"idle", "out", "in", "status", "broken"},
               cmd : CBWs \union {NoCommand}, sent : Nat, got : Seq(Nat)]
<1>1. <<>> \in Seq(Nat)
  OBVIOUS
<1> QED
  BY <1>1 DEF MscTypeOK, Retry

LEMMA ResetType ==
  ASSUME MscTypeOK, TimerFires \/ BusReset \/ ClassReset
  PROVE  HostTypes'
<1>1. host' = Retry /\ served' = served
  BY DEF TimerFires, BusReset, ClassReset
<1>2. faults' \in 0..MaxFaults
  BY DueType DEF TimerFires, BusReset, ClassReset
<1> QED
  BY <1>1, <1>2, RetryType DEF MscTypeOK, HostTypes

LEMMA AppendedType ==
  ASSUME MscTypeOK, NEW e \in Event, events' = Append(events, e)
  PROVE  events' \in Seq(Event)
  BY DEF MscTypeOK

LEMMA TakeTxType ==
  ASSUME MscTypeOK, TakeTx
  PROVE  TaskTypes' /\ faults' \in 0..MaxFaults
<1>1. [kind |-> "in"] \in Event
  BY DEF Event
<1>2. /\ events' = Append(events, [kind |-> "in"]) \/ events' = events
      /\ tx' = Nothing /\ UNCHANGED <<pMSC, ReadTimer, stall, pc>>
  BY DEF TakeTx
<1>3. events' \in Seq(Event)
  BY <1>1, <1>2, AppendedType DEF MscTypeOK
<1>4. tx' \in Sending
  BY <1>2 DEF Nothing, Sending
<1>5. faults' \in 0..MaxFaults
  BY DueType DEF TakeTx, MscTypeOK
<1> QED
  BY <1>2, <1>3, <1>4, <1>5 DEF MscTypeOK, TaskTypes

LEMMA HostType ==
  ASSUME MscTypeOK, Host
  PROVE  TaskTypes' /\ HostTypes'
<1> DEFINE H == [st : {"idle", "out", "in", "status", "broken"},
                 cmd : CBWs \union {NoCommand}, sent : Nat, got : Seq(Nat)]
<1>0. TaskTypes /\ HostTypes /\ host \in H
  BY DEF MscTypeOK, TaskTypes, HostTypes
<1>e. [kind |-> "empty"] \in Event
  BY DEF Event
<1>1. CASE HostSendsCommand
  <2>1. PICK c \in IF host.cmd = NoCommand THEN Commands ELSE {host.cmd},
             tag \in 1..MaxTag :
          LET cbw == [c EXCEPT !.tag = tag]
          IN \/ /\ Accepted([kind |-> "cbw", cbw |-> cbw])
                /\ host' = [host EXCEPT !.cmd = cbw, !.st = Phase(c)]
             \/ /\ Refusal
                /\ host' = [host EXCEPT !.cmd = cbw, !.st = "broken"]
    BY <1>1 DEF HostSendsCommand
  <2> DEFINE cbw == [c EXCEPT !.tag = tag]
  <2>2. c \in CBWs
    BY <1>0, SizesType
  <2>3. cbw \in CBWs
    BY <2>2, SizesType DEF CBWs
  <2>4. Phase(c) \in {"out", "in", "status"}
    BY DEF Phase
  <2>5. [kind |-> "cbw", cbw |-> cbw] \in Event
    BY <2>3 DEF Event
  <2>6. UNCHANGED <<pMSC, ReadTimer, tx, pc, served, faults>>
    BY <1>1 DEF HostSendsCommand
  <2>7. events' \in Seq(Event) /\ stall' \in BOOLEAN
    BY <1>0, <1>e, <2>1, <2>5, AppendedType
       DEF Accepted, Refusal, TaskTypes
  <2>8. host' \in H
    <3> HIDE DEF cbw
    <3>1. \/ host' = [host EXCEPT !.cmd = cbw, !.st = Phase(c)]
          \/ host' = [host EXCEPT !.cmd = cbw, !.st = "broken"]
      BY <2>1 DEF cbw
    <3> QED
      BY <1>0, <2>3, <2>4, <3>1
  <2> QED
    BY <1>0, <2>6, <2>7, <2>8 DEF TaskTypes, HostTypes
<1>2. CASE HostSendsData
  <2>1. UNCHANGED <<pMSC, ReadTimer, tx, pc, served, faults>> /\ host.st = "out"
    BY <1>2 DEF HostSendsData
  <2>2. host.cmd.data \in Contents
    BY <1>0, SizesType DEF CBWs, NoCommand
  <2>3. [kind |-> "data", data |-> host.cmd.data] \in Event
    BY <2>2 DEF Event
  <2>4. events' \in Seq(Event) /\ stall' \in BOOLEAN
    BY <1>0, <1>2, <1>e, <2>3, AppendedType
       DEF HostSendsData, Accepted, Refusal, TaskTypes
  <2>5. host' \in H
    <3>1. \/ host' = [host EXCEPT !.st = "status"]
          \/ \E x \in {"status", "out"} :
               host' = [host EXCEPT !.sent = host.sent + 1, !.st = x]
      BY <1>2 DEF HostSendsData
    <3>2. host.sent + 1 \in Nat
      BY <1>0
    <3> QED
      BY <1>0, <3>1, <3>2
  <2> QED
    BY <1>0, <2>1, <2>4, <2>5 DEF TaskTypes, HostTypes
<1>3. CASE HostTakesData
  <2> DEFINE got == IF tx.kind = "sense" THEN <<>>
                    ELSE host.got \o [i \in 1..tx.n |-> tx.at + i - 1]
  <2>1. /\ host' = [host EXCEPT !.got = got,
                      !.st = IF tx.kind = "sense" \/ Len(got) >= host.cmd.n
                             THEN "status" ELSE "in"]
        /\ TakeTx /\ served' = served /\ tx.kind \in {"data", "sense"}
    BY <1>3 DEF HostTakesData
  <2>2. got \in Seq(Nat)
    <3>1. CASE tx.kind = "sense"
      BY <3>1
    <3>2. CASE tx.kind = "data"
      <4>1. tx.n \in Nat /\ tx.at \in Nat
        BY <1>0, <3>2 DEF TaskTypes, Sending
      <4>2. [i \in 1..tx.n |-> tx.at + i - 1] \in Seq(Nat)
        <5>1. \A i \in 1..tx.n : tx.at + i - 1 \in Nat
          BY <4>1
        <5> QED
          BY <4>1, <5>1
      <4>3. host.got \in Seq(Nat)
        BY <1>0
      <4> QED
        BY <3>2, <4>2, <4>3
    <3> QED
      BY <2>1, <3>1, <3>2
  <2>3. host' \in H
    <3> HIDE DEF got
    <3> QED
      BY <1>0, <2>1, <2>2
  <2> QED
    BY <1>0, <2>1, <2>3, TakeTxType DEF HostTypes
<1>4. CASE HostTakesStatus
  <2>1. TakeTx
    BY <1>4 DEF HostTakesStatus
  <2>2. \/ host' = [Retry EXCEPT !.cmd = NoCommand] /\ served' = served + 1
        \/ host' = [host EXCEPT !.st = "broken"] /\ served' = served
    BY <1>4 DEF HostTakesStatus
  <2>3. [host EXCEPT !.st = "broken"] \in H
    BY <1>0
  <2>4. served' \in Nat
    BY <1>0, <1>4, <2>2, SizesType DEF HostTypes, HostTakesStatus
  <2> QED
    BY <2>1, <2>2, <2>3, <2>4, RetryType, TakeTxType DEF HostTypes
<1>5. CASE HostTakesTooMuch
  <2>1. /\ host' = [host EXCEPT !.st = "broken"] /\ served' = served
        /\ TakeTx
    BY <1>5 DEF HostTakesTooMuch
  <2>2. [host EXCEPT !.st = "broken"] \in H
    BY <1>0
  <2> QED
    BY <1>0, <2>1, <2>2, TakeTxType DEF HostTypes
<1> QED
  BY <1>1, <1>2, <1>3, <1>4, <1>5 DEF Host

LEMMA CardStepIsSd ==
  ASSUME CardStep
  PROVE  SdNext
  BY DEF SdNext

LEMMA MscTypeStep ==
  ASSUME MscTypeOK, SdTypeOK, [Next]_vars
  PROVE  MscTypeOK'
<1>0. TaskTypes /\ HostTypes /\ (MscTypeOK' <=> TaskTypes' /\ HostTypes')
  BY DEF MscTypeOK, TaskTypes, HostTypes
<1>1. CASE UsbTask
  <2>1. UNCHANGED <<host, served, faults>>
    BY <1>1 DEF UsbTask, NotACommand, Refuse, Again, NoData, SendBotData,
                WriteCommand, ReadCommand, ReadFirst, ReadAhead, StartTimer,
                ToDeviceData, PhaseError, CSWSent, NothingToSend, AllSent,
                ReadMore
  <2> QED
    BY <1>0, <1>1, <2>1, TaskType DEF HostTypes
<1>2. CASE UNCHANGED mscVars
  BY <1>0, <1>2 DEF mscVars, busVars, TaskTypes, HostTypes
<1>3. CASE TimerFires
  BY <1>0, <1>3, TimerType, ResetType
<1>4. CASE BusReset \/ ClassReset
  <2>1. /\ UNCHANGED <<pMSC, ReadTimer, events, pc>>
        /\ (tx' = Nothing /\ stall' = FALSE) \/ UNCHANGED <<tx, stall>>
    BY <1>4 DEF BusReset, ClassReset, busVars
  <2>2. Nothing \in Sending
    BY DEF Nothing, Sending
  <2>3. TaskTypes'
    BY <1>0, <2>1, <2>2 DEF TaskTypes
  <2> QED
    BY <1>0, <1>4, <2>3, ResetType
<1>5. CASE Host
  BY <1>0, <1>5, HostType
<1> QED
  BY <1>1, <1>2, <1>3, <1>4, <1>5 DEF Next, vars

(* Every step is one of the card's and of its driver's, or none of theirs. *)
LEMMA StepIsSd ==
  ASSUME MscTypeOK, SdTypeOK, [Next]_vars
  PROVE  [SdNext]_sdVars
<1>1. CASE NotACommand \/ Refuse \/ Again \/ NoData \/ SendBotData
             \/ StartTimer \/ PhaseError \/ CSWSent \/ NothingToSend \/ AllSent
  BY <1>1 DEF NotACommand, Refuse, Again, NoData, SendBotData, StartTimer,
              PhaseError, CSWSent, NothingToSend, AllSent
<1>2. CASE WriteCommand \/ ReadCommand
  <2>1. /\ \E ops : TakeCommand(ops)
        /\ \/ PreRead(Command.CBW.at, Command.CBW.n)
           \/ PreWrite(Command.CBW.at, Command.CBW.n)
    BY <1>2 DEF WriteCommand, ReadCommand
  <2>2. Command.CBW.at \in Blks /\ Command.CBW.n \in 1..LogBlockNbr
    <3>1. Command.CBW \in CBWs
      BY <2>1, CommandType
    <3> QED
      BY <3>1 DEF CBWs
  <2> QED
    BY <2>1, <2>2 DEF SdNext
<1>3. CASE ReadFirst \/ ReadMore
  <2>1. PICK max \in {Left(pMSC), Left(Gone)} : Read(max)
    BY <1>3 DEF ReadFirst, ReadMore
  <2>2. max \in 0..LogBlockNbr
    BY <2>1, SizesType DEF Read, SdTypeOK
  <2> QED
    BY <2>1, <2>2 DEF SdNext
<1>4. CASE ReadAhead
  BY <1>4 DEF ReadAhead, SdNext
<1>5. CASE ToDeviceData
  <2> DEFINE e == Head(events)
  <2>1. /\ events # <<>>
        /\ UNCHANGED sdVars \/ Write(IF e.kind = "data" THEN e.data ELSE Junk)
    BY <1>5 DEF ToDeviceData, Take
  <2>2. (IF e.kind = "data" THEN e.data ELSE Junk) \in Contents
    BY <2>1, EventType, SizesType
  <2> QED
    BY <2>1, <2>2 DEF SdNext
<1>6. CASE CardStep /\ UNCHANGED mscVars
  BY <1>6, CardStepIsSd
<1>7. CASE TimerFires
  BY <1>7 DEF TimerFires, SdNext
<1>8. CASE BusReset \/ ClassReset \/ Host
  BY <1>8 DEF BusReset, ClassReset, Host, HostSendsCommand, HostSendsData,
              HostTakesData, HostTakesStatus, HostTakesTooMuch, TakeTx
<1>9. CASE UNCHANGED vars
  BY <1>9 DEF vars
<1> QED
  BY <1>1, <1>2, <1>3, <1>4, <1>5, <1>6, <1>7, <1>8, <1>9 DEF Next, UsbTask

MscInv == MscTypeOK /\ SdInv

LEMMA MscInvStep == MscInv /\ [Next]_vars => MscInv'
<1> SUFFICES ASSUME MscInv, [Next]_vars PROVE MscInv'
  OBVIOUS
<1>1. MscTypeOK /\ SdInv /\ SdTypeOK
  BY DEF MscInv, SdInv
<1>2. [SdNext]_sdVars
  BY <1>1, StepIsSd
<1> QED
  BY <1>1, <1>2, MscTypeStep, SdInvStep DEF MscInv

(* The USB disk drives the card as SdhcDisk says, whatever its host does.  *)
THEOREM DrivesCard == Spec => SdSpec
<1>1. Init => MscInv /\ SdInit
  BY InitMscType, InitSdInv DEF Init, MscInv
<1>2. MscInv /\ [Next]_vars => [SdNext]_sdVars
  BY StepIsSd DEF MscInv, SdInv
<1> QED
  BY <1>1, <1>2, MscInvStep, PTL DEF Spec, SdSpec

(* A read that no mishap hit hands the host every block as it was last     *)
(* written, but for those written since the last read-ahead.               *)
THEOREM UsbKeepsPromise == Spec => ImplementsDisk
  BY DrivesCard, KeepsPromise

-----------------------------------------------------------------------------
(***************************************************************************)
(* Where the task and its driver are in a transfer.  ReadFits says it when *)
(* the task goes on with a read; the rest is where a read can be found at  *)
(* all: the timer runs only for one, only two states go with the task in   *)
(* the middle of a handler, and what was sent, what is being sent and what *)
(* the driver has to read make the whole at every point of it.             *)
(***************************************************************************)
Places ==
  /\ ReadTimer => pMSC.BotState = "data_in" /\ pc \in {"wait", "rest"}
  /\ pc = "first" => pMSC.BotState = "idle" /\ pMSC.CBW.op = "read"
  /\ pc = "again" => pMSC.BotState = "csw"
  /\ pc \in {"next", "start"} => MidRead
  /\ pMSC.BotState = "data_out" => pc = "wait"
  /\ pMSC.BotState = "data_in" =>
       \/ pMSC.CBW.op = "read"
       \/ /\ pc = "wait" /\ pMSC.XferTotalLen = 1
          /\ pMSC.XferDoneLen = 0 /\ pMSC.LastXferLen = 1

Fetched == turn \in IF want.n = 0 THEN {"take", "past"} ELSE {"fetch"}

Sums ==
  /\ pc = "first" =>
       /\ pMSC.XferDoneLen = 0
       /\ pMSC.XferTotalLen = 2 * (EndBlock - pos)
       /\ turn = IF want.n = 0 THEN "take" ELSE "fetch"
       /\ want.n > 0 => ~want.ahead
  /\ pc \in {"next", "rest"} => turn = "fetch" /\ want.n = 0
  /\ MidRead =>
       pMSC.XferTotalLen
         = pMSC.XferDoneLen + pMSC.LastXferLen + 2 * (EndBlock - pos)
  /\ MidRead /\ pc \in {"wait", "start"} => Fetched

Agree == Places /\ Sums /\ DataFits /\ CacheIsFree

LEMMA ControlFields ==
  ASSUME NEW m \in Control
  PROVE  /\ m.XferTotalLen \in Nat /\ m.XferDoneLen \in Nat /\ m.LastXferLen \in Nat
         /\ m.BotState \in {"idle", "data_in", "data_out", "csw"}
         /\ m.CSWStatus \in Status
         /\ m.CBW.op \in Ops \union {"none"}
  BY DEF Control, CBWs, NoCommand

LEMMA SdFields ==
  ASSUME SdTypeOK
  PROVE  /\ EndBlock \in Int /\ pos \in Int
         /\ want.n \in Nat /\ CurCacheSn \in {0, 1}
         /\ pCacheLen[CurCacheSn] \in Nat
         /\ CacheBuf.data \in Seq(Contents) /\ CacheBuf.max \in Nat
  BY SizesType DEF SdTypeOK

LEMMA InitAgree == Init => Agree
  BY DEF Init, Agree, Places, Sums, DataFits, CacheIsFree, MidRead, Nothing

(* What the card and the storage task do is none of the task's business.   *)
LEMMA CardFrame ==
  ASSUME CardStep
  PROVE  /\ UNCHANGED <<EndBlock, pos, CurCacheSn, CacheBuf>>
         /\ \/ UNCHANGED <<turn, want>>
            \/ /\ want.n > 0 /\ want' = NoRead
               /\ turn' = IF want.ahead THEN "past" ELSE "take"
<1>1. CASE ReadBlocks \/ ReadGivesUp \/ \E j \in 0..CacheBlocks : ReadFails(j)
  <2>1. want.n > 0 /\ \E good \in BOOLEAN : AfterRead(good)
    BY <1>1 DEF ReadBlocks, ReadGivesUp, ReadFails
  <2> QED
    BY <2>1 DEF AfterRead
<1>2. CASE StartWrite \/ WriteBlocks \/ \E j \in Blks : WriteFails(j)
  BY <1>2 DEF StartWrite, WriteBlocks, WriteFails, EndWrite, cacheVars
<1> QED
  BY <1>1, <1>2 DEF CardStep

LEMMA CardAgrees ==
  ASSUME SdTypeOK, Agree, CardStep, UNCHANGED mscVars
  PROVE  Agree'
<1>1. UNCHANGED <<pMSC, ReadTimer, tx, pc>>
  BY DEF mscVars, busVars
<1>2. /\ UNCHANGED <<EndBlock, pos, CurCacheSn, CacheBuf>>
      /\ \/ UNCHANGED <<turn, want>>
         \/ /\ want.n > 0 /\ want' = NoRead
            /\ turn' = IF want.ahead THEN "past" ELSE "take"
  BY CardFrame
<1>3. Places' /\ CacheIsFree' /\ MidRead' = MidRead
  BY <1>1, <1>2 DEF Agree, Places, CacheIsFree, MidRead
<1>4. CASE UNCHANGED <<turn, want>>
  BY <1>1, <1>2, <1>3, <1>4 DEF Agree, Sums, DataFits, Fetched
<1>5. CASE /\ want.n > 0 /\ want' = NoRead
           /\ turn' = IF want.ahead THEN "past" ELSE "take"
  <2>1. want'.n = 0 /\ want.n # 0
    BY <1>5, SdFields DEF NoRead
  <2>2. Sums'
    BY <1>1, <1>2, <1>3, <1>5, <2>1 DEF Agree, Sums, Fetched
  <2>3. DataFits'
    BY <1>1, <2>1 DEF Agree, DataFits
  <2> QED
    BY <1>3, <2>2, <2>3 DEF Agree
<1> QED
  BY <1>2, <1>4, <1>5

LEMMA CSWSays ==
  ASSUME NEW m \in Control, SendCSW(m)
  PROVE  pMSC'.BotState = "csw" /\ ~ReadTimer' /\ tx'.kind = "csw"
  BY DEF SendCSW, Control

(* A status is sent: no transfer goes on.                                  *)
LEMMA CSWAgrees ==
  ASSUME NEW m \in Control, SendCSW(m),
         pc' \in {"wait", "again", "rest"},
         pc' = "rest" => turn' = "fetch" /\ want'.n = 0
  PROVE  Agree'
  BY CSWSays DEF Agree, Places, Sums, DataFits, CacheIsFree, MidRead

(* The task sends what Read hands it.                                      *)
LEMMA TxAgrees ==
  ASSUME SdTypeOK, NEW m \in Control, m.CBW.op = "read",
         m.XferTotalLen - m.XferDoneLen = 2 * (EndBlock - pos),
         NEW rest, Read(Left(m)), isReady, TxData(m, rest),
         pc' \in {"next", "rest"}, ReadTimer' => pc' = "rest"
  PROVE  Agree'
<1> DEFINE c == Len(Current(Left(m)))
<1>1. Left(m) \in Nat
  BY SizesType DEF Read, SdTypeOK
<1>2. c \in Nat
  BY <1>1, CurrentType
<1>3. /\ pMSC' = [m EXCEPT !.LastXferLen = 2 * c, !.BotState = "data_in"]
      /\ \/ tx' = [kind |-> "data", at |-> pos, n |-> c, sn |-> CurCacheSn]
         \/ tx' = Nothing
  BY DEF TxData
<1>4. /\ turn' = "fetch" /\ want' = want /\ want.n = 0 /\ EndBlock' = EndBlock
      /\ pos' = pos + c /\ CurCacheSn' = 1 - CurCacheSn
  BY DEF Read, OtherCache
<1> HIDE DEF c
<1>5. /\ pMSC'.BotState = "data_in" /\ pMSC'.CBW = m.CBW
      /\ pMSC'.XferTotalLen = m.XferTotalLen /\ pMSC'.XferDoneLen = m.XferDoneLen
      /\ pMSC'.LastXferLen = 2 * c
  BY <1>3 DEF Control
<1>6. MidRead'
  BY <1>5 DEF MidRead
<1>7. pMSC'.XferTotalLen
        = pMSC'.XferDoneLen + pMSC'.LastXferLen + 2 * (EndBlock' - pos')
  <2> DEFINE t == m.XferTotalLen
             e == m.XferDoneLen
  <2>1. t \in Nat /\ e \in Nat /\ EndBlock \in Int /\ pos \in Int
    BY SdFields, ControlFields
  <2>2. t - e = 2 * (EndBlock - pos)
    OBVIOUS
  <2> HIDE DEF t, e
  <2>3. t = e + 2 * c + 2 * (EndBlock - (pos + c))
    BY <1>2, <2>1, <2>2
  <2> QED
    BY <1>4, <1>5, <2>3 DEF t, e
<1>8. CacheIsFree'
  <2>1. CurCacheSn # 1 - CurCacheSn
    BY SdFields
  <2> QED
    BY <1>3, <1>4, <2>1 DEF CacheIsFree, Nothing
<1>9. Places'
  BY <1>5, <1>6 DEF Places
<1>10. Sums'
  BY <1>4, <1>6, <1>7 DEF Sums
<1>11. DataFits'
  BY <1>5 DEF DataFits
<1> QED
  BY <1>8, <1>9, <1>10, <1>11 DEF Agree

(* A command that comes finds no transfer going on.                        *)
LEMMA CommandSays ==
  ASSUME MscTypeOK, Agree, NEW ops, TakeCommand(ops)
  PROVE  /\ Command \in Control /\ Command.CBW = Head(events).cbw
         /\ Command.CBW \in CBWs /\ Command.CBW.op \in ops
         /\ Command.BotState = "idle" /\ Command.XferDoneLen = 0
         /\ pc = "wait" /\ want.n = 0 /\ ~ReadTimer
<1>1. /\ Command \in Control /\ Command.CBW = Head(events).cbw
      /\ Command.CBW \in CBWs
  BY CommandType
<1>2. Command.BotState = "idle" /\ Command.XferDoneLen = 0
  BY DEF MscTypeOK, Control, Command
<1>3. /\ Command.CBW.op \in ops /\ pc = "wait" /\ want.n = 0
      /\ pMSC.BotState \in {"idle", "csw"}
  BY DEF TakeCommand, Take
<1> QED
  BY <1>1, <1>2, <1>3 DEF Agree, Places

LEMMA CommandsAgree ==
  ASSUME MscTypeOK, SdTypeOK, Agree,
         Refuse \/ NoData \/ SendBotData \/ WriteCommand \/ ReadCommand
  PROVE  Agree'
<1>1. CASE Refuse
  <2>1. /\ TakeCommand(Ops) /\ SendCSW(Failed(Command)) /\ pc' \in {"again", "wait"}
    BY <1>1 DEF Refuse, FailCommand
  <2>2. Failed(Command) \in Control
    BY <2>1, CommandSays, FailedType
  <2> QED
    BY <2>1, <2>2, CSWAgrees
<1>2. CASE NoData
  <2> DEFINE ops == {"test", "eject", "load", "lock", "unlock"}
             m == [Command EXCEPT !.Sense = FALSE,
                                  !.MediumState = Medium(Command.CBW.op)]
  <2>1. TakeCommand(ops) /\ SendCSW(m) /\ pc' = pc
    BY <1>2 DEF NoData
  <2>2. Command \in Control /\ pc = "wait"
    BY <2>1, CommandSays
  <2>3. Medium(Command.CBW.op) \in {"unlocked", "locked", "ejected"}
    BY DEF Medium, MscTypeOK, Control
  <2>4. m \in Control
    BY <2>2, <2>3 DEF Control
  <2> HIDE DEF m
  <2> QED
    BY <2>1, <2>2, <2>4, CSWAgrees
<1>3. CASE SendBotData
  <2>1. /\ TakeCommand({"sense"})
        /\ pMSC' = [Command EXCEPT !.Sense = FALSE, !.BotState = "data_in",
                                   !.XferTotalLen = 1, !.LastXferLen = 1]
        /\ tx' = [kind |-> "sense"]
        /\ UNCHANGED <<turn, want, ReadTimer, pc>>
    BY <1>3 DEF SendBotData, sdVars
  <2>2. /\ Command \in Control /\ Command.CBW.op = "sense"
        /\ Command.XferDoneLen = 0 /\ pc = "wait" /\ ~ReadTimer
    BY <2>1, CommandSays
  <2>3. /\ pMSC'.BotState = "data_in" /\ pMSC'.CBW.op = "sense"
        /\ pMSC'.XferTotalLen = 1 /\ pMSC'.XferDoneLen = 0 /\ pMSC'.LastXferLen = 1
    BY <2>1, <2>2 DEF Control
  <2> QED
    BY <2>1, <2>2, <2>3 DEF Agree, Places, Sums, DataFits, CacheIsFree, MidRead
<1>4. CASE WriteCommand
  <2>1. /\ TakeCommand({"write"}) /\ PreWrite(Command.CBW.at, Command.CBW.n)
        /\ pMSC' = [Command EXCEPT !.Sense = FALSE, !.BotState = "data_out",
                                   !.XferTotalLen = Length(Command.CBW)]
        /\ UNCHANGED <<ReadTimer, tx, pc>>
    BY <1>4 DEF WriteCommand
  <2>2. /\ Command \in Control /\ Command.CBW.op = "write"
        /\ Command.CBW.n \in 1..LogBlockNbr
        /\ Command.XferDoneLen = 0 /\ Command.CSWStatus = "passed"
        /\ pc = "wait" /\ want.n = 0 /\ ~ReadTimer
    <3>1. Command.CSWStatus = "passed"
      BY DEF MscTypeOK, Control, Command
    <3> QED
      BY <2>1, <3>1, CommandSays DEF CBWs
  <2>3. Length(Command.CBW) = 2 * Command.CBW.n /\ 0 < 2 * Command.CBW.n
    BY <2>2, SizesType DEF Length
  <2>4. /\ pMSC'.BotState = "data_out" /\ pMSC'.XferDoneLen = 0
        /\ pMSC'.XferTotalLen = 2 * Command.CBW.n
        /\ pMSC'.CSWStatus = "passed"
    BY <2>1, <2>2, <2>3 DEF Control
  <2>5. /\ turn' = "write" /\ want' = want
        /\ CacheBuf' = [data |-> <<>>, max |-> 2 * Command.CBW.n]
        /\ CurCacheSn' = CurCacheSn
    BY <2>1 DEF PreWrite
  <2>6. DataFits'
    BY <2>2, <2>3, <2>4, <2>5 DEF DataFits
  <2> QED
    BY <2>1, <2>2, <2>4, <2>5, <2>6
       DEF Agree, Places, Sums, CacheIsFree, MidRead
<1>5. CASE ReadCommand
  <2>1. /\ TakeCommand({"read"}) /\ PreRead(Command.CBW.at, Command.CBW.n)
        /\ pMSC' = [Command EXCEPT !.XferTotalLen = Length(Command.CBW)]
        /\ pc' = "first" /\ UNCHANGED <<ReadTimer, tx>>
    BY <1>5 DEF ReadCommand
  <2>2. /\ Command \in Control /\ Command.CBW.op = "read"
        /\ Command.CBW.n \in 1..LogBlockNbr /\ Command.CBW.at \in Blks
        /\ Command.BotState = "idle" /\ Command.XferDoneLen = 0
        /\ want.n = 0 /\ ~ReadTimer
    BY <2>1, CommandSays DEF CBWs
  <2>3. Length(Command.CBW) = 2 * Command.CBW.n
    BY <2>2 DEF Length
  <2>4. /\ pMSC'.BotState = "idle" /\ pMSC'.XferDoneLen = 0
        /\ pMSC'.XferTotalLen = 2 * Command.CBW.n /\ pMSC'.CBW.op = "read"
    BY <2>1, <2>2, <2>3 DEF Control
  <2>5. /\ EndBlock' = Command.CBW.at + Command.CBW.n /\ pos' = Command.CBW.at
        /\ CurCacheSn' = CurCacheSn
        /\ \/ want' = want /\ turn' = "take"
           \/ /\ want' = NextRead(Command.CBW.at, Command.CBW.at + Command.CBW.n)
              /\ turn' = "fetch"
    BY <2>1 DEF PreRead
  <2>6. /\ Command.CBW.n \in Nat /\ Command.CBW.at \in Nat
        /\ Command.CBW.n > 0 /\ Command.CBW.at + Command.CBW.n <= LogBlockNbr
    BY <2>1, <2>2, SizesType DEF PreRead, InRange, Blks
  <2>7. LET w == NextRead(Command.CBW.at, Command.CBW.at + Command.CBW.n)
        IN w.n # 0 /\ ~w.ahead
    BY <2>6, SdhcAssumption DEF NextRead, Least, SdhcAssumption
  <2>8. pMSC'.XferTotalLen = 2 * (EndBlock' - pos')
    BY <2>4, <2>5, <2>6
  <2>9. Sums'
    BY <2>1, <2>2, <2>4, <2>5, <2>7, <2>8 DEF Sums, MidRead
  <2> QED
    BY <2>1, <2>2, <2>4, <2>5, <2>9
       DEF Agree, Places, DataFits, CacheIsFree, MidRead
<1> QED
  BY <1>1, <1>2, <1>3, <1>4, <1>5

(* A read goes on.                                                         *)
LEMMA ReadsAgree ==
  ASSUME MscTypeOK, SdTypeOK, Agree,
         Again \/ ReadFirst \/ ReadAhead \/ StartTimer \/ AllSent \/ ReadMore
  PROVE  Agree'
<1>c. pMSC \in Control
  BY DEF MscTypeOK
<1>g. /\ Gone \in Control /\ Gone.CBW = pMSC.CBW
      /\ Gone.XferTotalLen = pMSC.XferTotalLen
      /\ Gone.XferDoneLen = pMSC.XferDoneLen + pMSC.LastXferLen
  BY <1>c DEF Gone, Control
<1>1. CASE Again
  <2>1. SendCSW([pMSC EXCEPT !.CSWStatus = "failed"]) /\ pc' = "wait"
    BY <1>1 DEF Again, ErrorOut
  <2>2. [pMSC EXCEPT !.CSWStatus = "failed"] \in Control
    BY <1>c DEF Control, Status
  <2> QED
    BY <2>1, <2>2, CSWAgrees
<1>2. CASE ReadFirst
  <2>1. /\ pMSC.CBW.op = "read" /\ pMSC.XferDoneLen = 0 /\ ~ReadTimer
        /\ pMSC.XferTotalLen = 2 * (EndBlock - pos)
    BY <1>2 DEF ReadFirst, Agree, Places, Sums
  <2>2. CASE isReady
    <3>1. /\ Read(Left(pMSC)) /\ TxData(pMSC, events) /\ pc' = "next"
          /\ ReadTimer' = ReadTimer
      BY <1>2, <2>2 DEF ReadFirst
    <3>2. pMSC.XferTotalLen - pMSC.XferDoneLen = 2 * (EndBlock - pos)
      BY <1>c, <2>1, ControlFields
    <3> QED
      BY <1>c, <2>1, <2>2, <3>1, <3>2, TxAgrees
  <2>3. CASE ~isReady
    <3>1. SendCSW(Failed(pMSC)) /\ pc' \in {"again", "wait"}
      BY <1>2, <2>3 DEF ReadFirst, FailCommand
    <3> QED
      BY <1>c, <3>1, FailedType, CSWAgrees
  <2> QED
    BY <2>2, <2>3
<1>3. CASE ReadAhead
  <2>1. /\ want' = NextRead(CurBlock, EndBlock)
        /\ UNCHANGED <<turn, EndBlock, pos, CurCacheSn, CacheBuf, pMSC, ReadTimer, tx>>
        /\ turn = "fetch" /\ pc \in {"next", "rest"}
        /\ pc' = IF pc = "next" THEN "start" ELSE "wait"
    BY <1>3 DEF ReadAhead, ReadNext, busVars, cacheVars
  <2>2. want'.n # 0
    <3>1. CurBlock \in Nat /\ EndBlock \in 0..LogBlockNbr
      BY DEF SdTypeOK
    <3>2. NextRead(CurBlock, EndBlock).n \in 1..CacheBlocks
      BY <3>1, NextReadType
    <3> QED
      BY <2>1, <3>2, SizesType
  <2>3. pMSC.BotState # "data_out"
    BY <2>1 DEF Agree, Places
  <2>4. MidRead' = MidRead
    BY <2>1 DEF MidRead
  <2>5. Places'
    BY <2>1, <2>3, <2>4 DEF Agree, Places
  <2>6. Sums'
    BY <2>1, <2>2, <2>4 DEF Agree, Sums, Fetched
  <2> QED
    BY <2>1, <2>3, <2>5, <2>6 DEF Agree, DataFits, CacheIsFree
<1>4. CASE StartTimer
  <2>1. /\ pc = "start" /\ pc' = "wait"
        /\ pMSC' = [pMSC EXCEPT !.Sense = FALSE]
        /\ UNCHANGED <<turn, want, EndBlock, pos, CurCacheSn, tx>>
    BY <1>4 DEF StartTimer, sdVars, cacheVars, busVars
  <2>2. /\ pMSC'.BotState = pMSC.BotState /\ pMSC'.CBW = pMSC.CBW
        /\ pMSC'.XferTotalLen = pMSC.XferTotalLen
        /\ pMSC'.XferDoneLen = pMSC.XferDoneLen
        /\ pMSC'.LastXferLen = pMSC.LastXferLen
    BY <1>c, <2>1 DEF Control
  <2>3. MidRead /\ MidRead'
    BY <2>1, <2>2 DEF Agree, Places, MidRead
  <2>4. Sums'
    BY <2>1, <2>2, <2>3 DEF Agree, Sums, Fetched
  <2> QED
    BY <2>1, <2>2, <2>3, <2>4 DEF Agree, Places, DataFits, CacheIsFree, MidRead
<1>5. CASE AllSent
  <2>1. SendCSW(Gone) /\ pc' = "wait"
    BY <1>5 DEF AllSent, Sent, Take
  <2> QED
    BY <1>g, <2>1, CSWAgrees
<1>6. CASE ReadMore
  <2>1. /\ pc = "wait" /\ pc' = "rest" /\ pMSC.BotState = "data_in"
        /\ Gone.XferDoneLen < Gone.XferTotalLen /\ Read(Left(Gone))
    BY <1>6 DEF ReadMore, Sent, Take
  <2>2. pMSC.CBW.op = "read"
    BY <1>g, <2>1 DEF Agree, Places
  <2>3. Gone.XferTotalLen - Gone.XferDoneLen = 2 * (EndBlock - pos)
    <3>1. pMSC.XferTotalLen
            = pMSC.XferDoneLen + pMSC.LastXferLen + 2 * (EndBlock - pos)
      BY <2>1, <2>2 DEF Agree, Sums, MidRead
    <3>2. /\ pMSC.XferTotalLen \in Nat /\ pMSC.XferDoneLen \in Nat
          /\ pMSC.LastXferLen \in Nat /\ EndBlock \in Int /\ pos \in Int
      BY <1>c, ControlFields, SdFields
    <3> QED
      BY <1>g, <3>1, <3>2
  <2>4. CASE isReady
    <3>1. TxData(Gone, Tail(events)) /\ UNCHANGED ReadTimer
      BY <1>6, <2>4 DEF ReadMore
    <3> QED
      BY <1>g, <2>1, <2>2, <2>3, <2>4, <3>1, TxAgrees
  <2>5. CASE ~isReady
    <3>1. SendCSW(Failed(Gone))
      BY <1>6, <2>5 DEF ReadMore
    <3>2. turn' = "fetch" /\ want'.n = 0
      BY <2>1 DEF Read
    <3> QED
      BY <1>g, <2>1, <3>1, <3>2, FailedType, CSWAgrees
  <2> QED
    BY <2>4, <2>5
<1> QED
  BY <1>1, <1>2, <1>3, <1>4, <1>5, <1>6

(* The host's data arrives: what is in the buffer is what was counted,     *)
(* unless the write has failed.                                            *)
LEMMA DataAgrees ==
  ASSUME MscTypeOK, SdTypeOK, Agree, ToDeviceData
  PROVE  Agree'
<1> DEFINE e == Head(events)
           fails == e.kind # "empty" /\ (~isReady \/ EndBlock <= CurBlock)
           done == pMSC.XferDoneLen + PacketLen(e)
           m == [IF fails THEN Failed(pMSC) ELSE pMSC EXCEPT !.XferDoneLen = done]
           x == IF e.kind = "data" THEN e.data ELSE Junk
<1>1. /\ pc = "wait" /\ pc' = "wait" /\ pMSC.BotState = "data_out"
      /\ IF fails \/ e.kind = "empty" THEN UNCHANGED sdVars ELSE Write(x)
      /\ IF done >= pMSC.XferTotalLen
         THEN SendCSW(m)
         ELSE pMSC' = m /\ UNCHANGED <<tx, ReadTimer>>
  BY DEF ToDeviceData, Take
<1>2. pMSC \in Control /\ pMSC.XferDoneLen \in Nat /\ pMSC.XferTotalLen \in Nat
  BY ControlFields DEF MscTypeOK
<1>3. /\ turn = "write" /\ want.n = 0 /\ CacheBuf.max = pMSC.XferTotalLen
      /\ Len(CacheBuf.data) <= pMSC.XferDoneLen
      /\ pMSC.CSWStatus = "passed" => Len(CacheBuf.data) = pMSC.XferDoneLen
  BY <1>1 DEF Agree, DataFits
<1>4. CacheBuf \in [data : Seq(Contents), max : Nat] /\ Len(CacheBuf.data) \in Nat
  BY DEF SdTypeOK
<1>5. /\ done \in Nat /\ pMSC.XferDoneLen <= done
      /\ done = IF e.kind = "empty" THEN pMSC.XferDoneLen ELSE pMSC.XferDoneLen + 1
  BY <1>2 DEF PacketLen
<1>6. m \in Control
  <2>1. Failed(pMSC) \in Control
    BY <1>2, FailedType
  <2> HIDE DEF done, fails
  <2> QED
    BY <1>2, <1>5, <2>1 DEF Control
<1>7. CASE done >= pMSC.XferTotalLen
  BY <1>1, <1>6, <1>7, CSWAgrees
<1>8. CASE ~(done >= pMSC.XferTotalLen)
  <2>1. pMSC' = m /\ UNCHANGED <<tx, ReadTimer>>
    BY <1>1, <1>8
  <2>2. /\ pMSC'.BotState = "data_out" /\ pMSC'.XferDoneLen = done
        /\ pMSC'.XferTotalLen = pMSC.XferTotalLen
        /\ pMSC'.CSWStatus = IF fails THEN "failed" ELSE pMSC.CSWStatus
    <3> HIDE DEF done, fails
    <3> QED
      BY <1>1, <1>2, <2>1 DEF Control, Failed
  <2>3. CASE fails \/ e.kind = "empty"
    <3>1. UNCHANGED <<turn, want, CacheBuf, CurCacheSn>>
      BY <1>1, <2>3 DEF sdVars, cacheVars
    <3>2. pMSC'.CSWStatus = "passed" => Len(CacheBuf.data) = done
      BY <1>3, <1>5, <2>2, <2>3
    <3>3. Len(CacheBuf.data) <= done /\ done < pMSC.XferTotalLen
      BY <1>2, <1>3, <1>4, <1>5, <1>8
    <3>4. DataFits'
      BY <1>3, <2>2, <3>1, <3>2, <3>3 DEF DataFits
    <3> QED
      BY <1>1, <2>1, <2>2, <3>1, <3>4
         DEF Agree, Places, Sums, CacheIsFree, MidRead
  <2>4. CASE ~(fails \/ e.kind = "empty")
    <3> DEFINE ps == Append(CacheBuf.data, x)
    <3>1. x \in Contents
      <4>1. events # <<>>
        BY DEF ToDeviceData, Take
      <4> QED
        BY <4>1, EventType, SizesType
    <3>2. Len(ps) = Len(CacheBuf.data) + 1
      BY <1>4, <3>1
    <3>3. done = pMSC.XferDoneLen + 1
      BY <1>5, <2>4
    <3>4. ~(Len(ps) >= CacheBuf.max)
      BY <1>2, <1>3, <1>4, <1>8, <3>2, <3>3
    <3>5. /\ CacheBuf' = [CacheBuf EXCEPT !.data = ps]
          /\ UNCHANGED <<turn, want, CurCacheSn>>
      BY <1>1, <2>4, <3>4 DEF Write, cacheVars
    <3> HIDE DEF ps, x
    <3>6. CacheBuf'.data = ps /\ CacheBuf'.max = CacheBuf.max
      BY <1>4, <3>5
    <3>7. /\ Len(ps) <= done /\ done < pMSC.XferTotalLen
          /\ pMSC.CSWStatus = "passed" => Len(ps) = done
      BY <1>2, <1>3, <1>4, <1>8, <3>2, <3>3
    <3>8. DataFits'
      BY <1>3, <2>2, <2>4, <3>5, <3>6, <3>7 DEF DataFits
    <3> QED
      BY <1>1, <2>1, <2>2, <3>5, <3>8
         DEF Agree, Places, Sums, CacheIsFree, MidRead
  <2> QED
    BY <2>3, <2>4
<1> QED
  BY <1>7, <1>8

(* What comes where nothing is due.                                        *)
LEMMA RestAgrees ==
  ASSUME MscTypeOK, SdTypeOK, Agree,
         NotACommand \/ PhaseError \/ CSWSent \/ NothingToSend
  PROVE  Agree'
<1>c. pMSC \in Control
  BY DEF MscTypeOK
<1>1. CASE NotACommand
  <2>1. [[pMSC EXCEPT !.Sense = TRUE] EXCEPT !.CSWStatus = "failed"] \in Control
    BY <1>c DEF Control, Status
  <2>2. /\ SendCSW([[pMSC EXCEPT !.Sense = TRUE] EXCEPT !.CSWStatus = "failed"])
        /\ pc' = "wait"
    BY <1>1 DEF NotACommand, ErrorOut, Take
  <2> QED
    BY <2>1, <2>2, CSWAgrees
<1>2. CASE PhaseError
  <2>1. SendCSW([pMSC EXCEPT !.CSWStatus = "phase"]) /\ pc' = "wait"
    BY <1>2 DEF PhaseError, Take
  <2>2. [pMSC EXCEPT !.CSWStatus = "phase"] \in Control
    BY <1>c DEF Control, Status
  <2> QED
    BY <2>1, <2>2, CSWAgrees
<1>3. CASE NothingToSend
  <2>1. SendCSW(Failed(pMSC)) /\ pc' = "wait"
    BY <1>3 DEF NothingToSend, Sent, Take
  <2> QED
    BY <1>c, <2>1, FailedType, CSWAgrees
<1>4. CASE CSWSent
  <2>1. /\ pMSC' = [pMSC EXCEPT !.BotState = "idle"] /\ pc = "wait"
        /\ pMSC.BotState \in {"csw", "idle"}
        /\ UNCHANGED <<turn, want, CurCacheSn, ReadTimer, tx, pc>>
    BY <1>4 DEF CSWSent, Sent, Take, sdVars, cacheVars
  <2>2. pMSC'.BotState = "idle"
    BY <1>c, <2>1 DEF Control
  <2> QED
    BY <2>1, <2>2 DEF Agree, Places, Sums, DataFits, CacheIsFree, MidRead
<1> QED
  BY <1>1, <1>2, <1>3, <1>4

LEMMA OutsideAgrees ==
  ASSUME MscTypeOK, SdTypeOK, Agree, TimerFires \/ BusReset \/ ClassReset \/ Host
  PROVE  Agree'
<1>1. CASE TimerFires
  <2>1. /\ pMSC' = [pMSC EXCEPT !.BotState = "idle", !.CBW = NoCommand,
                      !.CSWStatus = "passed", !.bStatus = "passed",
                      !.XferTotalLen = 0, !.XferDoneLen = 0,
                      !.LastXferLen = 0, !.MediumState = "unlocked"]
        /\ ReadTimer /\ ~ReadTimer' /\ tx' = Nothing /\ pc' = pc
        /\ UNCHANGED <<turn, want>>
    BY <1>1 DEF TimerFires, ReInit, sdVars
  <2>2. pMSC'.BotState = "idle"
    BY <2>1 DEF MscTypeOK, Control
  <2> QED
    BY <2>1, <2>2
       DEF Agree, Places, Sums, DataFits, CacheIsFree, MidRead, Nothing
<1>2. CASE BusReset \/ ClassReset \/ Host
  <2>1. /\ UNCHANGED <<sdVars, pMSC, ReadTimer, pc>>
        /\ tx' = Nothing \/ tx' = tx
    BY <1>2 DEF BusReset, ClassReset, busVars, Host, HostSendsCommand,
                HostSendsData, HostTakesData, HostTakesStatus, HostTakesTooMuch,
                TakeTx
  <2>2. UNCHANGED <<turn, want, EndBlock, pos, CurCacheSn, CacheBuf>>
    BY <2>1 DEF sdVars, cacheVars
  <2> QED
    BY <2>1, <2>2
       DEF Agree, Places, Sums, DataFits, CacheIsFree, MidRead, Fetched, Nothing
<1> QED
  BY <1>1, <1>2

LEMMA AgreeStep ==
  ASSUME MscInv, Agree, [Next]_vars
  PROVE  Agree'
<1>1. MscTypeOK /\ SdTypeOK
  BY DEF MscInv, SdInv
<1>2. CASE UNCHANGED vars
  <2>1. UNCHANGED <<pMSC, ReadTimer, tx, pc, turn, want, EndBlock, pos, CurCacheSn,
                    CacheBuf>>
    BY <1>2 DEF vars, sdVars, cacheVars, mscVars, busVars
  <2> QED
    BY <2>1 DEF Agree, Places, Sums, DataFits, CacheIsFree, MidRead, Fetched
<1> QED
  BY <1>1, <1>2, CommandsAgree, ReadsAgree, DataAgrees, RestAgrees, OutsideAgrees,
     CardAgrees DEF Next, UsbTask

LEMMA AgreeFits ==
  ASSUME MscInv, Agree
  PROVE  Inv
<1>1. MscTypeOK /\ SdInv /\ SdTypeOK /\ pMSC \in Control
  BY DEF MscInv, SdInv, MscTypeOK
<1>2. /\ EndBlock \in Int /\ pos \in Int
      /\ pMSC.XferTotalLen \in Nat /\ pMSC.XferDoneLen \in Nat
      /\ pMSC.LastXferLen \in Nat
  BY <1>1, SdFields, ControlFields
<1>3. ASSUME pc = "first"
      PROVE  Left(pMSC) = EndBlock - pos
  <2>1. pMSC.XferTotalLen - pMSC.XferDoneLen = 2 * (EndBlock - pos)
    BY <1>2, <1>3 DEF Agree, Sums
  <2> QED
    BY <1>2, <2>1 DEF Left
<1>4. ASSUME MidRead
      PROVE  Left(Gone) = EndBlock - pos
  <2>1. /\ Gone.XferTotalLen = pMSC.XferTotalLen
        /\ Gone.XferDoneLen = pMSC.XferDoneLen + pMSC.LastXferLen
    BY <1>1 DEF Gone, Control
  <2>2. pMSC.XferTotalLen - (pMSC.XferDoneLen + pMSC.LastXferLen)
          = 2 * (EndBlock - pos)
    BY <1>2, <1>4 DEF Agree, Sums
  <2> QED
    BY <1>2, <2>1, <2>2 DEF Left
<1>5. ReadFits
  BY <1>3, <1>4 DEF Agree, Sums, Fetched, ReadFits
<1> QED
  BY <1>1, <1>5 DEF Agree, Inv

(* The transport and the driver agree on where a transfer is, whatever the *)
(* host sends, loses or resets and whenever the timer restarts the device: *)
(* what the task asks for is what the driver has left, what is in the      *)
(* buffer of a write is what was counted, and the cache on its way to the  *)
(* host is not the one that is read into.                                  *)
THEOREM TransferFits == Spec => []Inv
<1>1. Init => MscInv /\ Agree
  BY InitMscType, InitSdInv, InitAgree DEF Init, MscInv
<1>2. MscInv /\ Agree /\ [Next]_vars => (MscInv /\ Agree)'
  BY MscInvStep, AgreeStep
<1>3. MscInv /\ Agree => Inv
  BY AgreeFits
<1> QED
  BY <1>1, <1>2, <1>3, PTL DEF Spec

-----------------------------------------------------------------------------
(***************************************************************************)
(* What the host is told.  A command is known by its tag: from the packet  *)
(* that brings it to the status that ends it, what goes by the tag of the  *)
(* host's command is that command, behind it come only its own packets,    *)
(* and what is left of earlier commands has other tags.                    *)
(***************************************************************************)
OnlyItsData(i) ==
  \A j \in i..Len(events) :
    /\ events[j].kind # "cbw"
    /\ events[j].kind = "data" => events[j].data = host.cmd.data

OnItsWay ==
  host.cmd.tag > 0 =>
    \A i \in 1..Len(events) :
      events[i].kind = "cbw" /\ events[i].cbw.tag = host.cmd.tag =>
        /\ events[i].cbw = host.cmd
        /\ pMSC.CBW.tag # host.cmd.tag
        /\ tx.kind = "csw" => tx.tag # host.cmd.tag
        /\ OnlyItsData(i + 1)

AtWork ==
  host.cmd.tag > 0 /\ pMSC.CBW.tag = host.cmd.tag =>
    /\ pMSC.CBW = host.cmd
    /\ OnlyItsData(1)
    /\ pMSC.BotState = "data_out" =>
         \A k \in 1..Len(CacheBuf.data) : CacheBuf.data[k] = host.cmd.data

HandedOver ==
  \A b \in host.cmd.at..(host.cmd.at + host.cmd.n - 1) :
    disk[b] = host.cmd.data

Told ==
  host.cmd.tag > 0 /\ tx.kind = "csw" =>
    (tx.tag = host.cmd.tag =>
       /\ pMSC.CBW.tag = host.cmd.tag
       /\ pMSC.BotState \in {"csw", "idle"}
       /\ pc \in {"wait", "again", "rest"}
       /\ tx.status = "passed" /\ host.cmd.op = "write" => HandedOver
       /\ tx.status = "failed" => pMSC.Sense)

Reasons ==
  /\ pMSC.CSWStatus = "failed" \/ pc = "again" => pMSC.Sense
  /\ pc \in {"first", "next", "start"} => pMSC.CSWStatus = "passed"

Directions ==
  /\ pMSC.BotState = "data_out" =>
       /\ pMSC.CBW.op = "write"
       /\ CurBlock = pMSC.CBW.at /\ EndBlock = pMSC.CBW.at + pMSC.CBW.n
  /\ pMSC.BotState = "data_in" \/ pc = "first" => pMSC.CBW.op # "write"

Asks == host.st # "idle" => host.cmd.tag > 0

Truthful == OnItsWay /\ AtWork /\ Told /\ Reasons /\ Directions /\ Asks

LEMMA InitTruthful == Init => Truthful
  BY DEF Init, Truthful, OnItsWay, AtWork, Told, Reasons, Directions, Asks,
         NoCommand, Nothing

(* The queue lost its head or kept it; what came is no command, and data   *)
(* only of the host's.                                                     *)
NothingNew ==
  \E d \in {0, 1} :
    \A i \in 1..Len(events') :
      \/ i + d \in 1..Len(events) /\ events'[i] = events[i + d]
      \/ /\ events'[i].kind # "cbw"
         /\ events'[i].kind = "data" => events'[i].data = host.cmd.data

LEMMA QueueShifts ==
  ASSUME MscTypeOK,
         NEW q, q = events \/ (events # <<>> /\ q = Tail(events)),
         NEW e \in Event, e.kind # "cbw", e.kind = "data" => e.data = host.cmd.data,
         events' = q \/ events' = Append(q, e)
  PROVE  NothingNew
<1>1. events \in Seq(Event) /\ Len(events) \in Nat
  BY DEF MscTypeOK
<1>2. PICK d \in {0, 1} :
        /\ q \in Seq(Event) /\ Len(q) \in Nat
        /\ \A i \in 1..Len(q) : i + d \in 1..Len(events) /\ q[i] = events[i + d]
  <2>1. CASE q = events
    <3>1. \A i \in 1..Len(q) : i + 0 \in 1..Len(events) /\ q[i] = events[i + 0]
      BY <1>1, <2>1
    <3> QED
      BY <1>1, <2>1, <3>1
  <2>2. CASE events # <<>> /\ q = Tail(events)
    <3>1. /\ Len(q) = Len(events) - 1 /\ q \in Seq(Event)
          /\ \A i \in 1..(Len(events) - 1) : q[i] = events[i + 1]
      BY <1>1, <2>2, HeadTail
    <3>2. \A i \in 1..Len(q) : i + 1 \in 1..Len(events) /\ q[i] = events[i + 1]
      BY <1>1, <3>1
    <3> QED
      BY <1>1, <3>1, <3>2
  <2> QED
    BY <2>1, <2>2
<1>3. \A i \in 1..Len(events') :
        \/ i + d \in 1..Len(events) /\ events'[i] = events[i + d]
        \/ events'[i] = e
  <2>1. ASSUME NEW i \in 1..Len(events')
        PROVE  (i \in 1..Len(q) /\ events'[i] = q[i]) \/ events'[i] = e
    <3>1. CASE events' = q
      BY <3>1
    <3>2. CASE events' = Append(q, e)
      BY <1>2, <3>2
    <3> QED
      BY <3>1, <3>2
  <2> QED
    BY <1>2, <2>1
<1> QED
  BY <1>3 DEF NothingNew

(* No new command: what was on its way or at work is so still.             *)
LEMMA StillAtWork ==
  ASSUME MscTypeOK, Truthful, NothingNew,
         host'.cmd = host.cmd, pMSC'.CBW = pMSC.CBW,
         tx'.kind = "csw" => tx' = tx \/ tx'.tag = pMSC.CBW.tag,
         pMSC'.BotState = "data_out" =>
           \/ pMSC.BotState = "data_out" /\ CacheBuf' = CacheBuf
           \/ pMSC.CBW.tag # host.cmd.tag
           \/ \A k \in 1..Len(CacheBuf'.data) : CacheBuf'.data[k] = host.cmd.data
  PROVE  OnItsWay' /\ AtWork'
<1>1. PICK d \in {0, 1} :
        \A i \in 1..Len(events') :
          \/ i + d \in 1..Len(events) /\ events'[i] = events[i + d]
          \/ /\ events'[i].kind # "cbw"
             /\ events'[i].kind = "data" => events'[i].data = host.cmd.data
  BY DEF NothingNew
<1>2. Len(events) \in Nat /\ d \in Nat
  BY DEF MscTypeOK
<1>3. ASSUME NEW i \in Nat, OnlyItsData(i + d)
      PROVE  i > 0 => OnlyItsData(i)'
  <2> SUFFICES ASSUME i > 0, NEW j \in i..Len(events')
               PROVE  /\ events'[j].kind # "cbw"
                      /\ events'[j].kind = "data" => events'[j].data = host.cmd.data
    BY DEF OnlyItsData
  <2>1. j \in 1..Len(events') /\ j \in Int /\ i <= j
    BY <1>3
  <2>2. CASE j + d \in 1..Len(events) /\ events'[j] = events[j + d]
    <3>1. j + d \in (i + d)..Len(events)
      BY <1>2, <1>3, <2>1, <2>2
    <3> QED
      BY <1>3, <2>2, <3>1 DEF OnlyItsData
  <2> QED
    BY <1>1, <2>1, <2>2
<1>4. OnItsWay'
  <2> SUFFICES ASSUME host.cmd.tag > 0, NEW i \in 1..Len(events'),
                      events'[i].kind = "cbw", events'[i].cbw.tag = host.cmd.tag
               PROVE  /\ events'[i].cbw = host.cmd
                      /\ pMSC.CBW.tag # host.cmd.tag
                      /\ tx'.kind = "csw" => tx'.tag # host.cmd.tag
                      /\ OnlyItsData(i + 1)'
    BY DEF OnItsWay
  <2>1. i + d \in 1..Len(events) /\ events'[i] = events[i + d]
    BY <1>1
  <2>2. /\ events[i + d].cbw = host.cmd
        /\ pMSC.CBW.tag # host.cmd.tag
        /\ tx.kind = "csw" => tx.tag # host.cmd.tag
        /\ OnlyItsData((i + d) + 1)
    BY <2>1 DEF Truthful, OnItsWay
  <2>3. (i + d) + 1 = (i + 1) + d /\ i + 1 \in Nat /\ i + 1 > 0
    BY <1>2
  <2>4. OnlyItsData((i + 1) + d)
    BY <2>2, <2>3
  <2>5. OnlyItsData(i + 1)'
    BY <1>3, <2>3, <2>4
  <2> QED
    BY <2>1, <2>2, <2>5
<1>5. AtWork'
  <2> SUFFICES ASSUME host.cmd.tag > 0, pMSC.CBW.tag = host.cmd.tag
               PROVE  /\ pMSC.CBW = host.cmd
                      /\ OnlyItsData(1)'
                      /\ pMSC'.BotState = "data_out" =>
                           \A k \in 1..Len(CacheBuf'.data) :
                             CacheBuf'.data[k] = host.cmd.data
    BY DEF AtWork
  <2>1. /\ pMSC.CBW = host.cmd /\ OnlyItsData(1)
        /\ pMSC.BotState = "data_out" =>
             \A k \in 1..Len(CacheBuf.data) : CacheBuf.data[k] = host.cmd.data
    BY DEF Truthful, AtWork
  <2>2. OnlyItsData(1 + d)
    BY <1>2, <2>1 DEF OnlyItsData
  <2>3. OnlyItsData(1)'
    BY <1>3, <2>2
  <2> QED
    BY <2>1, <2>3
<1> QED
  BY <1>4, <1>5

(* A command is taken.                                                     *)
LEMMA NowAtWork ==
  ASSUME MscTypeOK, Truthful, NEW ops, TakeCommand(ops),
         host' = host, pMSC'.CBW = Command.CBW,
         tx'.kind = "csw" => tx' = tx \/ tx'.tag = Command.CBW.tag,
         pMSC'.BotState = "data_out" => CacheBuf'.data = <<>>
  PROVE  /\ OnItsWay' /\ AtWork'
         /\ host.cmd.tag > 0 /\ tx.kind = "csw" => tx.tag # host.cmd.tag
<1>1. /\ events # <<>> /\ Head(events).kind = "cbw" /\ events' = Tail(events)
      /\ Command.CBW = Head(events).cbw
  BY CommandType DEF TakeCommand, Take
<1>2. /\ Head(events) = events[1] /\ 1 \in 1..Len(events) /\ Len(events) \in Nat
      /\ Len(Tail(events)) = Len(events) - 1
      /\ \A i \in 1..(Len(events) - 1) : Tail(events)[i] = events[i + 1]
  BY <1>1, HeadTail DEF MscTypeOK
<1>3. ASSUME NEW i \in Nat, i > 0, OnlyItsData(i + 1)
      PROVE  OnlyItsData(i)'
  <2> SUFFICES ASSUME NEW j \in i..Len(events')
               PROVE  /\ events'[j].kind # "cbw"
                      /\ events'[j].kind = "data" => events'[j].data = host.cmd.data
    BY DEF OnlyItsData
  <2>1. events'[j] = events[j + 1] /\ j + 1 \in (i + 1)..Len(events)
    BY <1>1, <1>2, <1>3
  <2> QED
    BY <1>3, <2>1 DEF OnlyItsData
<1>4. ASSUME host.cmd.tag > 0
      PROVE  pMSC.CBW.tag # host.cmd.tag
  <2>1. ~OnlyItsData(1)
    BY <1>1, <1>2 DEF OnlyItsData
  <2> QED
    BY <1>4, <2>1 DEF Truthful, AtWork
<1>5. host.cmd.tag > 0 /\ tx.kind = "csw" => tx.tag # host.cmd.tag
  BY <1>4 DEF Truthful, Told
<1>6. OnItsWay'
  <2> SUFFICES ASSUME host.cmd.tag > 0, NEW i \in 1..Len(events'),
                      events'[i].kind = "cbw", events'[i].cbw.tag = host.cmd.tag
               PROVE  /\ events'[i].cbw = host.cmd
                      /\ Command.CBW.tag # host.cmd.tag
                      /\ tx'.kind = "csw" => tx'.tag # host.cmd.tag
                      /\ OnlyItsData(i + 1)'
    BY DEF OnItsWay
  <2>1. /\ i \in Nat /\ i > 0 /\ i + 1 \in 1..Len(events) /\ events'[i] = events[i + 1]
        /\ i + 1 \in 2..Len(events)
    BY <1>1, <1>2
  <2>2. events[i + 1].cbw = host.cmd /\ OnlyItsData((i + 1) + 1)
    BY <2>1 DEF Truthful, OnItsWay
  <2>3. OnlyItsData(i + 1)'
    BY <1>3, <2>1, <2>2
  <2>4. Head(events).cbw.tag # host.cmd.tag
    <3>1. ~OnlyItsData(1 + 1)
      BY <2>1 DEF OnlyItsData
    <3> QED
      BY <1>1, <1>2, <3>1 DEF Truthful, OnItsWay
  <2> QED
    BY <1>1, <1>5, <2>1, <2>2, <2>3, <2>4
<1>7. AtWork'
  <2> SUFFICES ASSUME host.cmd.tag > 0, Command.CBW.tag = host.cmd.tag
               PROVE  /\ Command.CBW = host.cmd
                      /\ OnlyItsData(1)'
                      /\ pMSC'.BotState = "data_out" =>
                           \A k \in 1..Len(CacheBuf'.data) :
                             CacheBuf'.data[k] = host.cmd.data
    BY DEF AtWork
  <2>1. events[1].cbw = host.cmd /\ OnlyItsData(1 + 1)
    BY <1>1, <1>2 DEF Truthful, OnItsWay
  <2>2. OnlyItsData(1)'
    BY <1>3, <2>1
  <2> QED
    BY <1>1, <1>2, <2>1, <2>2
<1> QED
  BY <1>5, <1>6, <1>7

(* A status is sent: it is that of the command at work.                    *)
LEMMA StatusIsTrue ==
  ASSUME Truthful, NEW m \in Control, SendCSW(m), OnItsWay', AtWork',
         host' = host, pc' \in {"wait", "again", "rest"},
         m.CSWStatus = "failed" \/ pc' = "again" => m.Sense,
         m.CSWStatus = "passed" /\ m.CBW = host.cmd /\ host.cmd.op = "write"
           /\ host.cmd.tag > 0 => HandedOver'
  PROVE  Truthful'
<1>1. /\ pMSC'.CBW = m.CBW /\ pMSC'.BotState = "csw"
      /\ pMSC'.CSWStatus = m.CSWStatus /\ pMSC'.Sense = m.Sense
      /\ tx' = [kind |-> "csw", tag |-> m.CBW.tag, status |-> m.CSWStatus]
  BY DEF SendCSW, Control
<1>2. Told'
  <2> SUFFICES ASSUME host.cmd.tag > 0, m.CBW.tag = host.cmd.tag
               PROVE  /\ m.CSWStatus = "passed" /\ host.cmd.op = "write" => HandedOver'
                      /\ m.CSWStatus = "failed" => m.Sense
    BY <1>1 DEF Told
  <2>1. m.CBW = host.cmd
    BY <1>1 DEF AtWork
  <2> QED
    BY <2>1
<1>3. Reasons' /\ Directions' /\ Asks'
  BY <1>1 DEF Truthful, Reasons, Directions, Asks
<1> QED
  BY <1>2, <1>3 DEF Truthful

LEMMA FailedSays ==
  ASSUME NEW m \in Control
  PROVE  /\ Failed(m) \in Control /\ Failed(m).CBW = m.CBW
         /\ Failed(m).CSWStatus = "failed" /\ Failed(m).Sense
         /\ Failed(m).BotState = m.BotState
  BY FailedType DEF Failed, Control

LEMMA CommandsTruthful ==
  ASSUME MscTypeOK, SdTypeOK, Agree, Truthful,
         Refuse \/ NoData \/ SendBotData \/ WriteCommand \/ ReadCommand
  PROVE  Truthful'
<1>0. host' = host
  BY DEF Refuse, NoData, SendBotData, WriteCommand, ReadCommand
<1>1. CASE Refuse
  <2>1. /\ TakeCommand(Ops) /\ SendCSW(Failed(Command)) /\ pc' \in {"again", "wait"}
    BY <1>1 DEF Refuse, FailCommand
  <2>2. /\ Failed(Command) \in Control /\ Failed(Command).CBW = Command.CBW
        /\ Failed(Command).CSWStatus = "failed" /\ Failed(Command).Sense
    <3>1. Command \in Control
      BY <2>1, CommandSays
    <3> QED
      BY <3>1, FailedSays
  <2>3. /\ pMSC'.CBW = Command.CBW /\ pMSC'.BotState = "csw"
        /\ tx'.tag = Command.CBW.tag
    BY <2>1, <2>2 DEF SendCSW, Control
  <2>4. OnItsWay' /\ AtWork'
    BY <1>0, <2>1, <2>3, NowAtWork
  <2> QED
    BY <1>0, <2>1, <2>2, <2>4, StatusIsTrue
<1>2. CASE NoData
  <2> DEFINE ops == {"test", "eject", "load", "lock", "unlock"}
             m == [Command EXCEPT !.Sense = FALSE,
                                  !.MediumState = Medium(Command.CBW.op)]
  <2>1. /\ TakeCommand(ops) /\ SendCSW(m) /\ pc' = pc
    BY <1>2 DEF NoData
  <2>2. /\ Command \in Control /\ Command.CBW.op \in ops /\ pc = "wait"
        /\ Command.CSWStatus = "passed"
    BY <2>1, CommandSays DEF MscTypeOK, Control, Command
  <2>3. Medium(Command.CBW.op) \in {"unlocked", "locked", "ejected"}
    BY <2>2 DEF Medium, MscTypeOK, Control
  <2>4. /\ m \in Control /\ m.CBW = Command.CBW /\ m.CSWStatus = "passed"
    BY <2>2, <2>3 DEF Control
  <2> HIDE DEF m
  <2>5. /\ pMSC'.CBW = Command.CBW /\ pMSC'.BotState = "csw"
        /\ tx'.tag = Command.CBW.tag
    BY <2>1, <2>4 DEF SendCSW, Control
  <2>6. OnItsWay' /\ AtWork'
    BY <1>0, <2>1, <2>5, NowAtWork
  <2> QED
    BY <1>0, <2>1, <2>2, <2>4, <2>6, StatusIsTrue
<1>3. CASE SendBotData
  <2>1. /\ TakeCommand({"sense"}) /\ pc' = pc /\ tx' = [kind |-> "sense"]
        /\ pMSC' = [Command EXCEPT !.Sense = FALSE, !.BotState = "data_in",
                                   !.XferTotalLen = 1, !.LastXferLen = 1]
    BY <1>3 DEF SendBotData
  <2>2. /\ Command \in Control /\ Command.CBW.op = "sense" /\ pc = "wait"
        /\ Command.CSWStatus = "passed"
    BY <2>1, CommandSays DEF MscTypeOK, Control, Command
  <2>3. /\ pMSC'.CBW = Command.CBW /\ pMSC'.BotState = "data_in"
        /\ pMSC'.CSWStatus = "passed" /\ tx'.kind # "csw"
    BY <2>1, <2>2 DEF Control
  <2>4. OnItsWay' /\ AtWork'
    BY <1>0, <2>1, <2>3, NowAtWork
  <2> QED
    BY <1>0, <2>1, <2>2, <2>3, <2>4
       DEF Truthful, Told, Reasons, Directions, Asks
<1>4. CASE WriteCommand
  <2>1. /\ TakeCommand({"write"}) /\ pc' = pc /\ tx' = tx
        /\ PreWrite(Command.CBW.at, Command.CBW.n)
        /\ pMSC' = [Command EXCEPT !.Sense = FALSE, !.BotState = "data_out",
                                   !.XferTotalLen = Length(Command.CBW)]
    BY <1>4 DEF WriteCommand
  <2>2. /\ Command \in Control /\ Command.CBW.op = "write" /\ pc = "wait"
        /\ Command.CSWStatus = "passed"
    BY <2>1, CommandSays DEF MscTypeOK, Control, Command
  <2>3. /\ pMSC'.CBW = Command.CBW /\ pMSC'.BotState = "data_out"
        /\ pMSC'.CSWStatus = "passed"
    BY <2>1, <2>2 DEF Control
  <2>4. /\ CacheBuf'.data = <<>>
        /\ CurBlock' = Command.CBW.at /\ EndBlock' = Command.CBW.at + Command.CBW.n
    BY <2>1 DEF PreWrite
  <2>5. /\ OnItsWay' /\ AtWork'
        /\ host.cmd.tag > 0 /\ tx.kind = "csw" => tx.tag # host.cmd.tag
    BY <1>0, <2>1, <2>3, <2>4, NowAtWork
  <2> QED
    BY <1>0, <2>1, <2>2, <2>3, <2>4, <2>5
       DEF Truthful, Told, Reasons, Directions, Asks
<1>5. CASE ReadCommand
  <2>1. /\ TakeCommand({"read"}) /\ pc' = "first" /\ tx' = tx
        /\ pMSC' = [Command EXCEPT !.XferTotalLen = Length(Command.CBW)]
    BY <1>5 DEF ReadCommand
  <2>2. /\ Command \in Control /\ Command.CBW.op = "read"
        /\ Command.CSWStatus = "passed" /\ Command.BotState = "idle"
    BY <2>1, CommandSays DEF MscTypeOK, Control, Command
  <2>3. /\ pMSC'.CBW = Command.CBW /\ pMSC'.BotState = "idle"
        /\ pMSC'.CSWStatus = "passed"
    BY <2>1, <2>2 DEF Control
  <2>4. /\ OnItsWay' /\ AtWork'
        /\ host.cmd.tag > 0 /\ tx.kind = "csw" => tx.tag # host.cmd.tag
    BY <1>0, <2>1, <2>3, NowAtWork
  <2> QED
    BY <1>0, <2>1, <2>2, <2>3, <2>4
       DEF Truthful, Told, Reasons, Directions, Asks
<1> QED
  BY <1>1, <1>2, <1>3, <1>4, <1>5

LEMMA InIsEvent ==
  /\ [kind |-> "in"] \in Event /\ [kind |-> "empty"] \in Event
  BY DEF Event

(* A status is sent in the middle of a command, or where none is.          *)
LEMMA LateStatusIsTrue ==
  ASSUME MscTypeOK, Truthful, NothingNew, NEW m \in Control, SendCSW(m),
         m.CBW = pMSC.CBW, host' = host, pc' \in {"wait", "again", "rest"},
         m.CSWStatus = "failed" \/ pc' = "again" => m.Sense,
         m.CSWStatus = "passed" /\ m.CBW = host.cmd /\ host.cmd.op = "write"
           /\ host.cmd.tag > 0 => HandedOver'
  PROVE  Truthful'
<1>1. /\ pMSC'.CBW = pMSC.CBW /\ pMSC'.BotState = "csw"
      /\ tx'.tag = pMSC.CBW.tag
  BY DEF SendCSW, Control
<1>2. OnItsWay' /\ AtWork'
  BY <1>1, StillAtWork
<1> QED
  BY <1>2, StatusIsTrue

(* Data is sent.                                                           *)
LEMMA DataIsTruthful ==
  ASSUME MscTypeOK, Truthful, NothingNew, NEW m \in Control, NEW rest,
         TxData(m, rest), m.CBW = pMSC.CBW, m.CBW.op # "write", host' = host,
         pc' \in {"next", "rest"},
         m.CSWStatus = pMSC.CSWStatus, m.Sense = pMSC.Sense,
         pc' = "next" => m.CSWStatus = "passed"
  PROVE  Truthful'
<1> DEFINE c == 2 * Len(Current(Left(m)))
<1>1. /\ pMSC' = [m EXCEPT !.LastXferLen = c, !.BotState = "data_in"]
      /\ tx'.kind # "csw"
  BY DEF TxData, Nothing
<1> HIDE DEF c
<1>2. /\ pMSC'.CBW = m.CBW /\ pMSC'.BotState = "data_in"
      /\ pMSC'.CSWStatus = m.CSWStatus /\ pMSC'.Sense = m.Sense
  BY <1>1 DEF Control
<1>3. OnItsWay' /\ AtWork'
  BY <1>1, <1>2, StillAtWork
<1> QED
  BY <1>1, <1>2, <1>3 DEF Truthful, Told, Reasons, Directions, Asks

LEMMA ReadsTruthful ==
  ASSUME MscTypeOK, SdTypeOK, Agree, Truthful,
         ReadFirst \/ ReadAhead \/ StartTimer \/ AllSent \/ ReadMore
  PROVE  Truthful'
<1>0. host' = host
  BY DEF ReadFirst, ReadAhead, StartTimer, AllSent, ReadMore
<1>c. /\ pMSC \in Control
      /\ Gone \in Control /\ Gone.CBW = pMSC.CBW
      /\ Gone.CSWStatus = pMSC.CSWStatus /\ Gone.Sense = pMSC.Sense
  <2>1. pMSC \in Control
    BY DEF MscTypeOK
  <2>2. pMSC.XferDoneLen + pMSC.LastXferLen \in Nat
    BY <2>1, ControlFields
  <2>3. Gone = [pMSC EXCEPT !.XferDoneLen = pMSC.XferDoneLen + pMSC.LastXferLen]
    BY <2>1 DEF Gone, Control
  <2> QED
    BY <2>1, <2>2, <2>3 DEF Control
<1>1. CASE ReadFirst
  <2>1. /\ pc = "first" /\ pMSC.CBW.op # "write" /\ pMSC.CSWStatus = "passed"
    BY <1>1 DEF ReadFirst, Truthful, Directions, Reasons
  <2>2. CASE isReady
    <3>1. TxData(pMSC, events) /\ pc' = "next"
      BY <1>1, <2>2 DEF ReadFirst
    <3>2. events' = events \/ events' = Append(events, [kind |-> "in"])
      BY <3>1 DEF TxData
    <3>3. NothingNew
      BY <3>2, InIsEvent, QueueShifts
    <3> QED
      BY <1>0, <1>c, <2>1, <3>1, <3>3, DataIsTruthful
  <2>3. CASE ~isReady
    <3>1. /\ SendCSW(Failed(pMSC)) /\ pc' \in {"again", "wait"} /\ events' = events
      BY <1>1, <2>3 DEF ReadFirst, FailCommand
    <3>2. NothingNew
      BY <3>1, InIsEvent, QueueShifts
    <3> QED
      BY <1>0, <1>c, FailedSays, <3>1, <3>2, LateStatusIsTrue
  <2> QED
    BY <2>2, <2>3
<1>2. CASE ReadAhead
  <2>1. /\ pc \in {"next", "rest"} /\ pc' = IF pc = "next" THEN "start" ELSE "wait"
        /\ UNCHANGED <<pMSC, tx, events, CurBlock, EndBlock, CacheBuf, disk>>
    BY <1>2 DEF ReadAhead, ReadNext, busVars, cacheVars, storeVars
  <2>2. NothingNew
    BY <2>1, InIsEvent, QueueShifts
  <2>3. OnItsWay' /\ AtWork'
    BY <1>0, <2>1, <2>2, StillAtWork
  <2> QED
    BY <1>0, <2>1, <2>3
       DEF Truthful, Told, HandedOver, Reasons, Directions, Asks
<1>3. CASE StartTimer
  <2>1. /\ pc = "start" /\ pc' = "wait" /\ pMSC' = [pMSC EXCEPT !.Sense = FALSE]
        /\ UNCHANGED <<tx, events, CurBlock, EndBlock, CacheBuf>>
    BY <1>3 DEF StartTimer, busVars, sdVars, cacheVars
  <2>2. /\ pMSC'.CBW = pMSC.CBW /\ pMSC'.BotState = pMSC.BotState
        /\ pMSC'.CSWStatus = pMSC.CSWStatus
    BY <1>c, <2>1 DEF Control
  <2>3. NothingNew
    BY <2>1, InIsEvent, QueueShifts
  <2>4. OnItsWay' /\ AtWork'
    BY <1>0, <2>1, <2>2, <2>3, StillAtWork
  <2>5. Told'
    BY <1>0, <2>1 DEF Truthful, Told
  <2> QED
    BY <1>0, <2>1, <2>2, <2>4, <2>5 DEF Truthful, Reasons, Directions, Asks
<1>4. CASE AllSent
  <2>1. /\ pMSC.BotState = "data_in" /\ pc = "wait" /\ pc' = "wait"
        /\ events # <<>> /\ events' = Tail(events) /\ SendCSW(Gone)
    BY <1>4 DEF AllSent, Sent, Take
  <2>2. NothingNew
    BY <2>1, InIsEvent, QueueShifts
  <2>3. Gone.CBW.op # "write" /\ (Gone.CSWStatus = "failed" => Gone.Sense)
    BY <1>c, <2>1 DEF Truthful, Directions, Reasons
  <2> QED
    BY <1>0, <1>c, <2>1, <2>2, <2>3, LateStatusIsTrue
<1>5. CASE ReadMore
  <2>1. /\ pMSC.BotState = "data_in" /\ pc' = "rest" /\ events # <<>>
    BY <1>5 DEF ReadMore, Sent, Take
  <2>2. Gone.CBW.op # "write" /\ (Gone.CSWStatus = "failed" => Gone.Sense)
    BY <1>c, <2>1 DEF Truthful, Directions, Reasons
  <2>3. CASE isReady
    <3>1. TxData(Gone, Tail(events))
      BY <1>5, <2>3 DEF ReadMore
    <3>2. \/ events' = Tail(events)
          \/ events' = Append(Tail(events), [kind |-> "in"])
      BY <3>1 DEF TxData
    <3>3. NothingNew
      BY <2>1, <3>2, InIsEvent, QueueShifts
    <3> QED
      BY <1>0, <1>c, <2>1, <2>2, <3>1, <3>3, DataIsTruthful
  <2>4. CASE ~isReady
    <3>1. SendCSW(Failed(Gone)) /\ events' = Tail(events)
      BY <1>5, <2>4 DEF ReadMore
    <3>2. NothingNew
      BY <2>1, <3>1, InIsEvent, QueueShifts
    <3> QED
      BY <1>0, <1>c, FailedSays, <2>1, <3>1, <3>2, LateStatusIsTrue
  <2> QED
    BY <2>3, <2>4
<1> QED
  BY <1>1, <1>2, <1>3, <1>4, <1>5

LEMMA RestTruthful ==
  ASSUME MscTypeOK, SdTypeOK, Agree, Truthful,
         NotACommand \/ PhaseError \/ CSWSent \/ NothingToSend \/ Again
  PROVE  Truthful'
<1>0. host' = host
  BY DEF NotACommand, PhaseError, CSWSent, NothingToSend, Again
<1>c. pMSC \in Control
  BY DEF MscTypeOK
<1>n. NothingNew
  <2>1. \/ events # <<>> /\ events' = Tail(events)
        \/ events' = events
    BY DEF NotACommand, PhaseError, CSWSent, NothingToSend, Again, Sent, Take
  <2> QED
    BY <2>1, InIsEvent, QueueShifts
<1>1. CASE NotACommand \/ Again
  <2>1. PICK m \in Control :
          /\ SendCSW([m EXCEPT !.CSWStatus = "failed"]) /\ pc' = "wait"
          /\ m.CBW = pMSC.CBW /\ m.Sense
    <3>1. CASE NotACommand
      <4>1. [pMSC EXCEPT !.Sense = TRUE] \in Control
        BY <1>c, FailedType
      <4>2. /\ [pMSC EXCEPT !.Sense = TRUE].CBW = pMSC.CBW
            /\ [pMSC EXCEPT !.Sense = TRUE].Sense
        BY <1>c DEF Control
      <4> QED
        BY <3>1, <4>1, <4>2 DEF NotACommand, Take, ErrorOut
    <3>2. CASE Again
      BY <1>c, <3>2 DEF Again, ErrorOut, Truthful, Reasons
    <3> QED
      BY <1>1, <3>1, <3>2
  <2> DEFINE f == [m EXCEPT !.CSWStatus = "failed"]
  <2>2. f \in Control /\ f.CBW = pMSC.CBW /\ f.CSWStatus = "failed" /\ f.Sense
    BY <2>1 DEF Control, Status
  <2> QED
    BY <1>0, <1>n, <2>1, <2>2, LateStatusIsTrue
<1>2. CASE PhaseError
  <2> DEFINE f == [pMSC EXCEPT !.CSWStatus = "phase"]
  <2>1. SendCSW(f) /\ pc' = "wait"
    BY <1>2 DEF PhaseError, Take
  <2>2. f \in Control /\ f.CBW = pMSC.CBW /\ f.CSWStatus = "phase"
    BY <1>c DEF Control, Status
  <2> QED
    BY <1>0, <1>n, <2>1, <2>2, LateStatusIsTrue
<1>3. CASE NothingToSend
  <2>1. SendCSW(Failed(pMSC)) /\ pc' = "wait"
    BY <1>3 DEF NothingToSend, Sent, Take
  <2> QED
    BY <1>0, <1>c, <1>n, <2>1, FailedSays, LateStatusIsTrue
<1>4. CASE CSWSent
  <2>1. /\ pMSC' = [pMSC EXCEPT !.BotState = "idle"]
        /\ UNCHANGED <<tx, pc, disk>> /\ pc = "wait"
    BY <1>4 DEF CSWSent, Sent, Take, sdVars, storeVars
  <2>2. /\ pMSC'.BotState = "idle" /\ pMSC'.CBW = pMSC.CBW
        /\ pMSC'.CSWStatus = pMSC.CSWStatus /\ pMSC'.Sense = pMSC.Sense
    BY <1>c, <2>1 DEF Control
  <2>3. OnItsWay' /\ AtWork'
    BY <1>0, <1>n, <2>1, <2>2, StillAtWork
  <2> QED
    BY <1>0, <2>1, <2>2, <2>3
       DEF Truthful, Told, HandedOver, Reasons, Directions, Asks
<1> QED
  BY <1>1, <1>2, <1>3, <1>4

(* All packets of a write hold the same: so do its blocks.                 *)
LEMMA JoinedSays ==
  ASSUME SdTypeOK, turn = "write", WriteFits, NEW ps \in Seq(Contents),
         NEW c, \A k \in 1..Len(ps) : ps[k] = c,
         Len(ps) >= CacheBuf.max, HandOver(Joined(ps))
  PROVE  \A b \in CurBlock..(EndBlock - 1) : disk'[b] = c
<1>1. /\ CurBlock \in Nat /\ EndBlock \in Nat /\ CurBlock < EndBlock
      /\ EndBlock <= LogBlockNbr /\ LogBlockNbr \in Nat
      /\ CacheBuf.max = 2 * (EndBlock - CurBlock)
  BY SizesType DEF SdTypeOK, WriteFits
<1> SUFFICES ASSUME NEW b \in CurBlock..(EndBlock - 1)
             PROVE  disk'[b] = c
  OBVIOUS
<1>2. /\ Len(Joined(ps).data) = EndBlock - CurBlock /\ Joined(ps).at = CurBlock
  BY JoinedType
<1>3. b \in Blks /\ b \in Span(Joined(ps))
  BY <1>1, <1>2 DEF Blks, Span
<1>4. disk'[b] = At(Joined(ps), b)
  BY <1>3 DEF HandOver
<1> DEFINE j == b - CurBlock + 1
<1>5. /\ j \in 1..(EndBlock - CurBlock) /\ 2 * j <= Len(ps)
      /\ 2 * j \in 1..Len(ps) /\ 2 * j - 1 \in 1..Len(ps)
  BY <1>1
<1>6. At(Joined(ps), b) = Joined(ps).data[j]
  BY <1>2 DEF At
<1> HIDE DEF j
<1>7. Joined(ps).data[j] = ps[2 * j]
  BY <1>5 DEF Joined
<1> QED
  BY <1>4, <1>5, <1>6, <1>7

LEMMA DataTruthful ==
  ASSUME MscTypeOK, SdTypeOK, WriteFits, Agree, Truthful, ToDeviceData
  PROVE  Truthful'
<1> DEFINE e == Head(events)
           fails == e.kind # "empty" /\ (~isReady \/ EndBlock <= CurBlock)
           done == pMSC.XferDoneLen + PacketLen(e)
           m == [IF fails THEN Failed(pMSC) ELSE pMSC EXCEPT !.XferDoneLen = done]
           x == IF e.kind = "data" THEN e.data ELSE Junk
           ps == Append(CacheBuf.data, x)
<1>1. /\ pc = "wait" /\ pc' = "wait" /\ pMSC.BotState = "data_out"
      /\ events # <<>> /\ events' = Tail(events) /\ host' = host
      /\ e.kind \in {"cbw", "data", "empty"}
      /\ IF fails \/ e.kind = "empty" THEN UNCHANGED sdVars ELSE Write(x)
      /\ IF done >= pMSC.XferTotalLen
         THEN SendCSW(m)
         ELSE pMSC' = m /\ UNCHANGED <<tx, ReadTimer>>
  BY DEF ToDeviceData, Take
<1>2. pMSC \in Control /\ pMSC.XferDoneLen \in Nat /\ pMSC.XferTotalLen \in Nat
  BY ControlFields DEF MscTypeOK
<1>3. /\ turn = "write" /\ CacheBuf.max = pMSC.XferTotalLen
      /\ pMSC.XferDoneLen < pMSC.XferTotalLen
      /\ pMSC.CSWStatus = "passed" => Len(CacheBuf.data) = pMSC.XferDoneLen
  BY <1>1 DEF Agree, DataFits
<1>4. CacheBuf \in [data : Seq(Contents), max : Nat] /\ Len(CacheBuf.data) \in Nat
  BY DEF SdTypeOK
<1>5. /\ done \in Nat
      /\ done = IF e.kind = "empty" THEN pMSC.XferDoneLen ELSE pMSC.XferDoneLen + 1
  BY <1>2 DEF PacketLen
<1>6. /\ m \in Control /\ m.CBW = pMSC.CBW /\ m.BotState = "data_out"
      /\ m.CSWStatus = IF fails THEN "failed" ELSE pMSC.CSWStatus
      /\ m.CSWStatus = "failed" => m.Sense
  <2>1. /\ Failed(pMSC) \in Control /\ Failed(pMSC).CBW = pMSC.CBW
        /\ Failed(pMSC).CSWStatus = "failed" /\ Failed(pMSC).Sense
        /\ Failed(pMSC).BotState = pMSC.BotState
    BY <1>2, FailedSays
  <2>2. pMSC.CSWStatus = "failed" => pMSC.Sense
    BY DEF Truthful, Reasons
  <2> HIDE DEF done, fails
  <2> QED
    BY <1>1, <1>2, <1>5, <2>1, <2>2 DEF Control
<1>7. NothingNew
  BY <1>1, InIsEvent, QueueShifts
<1>8. ps \in Seq(Contents) /\ Len(ps) = Len(CacheBuf.data) + 1
  <2>1. x \in Contents
    BY <1>1, EventType, SizesType
  <2> QED
    BY <1>4, <2>1
<1>9. ASSUME host.cmd.tag > 0, pMSC.CBW.tag = host.cmd.tag, e.kind # "empty"
      PROVE  \A k \in 1..Len(ps) : ps[k] = host.cmd.data
  <2>1. /\ \A k \in 1..Len(CacheBuf.data) : CacheBuf.data[k] = host.cmd.data
        /\ OnlyItsData(1)
    BY <1>1, <1>9 DEF Truthful, AtWork
  <2>2. e = events[1] /\ 1 \in 1..Len(events)
    BY <1>1, HeadTail DEF MscTypeOK
  <2>3. x = host.cmd.data
    BY <1>1, <1>9, <2>1, <2>2 DEF OnlyItsData
  <2> HIDE DEF x
  <2> QED
    BY <1>4, <2>1, <2>3
<1>10. CASE done >= pMSC.XferTotalLen
  <2>1. ASSUME m.CSWStatus = "passed", m.CBW = host.cmd, host.cmd.op = "write",
               host.cmd.tag > 0
        PROVE  HandedOver'
    <3>1. e.kind # "empty" /\ ~fails
      BY <1>2, <1>3, <1>5, <1>6, <1>10, <2>1
    <3>2. Write(x) /\ pMSC.CSWStatus = "passed"
      BY <1>1, <1>6, <2>1, <3>1
    <3>3. Len(ps) >= CacheBuf.max
      BY <1>2, <1>3, <1>5, <1>8, <1>10, <3>1, <3>2
    <3>4. HandOver(Joined(ps))
      BY <3>2, <3>3 DEF Write
    <3>5. \A k \in 1..Len(ps) : ps[k] = host.cmd.data
      BY <1>6, <1>9, <2>1, <3>1
    <3> HIDE DEF ps, m, done, fails
    <3>6. \A b \in CurBlock..(EndBlock - 1) : disk'[b] = host.cmd.data
      BY <1>3, <1>8, <3>3, <3>4, <3>5, JoinedSays
    <3>7. CurBlock = host.cmd.at /\ EndBlock = host.cmd.at + host.cmd.n
      BY <1>1, <1>6, <2>1 DEF Truthful, Directions
    <3>8. CurBlock..(EndBlock - 1) = host.cmd.at..(host.cmd.at + host.cmd.n - 1)
      <4>1. host.cmd.at \in Nat /\ host.cmd.n \in Nat
        BY SizesType DEF MscTypeOK, CBWs, Blks, NoCommand
      <4> QED
        BY <3>7, <4>1
    <3>9. \A b \in host.cmd.at..(host.cmd.at + host.cmd.n - 1) :
            disk'[b] = host.cmd.data
      BY <3>6, <3>8, Zenon
    <3>10. host' = host
      BY <1>1
    <3> QED
      BY <3>9, <3>10, Zenon DEF HandedOver
  <2> HIDE DEF m, done
  <2> QED
    BY <1>1, <1>6, <1>7, <1>10, <2>1, LateStatusIsTrue
<1>11. CASE ~(done >= pMSC.XferTotalLen)
  <2>1. pMSC' = m /\ tx' = tx
    BY <1>1, <1>11
  <2>2. /\ CurBlock' = CurBlock /\ EndBlock' = EndBlock
        /\ CacheBuf' = CacheBuf \/ (e.kind # "empty" /\ CacheBuf'.data \in {ps, <<>>})
    <3>1. CASE fails \/ e.kind = "empty"
      BY <1>1, <3>1 DEF sdVars, cacheVars
    <3>2. CASE ~(fails \/ e.kind = "empty")
      BY <1>1, <1>4, <3>2 DEF Write, cacheVars, HandOver, Empty
    <3> QED
      BY <3>1, <3>2
  <2> HIDE DEF ps, m, done, fails
  <2>3. CacheBuf' = CacheBuf \/ pMSC.CBW.tag # host.cmd.tag \/ ~(host.cmd.tag > 0)
          \/ \A k \in 1..Len(CacheBuf'.data) : CacheBuf'.data[k] = host.cmd.data
    BY <1>9, <2>2
  <2>4. OnItsWay' /\ AtWork'
    <3>1. CASE host.cmd.tag > 0
      BY <1>1, <1>6, <1>7, <2>1, <2>3, <3>1, StillAtWork
    <3>2. CASE ~(host.cmd.tag > 0)
      BY <1>1, <3>2 DEF OnItsWay, AtWork
    <3> QED
      BY <3>1, <3>2
  <2>5. Told'
    BY <1>1, <1>6, <2>1 DEF Truthful, Told
  <2> QED
    BY <1>1, <1>6, <2>1, <2>2, <2>4, <2>5 DEF Truthful, Reasons, Directions, Asks
<1> QED
  BY <1>10, <1>11

LEMMA CardTruthful ==
  ASSUME SdTypeOK, Agree, Truthful, CardStep, UNCHANGED mscVars
  PROVE  Truthful'
<1>1. UNCHANGED <<pMSC, events, tx, pc, host>>
  BY DEF mscVars, busVars
<1>2. /\ UNCHANGED <<EndBlock, CacheBuf, disk>>
      /\ want.n = 0 => CurBlock' = CurBlock
  <2>1. CASE ReadBlocks \/ ReadGivesUp \/ \E j \in 0..CacheBlocks : ReadFails(j)
    <3>1. want.n > 0 /\ \E good \in BOOLEAN : AfterRead(good)
      BY <2>1 DEF ReadBlocks, ReadGivesUp, ReadFails
    <3> QED
      BY <3>1 DEF AfterRead, storeVars
  <2>2. CASE StartWrite \/ WriteBlocks \/ \E j \in Blks : WriteFails(j)
    BY <2>2 DEF StartWrite, WriteBlocks, WriteFails, EndWrite, cacheVars
  <2> QED
    BY <2>1, <2>2 DEF CardStep
<1>3. pMSC.BotState = "data_out" => want.n = 0
  BY DEF Agree, DataFits
<1> QED
  BY <1>1, <1>2, <1>3
     DEF Truthful, OnItsWay, AtWork, OnlyItsData, Told, HandedOver, Reasons,
         Directions, Asks

(* The host, or what resets its bus, leaves its command what it was.       *)
LEMMA SameCommand ==
  ASSUME MscTypeOK, Truthful, NothingNew,
         UNCHANGED <<pMSC, pc, CurBlock, EndBlock, CacheBuf, disk>>,
         host'.cmd = host.cmd, host'.st # "idle" => host.st # "idle",
         tx' = tx \/ tx' = Nothing
  PROVE  Truthful'
<1>1. tx'.kind = "csw" => tx' = tx
  BY DEF Nothing
<1>2. OnItsWay' /\ AtWork'
  BY <1>1, StillAtWork
<1> QED
  BY <1>1, <1>2 DEF Truthful, Told, HandedOver, Reasons, Directions, Asks

LEMMA ResetsTruthful ==
  ASSUME MscTypeOK, Truthful, TimerFires \/ BusReset \/ ClassReset
  PROVE  Truthful'
<1>1. events' = events /\ host' = Retry /\ pc' = pc
  BY DEF TimerFires, BusReset, ClassReset, busVars
<1>2. host'.cmd = host.cmd /\ host'.st = "idle"
  BY <1>1 DEF Retry, MscTypeOK
<1>3. NothingNew
  BY <1>1, InIsEvent, QueueShifts
<1>4. CASE TimerFires
  <2>1. /\ pMSC' = [pMSC EXCEPT !.BotState = "idle", !.CBW = NoCommand,
                      !.CSWStatus = "passed", !.bStatus = "passed",
                      !.XferTotalLen = 0, !.XferDoneLen = 0,
                      !.LastXferLen = 0, !.MediumState = "unlocked"]
        /\ tx' = Nothing
    BY <1>4 DEF TimerFires
  <2>2. /\ pMSC'.BotState = "idle" /\ pMSC'.CBW = NoCommand
        /\ pMSC'.CSWStatus = "passed" /\ pMSC'.Sense = pMSC.Sense
    BY <2>1 DEF MscTypeOK, Control
  <2>3. tx'.kind # "csw" /\ NoCommand.tag = 0 /\ NoCommand.op = "none"
    BY <2>1 DEF Nothing, NoCommand
  <2>4. OnItsWay'
    <3> SUFFICES ASSUME host.cmd.tag > 0, NEW i \in 1..Len(events),
                        events[i].kind = "cbw", events[i].cbw.tag = host.cmd.tag
                 PROVE  /\ events[i].cbw = host.cmd
                        /\ OnlyItsData(i + 1)'
      BY <1>1, <1>2, <2>2, <2>3 DEF OnItsWay
    <3> QED
      BY <1>1, <1>2 DEF Truthful, OnItsWay, OnlyItsData
  <2>5. AtWork' /\ Told'
    BY <1>2, <2>2, <2>3 DEF AtWork, Told
  <2>6. Reasons' /\ Directions' /\ Asks'
    BY <1>1, <1>2, <2>2, <2>3 DEF Truthful, Reasons, Directions, Asks
  <2> QED
    BY <2>4, <2>5, <2>6 DEF Truthful
<1>5. CASE BusReset \/ ClassReset
  <2>1. /\ UNCHANGED <<sdVars, pMSC>>
        /\ tx' = tx \/ tx' = Nothing
    BY <1>5 DEF BusReset, ClassReset, busVars
  <2>2. UNCHANGED <<CurBlock, EndBlock, CacheBuf, disk>>
    BY <2>1 DEF sdVars, cacheVars, storeVars
  <2> QED
    BY <1>1, <1>2, <1>3, <2>1, <2>2, SameCommand
<1> QED
  BY <1>4, <1>5

LEMMA HostFrame ==
  ASSUME Host
  PROVE  /\ UNCHANGED <<sdVars, pMSC, pc>>
         /\ HostSendsCommand => tx' = tx
         /\ ~HostTakesStatus => served' = served
<1>1. CASE HostSendsCommand
  BY <1>1, Zenon DEF HostSendsCommand
<1>2. CASE HostSendsData \/ HostTakesData \/ HostTakesStatus \/ HostTakesTooMuch
  <2>1. ~HostTakesStatus => served' = served
    BY <1>2 DEF HostSendsData, HostTakesData, HostTakesTooMuch
  <2>2. UNCHANGED <<sdVars, pMSC, pc>>
    BY <1>2 DEF HostSendsData, HostTakesData, HostTakesStatus, HostTakesTooMuch,
                TakeTx
  <2>3. HostSendsCommand => tx' = tx
    BY Zenon DEF HostSendsCommand
  <2> QED
    BY <2>1, <2>2, <2>3
<1> QED
  BY <1>1, <1>2 DEF Host

(* A new command has a tag that nothing on its way has.                    *)
LEMMA SendsTruthful ==
  ASSUME MscTypeOK, Truthful, HostSendsCommand
  PROVE  Truthful'
<1>1. PICK c \in IF host.cmd = NoCommand THEN Commands ELSE {host.cmd},
           tag \in 1..MaxTag :
        LET cbw == [c EXCEPT !.tag = tag]
        IN /\ tag \notin TagsInUse
           /\ \/ /\ Accepted([kind |-> "cbw", cbw |-> cbw])
                 /\ host' = [host EXCEPT !.cmd = cbw, !.st = Phase(c)]
              \/ /\ Refusal
                 /\ host' = [host EXCEPT !.cmd = cbw, !.st = "broken"]
  BY Zenon DEF HostSendsCommand, Fresh
<1> DEFINE cbw == [c EXCEPT !.tag = tag]
<1>2. c \in CBWs /\ tag \in Nat /\ tag > 0
  BY SizesType DEF MscTypeOK
<1>3. cbw.tag = tag
  BY <1>2 DEF CBWs
<1> HIDE DEF cbw
<1>4. /\ host'.cmd = cbw
      /\ \/ events' = Append(events, [kind |-> "cbw", cbw |-> cbw])
         \/ events' = Append(events, [kind |-> "empty"])
  BY <1>1 DEF Accepted, Refusal, MscTypeOK, cbw
<1>5. /\ pMSC.CBW.tag # tag
      /\ tx.kind = "csw" => tx.tag # tag
      /\ \A i \in 1..Len(events) : events[i].kind = "cbw" => events[i].cbw.tag # tag
  BY <1>1 DEF TagsInUse
<1>6. UNCHANGED <<sdVars, pMSC, tx, pc>>
  BY HostFrame DEF Host
<1>7. events \in Seq(Event) /\ Len(events) \in Nat
  BY DEF MscTypeOK
<1>8. ASSUME NEW i \in 1..Len(events'),
             events'[i].kind = "cbw", events'[i].cbw.tag = tag
      PROVE  events'[i].cbw = cbw /\ i + 1 > Len(events')
  <2>1. CASE events' = Append(events, [kind |-> "cbw", cbw |-> cbw])
    <3>1. CASE i \in 1..Len(events)
      BY <1>5, <1>7, <1>8, <2>1, <3>1
    <3>2. CASE i = Len(events) + 1
      BY <1>7, <2>1, <3>2
    <3> QED
      BY <1>7, <2>1, <3>1, <3>2
  <2>2. CASE events' = Append(events, [kind |-> "empty"])
    <3>1. CASE i \in 1..Len(events)
      BY <1>5, <1>7, <1>8, <2>2, <3>1
    <3>2. CASE i = Len(events) + 1
      BY <1>7, <1>8, <2>2, <3>2
    <3> QED
      BY <1>7, <2>2, <3>1, <3>2
  <2> QED
    BY <1>4, <2>1, <2>2
<1>9. Len(events') \in Nat
  BY <1>4, <1>7
<1>10. OnItsWay'
  <2> SUFFICES ASSUME NEW i \in 1..Len(events'),
                      events'[i].kind = "cbw", events'[i].cbw.tag = tag
               PROVE  /\ events'[i].cbw = cbw
                      /\ OnlyItsData(i + 1)'
    BY <1>3, <1>4, <1>5, <1>6 DEF OnItsWay
  <2>1. events'[i].cbw = cbw /\ (i + 1)..Len(events') = {}
    BY <1>8, <1>9
  <2> QED
    BY <2>1 DEF OnlyItsData
<1>11. AtWork' /\ Told'
  BY <1>3, <1>4, <1>5, <1>6 DEF AtWork, Told
<1>12. Reasons' /\ Directions' /\ Asks'
  BY <1>2, <1>3, <1>4, <1>6
     DEF Truthful, Reasons, Directions, Asks, sdVars, cacheVars
<1> QED
  BY <1>10, <1>11, <1>12 DEF Truthful

LEMMA HostTruthful ==
  ASSUME MscTypeOK, Truthful, Host
  PROVE  Truthful'
<1>0. UNCHANGED <<pMSC, pc, CurBlock, EndBlock, CacheBuf, disk>>
  BY HostFrame DEF sdVars, cacheVars, storeVars
<1>h. host \in [st : {"idle", "out", "in", "status", "broken"},
                cmd : CBWs \union {NoCommand}, sent : Nat, got : Seq(Nat)]
  BY DEF MscTypeOK
<1>t. TakeTx => NothingNew /\ tx' = Nothing
  <2>1. TakeTx => /\ tx' = Nothing
                  /\ \/ events' = events
                     \/ events' = Append(events, [kind |-> "in"])
    BY DEF TakeTx
  <2> QED
    BY <2>1, InIsEvent, QueueShifts
<1>1. CASE HostSendsCommand
  BY <1>1, SendsTruthful
<1>2. CASE HostSendsData
  <2> DEFINE e == [kind |-> "data", data |-> host.cmd.data]
  <2>1. /\ host.st = "out" /\ tx' = tx
        /\ events' = Append(events, e) \/ events' = Append(events, [kind |-> "empty"])
    BY <1>2 DEF HostSendsData, Accepted, Refusal
  <2>2. host'.cmd = host.cmd
    BY <1>2, <1>h DEF HostSendsData
  <2>3. e \in Event
    <3>1. host.cmd.data \in Contents
      BY <1>h, SizesType DEF CBWs, NoCommand
    <3> QED
      BY <3>1 DEF Event
  <2>4. NothingNew
    BY <2>1, <2>3, InIsEvent, QueueShifts
  <2> QED
    BY <1>0, <2>1, <2>2, <2>4, SameCommand
<1>3. CASE HostTakesData \/ HostTakesTooMuch
  <2>1. TakeTx /\ host.st \in {"in", "status"}
    BY <1>3 DEF HostTakesData, HostTakesTooMuch
  <2>2. host'.cmd = host.cmd
    BY <1>3, <1>h DEF HostTakesData, HostTakesTooMuch
  <2> QED
    BY <1>0, <1>t, <2>1, <2>2, SameCommand
<1>4. CASE HostTakesStatus
  <2>1. /\ TakeTx /\ host.st \in {"in", "status"}
        /\ \/ host' = [Retry EXCEPT !.cmd = NoCommand]
           \/ host' = [host EXCEPT !.st = "broken"]
    BY <1>4 DEF HostTakesStatus
  <2>2. CASE host' = [Retry EXCEPT !.cmd = NoCommand]
    <3>1. host'.cmd.tag = 0 /\ host'.st = "idle"
      BY <1>h, <2>2 DEF Retry, NoCommand
    <3> QED
      BY <1>0, <3>1
         DEF Truthful, OnItsWay, AtWork, Told, Reasons, Directions, Asks
  <2>3. CASE host' = [host EXCEPT !.st = "broken"]
    <3>1. host'.cmd = host.cmd
      BY <1>h, <2>3
    <3> QED
      BY <1>0, <1>t, <2>1, <3>1, SameCommand
  <2> QED
    BY <2>1, <2>2, <2>3
<1> QED
  BY <1>1, <1>2, <1>3, <1>4 DEF Host

LEMMA TruthfulStep ==
  ASSUME MscInv, Agree, Truthful, [Next]_vars
  PROVE  Truthful'
<1>1. MscTypeOK /\ SdTypeOK /\ WriteFits
  BY DEF MscInv, SdInv
<1>2. CASE UNCHANGED vars
  BY <1>2 DEF vars, sdVars, cacheVars, storeVars, mscVars, busVars, Truthful,
              OnItsWay, AtWork, OnlyItsData, Told, HandedOver, Reasons,
              Directions, Asks
<1> QED
  BY <1>1, <1>2, CommandsTruthful, ReadsTruthful, DataTruthful, RestTruthful,
     ResetsTruthful, HostTruthful, CardTruthful DEF Next, UsbTask

(* A status that the host takes for its command's tells the truth,         *)
(* whatever was lost, reset or sent again before: after PASSED for a write *)
(* all its blocks were handed over as the host sent them, and for FAILED   *)
(* there is sense data to be asked for.                                    *)
THEOREM StatusHolds == Spec => AnswersHold
<1> DEFINE A == Answered =>
                  /\ tx.status = "passed" /\ host.cmd.op = "write" => HandedOver
                  /\ tx.status = "failed" => pMSC.Sense
<1>1. Init => MscInv /\ Agree /\ Truthful
  BY InitMscType, InitSdInv, InitAgree, InitTruthful DEF Init, MscInv
<1>2. MscInv /\ Agree /\ Truthful /\ [Next]_vars => (MscInv /\ Agree /\ Truthful)'
  BY MscInvStep, AgreeStep, TruthfulStep
<1>3. Truthful /\ [Next]_vars => [A]_vars
  <2> SUFFICES ASSUME Truthful, Next, Answered
               PROVE  /\ tx.status = "passed" /\ host.cmd.op = "write" => HandedOver
                      /\ tx.status = "failed" => pMSC.Sense
    OBVIOUS
  <2>1. HostTakesStatus
    <3>1. UsbTask => served' = served
      BY DEF UsbTask, NotACommand, Refuse, Again, NoData, SendBotData,
             WriteCommand, ReadCommand, ReadFirst, ReadAhead, StartTimer,
             ToDeviceData, PhaseError, CSWSent, NothingToSend, AllSent, ReadMore
    <3>2. UNCHANGED mscVars => served' = served
      BY DEF mscVars
    <3>3. TimerFires \/ BusReset \/ ClassReset => served' = served
      BY DEF TimerFires, BusReset, ClassReset
    <3> QED
      BY <3>1, <3>2, <3>3, HostFrame DEF Answered, Next
  <2>2. host.st # "idle" /\ tx.kind = "csw" /\ tx.tag = host.cmd.tag
    BY <2>1 DEF HostTakesStatus, Answered
  <2> QED
    BY <2>2 DEF Truthful, Told, Asks
<1> QED
  BY <1>1, <1>2, <1>3, PTL DEF Spec, AnswersHold, HandedOver
=============================================================================

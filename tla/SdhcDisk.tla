------------------------------ MODULE SdhcDisk ------------------------------
(***************************************************************************)
(* The SD card behind the USB disk: bsp/device/src/dev_sdhc_spi.c and the  *)
(* storage task of bsp/common/src/core_service.c.                          *)
(*                                                                         *)
(* Reading: the card is read a cache at a time into one of two caches      *)
(* while the other is on its way to the host, and the end of every read    *)
(* reads ahead; a read that starts where the read-ahead did finds its      *)
(* first blocks there.  Writing: the blocks are handed to the storage      *)
(* task, which writes them later.  One mutex guards the card.              *)
(*                                                                         *)
(* The operators are the functions the SCSI layer calls, in the USB task;  *)
(* that task is above the storage task and never sleeps with the mutex, so *)
(* one read of the card is one step.                                       *)
(***************************************************************************)
EXTENDS Integers, Sequences, FiniteSets

CONSTANTS
  LogBlockNbr,  (* the blocks of the card                                  *)
  CacheBlocks,  (* the blocks of a cache: SCSIDataBuf->MaxLen >> 9         *)
  Contents,     (* what a block may hold                                   *)
  Blank,        (* what each block holds at first                          *)
  Junk,         (* contents nobody wrote: of a block put together of two,  *)
                (* of memory as malloc left it                             *)
  MaxErrors     (* bound on what the card gets wrong                       *)

ASSUME SdhcAssumption ==
  /\ LogBlockNbr \in Nat \ {0} /\ CacheBlocks \in Nat \ {0}
  /\ Blank \in [0..(LogBlockNbr - 1) -> Contents] /\ Junk \in Contents
  /\ MaxErrors \in Nat

VARIABLES
  card,         (* the blocks on the card                                  *)
  isReady,      (* SDHC_IsReady                                            *)
  CurBlock, EndBlock,          (* of the transfer                          *)
  PreCurBlock, PreEndBlock,    (* of the read-ahead                        *)
  CurCacheSn,   (* which cache is the current one                          *)
  pCache,       (* the two caches                                          *)
  pCacheLen,    (* their lengths, in blocks                                *)
  CacheBuf,     (* what came of a write: packets, two to a block           *)
  want,         (* the SDHC_SpiReadBlocks called and not over (n > 0)      *)
  queue,        (* SERVICE_SDHC_WRITE events of the storage task           *)
  writing,      (* is it writing the first of them?                        *)
  errors,       (* how often the card went wrong                           *)
  turn,         (* history: what the SCSI layer calls next                 *)
  pos,          (* history: the block handed out next                      *)
  disk,         (* history: the blocks as handed over to be written        *)
  dirty,        (* history: handed over since the last read-ahead, or then *)
                (* not on the card                                         *)
  lost,         (* history: blocks whose last writing failed               *)
  window,       (* history: does the current cache hold the read-ahead?    *)
  trust,        (* history: is the read going on free of a mishap?         *)
  out           (* history: the last blocks handed out                     *)

cacheVars == <<CurBlock, EndBlock, PreCurBlock, PreEndBlock, CurCacheSn,
               pCache, pCacheLen>>

storeVars == <<queue, writing, disk, lost>>

sdVars == <<card, isReady, cacheVars, CacheBuf, want, storeVars, errors,
            turn, pos, dirty, window, trust, out>>

Blks == 0..(LogBlockNbr - 1)

Span(e) == e.at..(e.at + Len(e.data) - 1)

At(e, b) == e.data[b - e.at + 1]

Least(i, j) == IF i <= j THEN i ELSE j

NoRead == [at |-> 0, n |-> 0, ahead |-> FALSE]

SdInit ==
  /\ card = Blank /\ disk = Blank
  /\ isReady = TRUE
  /\ CurBlock = 0 /\ EndBlock = 0 /\ PreCurBlock = 0 /\ PreEndBlock = 0
  /\ CurCacheSn = 0
  /\ pCache = [c \in {0, 1} |-> [i \in 0..(CacheBlocks - 1) |-> Junk]]
  /\ pCacheLen = [c \in {0, 1} |-> 0]
  /\ CacheBuf = [data |-> <<>>, max |-> 0]
  /\ want = NoRead
  /\ queue = <<>> /\ writing = FALSE /\ errors = 0
  /\ turn = "free" /\ pos = 0
  /\ dirty = {} /\ lost = {} /\ window = FALSE /\ trust = TRUE
  /\ out = [at |-> 0, data |-> <<>>]

-----------------------------------------------------------------------------
(***************************************************************************)
(* Reading.                                                                *)
(***************************************************************************)
(* The read prvSDHC_SCSIReadNext asks for, by where the transfer is.       *)
NextRead(cur, end) ==
  IF end <= cur
  THEN [at |-> end, n |-> CacheBlocks, ahead |-> TRUE]
  ELSE [at |-> cur, n |-> Least(end - cur, CacheBlocks), ahead |-> FALSE]

InRange(a, n) == a + n <= LogBlockNbr

Hit(a) == PreCurBlock = a /\ PreEndBlock # 0

(* prvSDHC_SCSIPreRead, for a read in range.                               *)
PreRead(a, n) ==
  /\ want.n = 0 /\ InRange(a, n)
  /\ EndBlock' = a + n
  /\ IF Hit(a)
     THEN /\ CurBlock' = PreEndBlock
          /\ want' = want /\ turn' = "take"
          /\ trust' = window /\ window' = window
     ELSE /\ CurBlock' = a
          /\ want' = NextRead(a, a + n) /\ turn' = "fetch"
          /\ trust' = TRUE /\ window' = FALSE
  /\ pos' = a
  /\ UNCHANGED <<card, isReady, PreCurBlock, PreEndBlock, CurCacheSn, pCache,
                 pCacheLen, CacheBuf, storeVars, errors, dirty, out>>

(* prvSDHC_SCSIReadNext, up to its SDHC_SpiReadBlocks.                     *)
ReadNext ==
  /\ want.n = 0 /\ turn = "fetch"
  /\ want' = NextRead(CurBlock, EndBlock)
  /\ UNCHANGED <<card, isReady, cacheVars, CacheBuf, storeVars, errors, turn,
                 pos, dirty, window, trust, out>>

(* The first k blocks of the read arrive in the current cache.             *)
Filled(k) ==
  [pCache EXCEPT ![CurCacheSn] =
     [i \in 0..(CacheBlocks - 1) |-> IF i < k THEN card[want.at + i] ELSE @[i]]]

Queued == UNION {Span(queue[i]) : i \in 1..Len(queue)}

(* What is done after SDHC_SpiReadBlocks, which returns nothing: a read    *)
(* that failed is treated as one that did not.                             *)
AfterRead(good) ==
  /\ want' = NoRead
  /\ IF want.ahead
     THEN /\ PreCurBlock' = EndBlock /\ PreEndBlock' = EndBlock + CacheBlocks
          /\ CurBlock' = CurBlock
          /\ turn' = "past" /\ window' = good
          /\ dirty' = IF good THEN Queued \union lost ELSE dirty
     ELSE /\ CurBlock' = CurBlock + want.n
          /\ UNCHANGED <<PreCurBlock, PreEndBlock, dirty, window>>
          /\ turn' = "take"
  /\ pCacheLen' = [pCacheLen EXCEPT ![CurCacheSn] = want.n]
  /\ trust' = (trust /\ good)
  /\ UNCHANGED <<card, EndBlock, CurCacheSn, CacheBuf, storeVars, pos, out>>

(* How much of the read there is on the card.                              *)
There == IF want.at + want.n <= LogBlockNbr THEN want.n
         ELSE IF want.at < LogBlockNbr THEN LogBlockNbr - want.at ELSE 0

(* All blocks are read; a retry on the way sets IsInitDone.                *)
ReadBlocks ==
  /\ want.n > 0 /\ ~writing
  /\ There = want.n
  /\ pCache' = Filled(want.n)
  /\ isReady' \in {isReady, TRUE}
  /\ AfterRead(TRUE)
  /\ UNCHANGED errors

(* The retries are used up: by the end of the card, or by an error.        *)
ReadFails(k) ==
  /\ want.n > 0 /\ ~writing
  /\ k <= There /\ k < want.n
  /\ errors' = IF k = There THEN errors ELSE errors + 1
  /\ errors' <= MaxErrors
  /\ pCache' = Filled(k)
  /\ isReady' = FALSE
  /\ AfterRead(FALSE)

(* The storage task has the mutex for longer than 1000 ms.                 *)
ReadGivesUp ==
  /\ want.n > 0 /\ writing
  /\ errors < MaxErrors /\ errors' = errors + 1
  /\ pCache' = pCache /\ isReady' = isReady
  /\ AfterRead(FALSE)

\* Not the code: the cache handed out is the one read into next.
OtherCacheKept == CurCacheSn

OtherCache == 1 - CurCacheSn

\* Not the code: the caches are exchanged before.
CurrentSwitched(max) ==
  LET n == Least(pCacheLen[CurCacheSn], max)
  IN [i \in 1..n |-> pCache[1 - CurCacheSn][i - 1]]

(* prvSDHC_SCSIRead of at most max blocks: what it hands out, and the      *)
(* cache it gives up even when it then reports that the card is not ready. *)
(* When the read-ahead found was shorter than it seemed, as one that a     *)
(* later read ran over is, a read goes on past its end.                    *)
Current(max) ==
  LET n == Least(pCacheLen[CurCacheSn], max)
  IN [i \in 1..n |-> pCache[CurCacheSn][i - 1]]

Read(max) ==
  /\ want.n = 0 /\ turn \in {"take", "past"}
  /\ pos < EndBlock /\ max = EndBlock - pos
  /\ pCacheLen' = [pCacheLen EXCEPT ![CurCacheSn] = 0]
  /\ CurCacheSn' = OtherCache
  /\ window' = FALSE
  /\ turn' = "fetch"
  /\ IF isReady
     THEN /\ out' = [at |-> pos, data |-> Current(max)]
          /\ pos' = pos + Len(Current(max))
          /\ trust' = trust
     ELSE /\ UNCHANGED <<out, pos>>
          /\ trust' = FALSE
  /\ UNCHANGED <<card, isReady, CurBlock, EndBlock, PreCurBlock, PreEndBlock,
                 pCache, CacheBuf, want, storeVars, errors, dirty>>

-----------------------------------------------------------------------------
(***************************************************************************)
(* Writing.                                                                *)
(***************************************************************************)
(* prvSDHC_SCSIPreWrite, for a write in range to a card that is ready.     *)
PreWrite(a, n) ==
  /\ want.n = 0 /\ isReady /\ InRange(a, n)
  /\ CurBlock' = a /\ EndBlock' = a + n
  /\ CacheBuf' = [data |-> <<>>, max |-> 2 * n]
  /\ turn' = "write"
  /\ UNCHANGED <<card, isReady, PreCurBlock, PreEndBlock, CurCacheSn, pCache,
                 pCacheLen, want, storeVars, errors, pos, dirty, window,
                 trust, out>>

(* The blocks the packets ps make.                                         *)
Joined(ps) ==
  [at |-> CurBlock,
   data |-> [j \in 1..(EndBlock - CurBlock) |->
               IF 2 * j <= Len(ps) /\ ps[2 * j - 1] = ps[2 * j]
               THEN ps[2 * j] ELSE Junk]]

Empty == [data |-> <<>>, max |-> 0]

(* Core_WriteSDHC.                                                         *)
HandOver(e) ==
  /\ queue' = Append(queue, e)
  /\ disk' = [b \in Blks |-> IF b \in Span(e) THEN At(e, b) ELSE disk[b]]
  /\ dirty' = dirty \union Span(e)
  /\ CacheBuf' = Empty
  /\ turn' = "free"

\* Not the code: one packet more than fits is waited for.
WriteLate(p) ==
  /\ want.n = 0 /\ turn = "write" /\ isReady /\ CurBlock < EndBlock
  /\ IF Len(CacheBuf.data) >= CacheBuf.max
     THEN HandOver(Joined(CacheBuf.data))
     ELSE /\ CacheBuf' = [CacheBuf EXCEPT !.data = Append(@, p)]
          /\ UNCHANGED <<queue, disk, dirty, turn>>
  /\ UNCHANGED <<card, isReady, cacheVars, want, writing, errors, pos, lost,
                 window, trust, out>>

(* prvSDHC_SCSIWrite of one packet; a card that is not ready takes nothing.*)
Write(p) ==
  /\ want.n = 0 /\ turn = "write" /\ isReady /\ CurBlock < EndBlock
  /\ LET ps == Append(CacheBuf.data, p)
     IN IF Len(ps) >= CacheBuf.max
        THEN HandOver(Joined(ps))
        ELSE /\ CacheBuf' = [CacheBuf EXCEPT !.data = ps]
             /\ UNCHANGED <<queue, disk, dirty, turn>>
  /\ UNCHANGED <<card, isReady, cacheVars, want, writing, errors, pos, lost,
                 window, trust, out>>

(* The storage task: it takes an event and the mutex.                      *)
StartWrite ==
  /\ queue # <<>> /\ ~writing
  /\ writing' = TRUE
  /\ UNCHANGED <<card, isReady, cacheVars, CacheBuf, want, queue, disk, lost,
                 errors, turn, pos, dirty, window, trust, out>>

(* The first k blocks of the event are on the card.                        *)
Wrote(k) ==
  LET e == Head(queue)
  IN [b \in Blks |-> IF b \in Span(e) /\ b < e.at + k THEN At(e, b)
                     ELSE card[b]]

EndWrite ==
  /\ writing' = FALSE
  /\ queue' = Tail(queue)
  /\ UNCHANGED <<cacheVars, CacheBuf, want, disk, turn, pos, dirty, window,
                 trust, out>>

WriteBlocks ==
  /\ writing
  /\ card' = Wrote(Len(Head(queue).data))
  /\ lost' = lost \ Span(Head(queue))
  /\ UNCHANGED <<isReady, errors>>
  /\ EndWrite

(* A command or a block is refused: there is no retry, and no one is told. *)
WriteFails(k) ==
  /\ writing
  /\ k < Len(Head(queue).data)
  /\ errors < MaxErrors /\ errors' = errors + 1
  /\ card' = Wrote(k)
  /\ lost' = lost \union Span(Head(queue))
  /\ isReady' = FALSE
  /\ EndWrite

-----------------------------------------------------------------------------
(* prvSDHC_SCSIInit: a card that is not ready is initialised again.        *)
ReInit ==
  /\ ~isReady
  /\ isReady' \in BOOLEAN
  /\ UNCHANGED <<card, cacheVars, CacheBuf, want, storeVars, errors, turn, pos,
                 dirty, window, trust, out>>

CardStep ==
  \/ ReadBlocks \/ ReadGivesUp
  \/ \E k \in 0..CacheBlocks : ReadFails(k)
  \/ StartWrite \/ WriteBlocks
  \/ \E k \in Blks : WriteFails(k)

SdNext ==
  \/ \E a \in Blks, n \in 1..LogBlockNbr : PreRead(a, n) \/ PreWrite(a, n)
  \/ ReadNext
  \/ \E max \in 0..LogBlockNbr : Read(max)
  \/ \E p \in Contents : Write(p)
  \/ ReInit
  \/ CardStep

SdSpec == SdInit /\ [][SdNext]_sdVars

-----------------------------------------------------------------------------
(***************************************************************************)
(* What the host is promised.  Loose are the blocks handed over since the  *)
(* last read-ahead, those that were not on the card then, and, after a     *)
(* mishap of the read going on (the card failed, the mutex was not got,    *)
(* the read-ahead found is of a read that was broken off), all.            *)
(***************************************************************************)
Disk == INSTANCE DiskPromise WITH loose <- IF trust THEN dirty ELSE Blks

(* The disk keeps its promise: a read that was not hit by a mishap hands   *)
(* out every block as it was last written, unless it was written since the *)
(* last read-ahead (dev_sdhc_spi.c:123-239): neither the exchange of the   *)
(* caches, the read-ahead found by a later read, nor the writing that goes *)
(* on behind the reading mixes the blocks up.                              *)
ImplementsDisk == Disk!PromiseSpec

-----------------------------------------------------------------------------
(***************************************************************************)
(* The invariant.                                                          *)
(***************************************************************************)
Caches == [{0, 1} -> [0..(CacheBlocks - 1) -> Contents]]

SdTypeOK ==
  /\ card \in [Blks -> Contents] /\ disk \in [Blks -> Contents]
  /\ isReady \in BOOLEAN /\ writing \in BOOLEAN
  /\ CurBlock \in Nat /\ EndBlock \in 0..LogBlockNbr
  /\ PreCurBlock \in 0..LogBlockNbr /\ PreEndBlock \in Nat
  /\ CurCacheSn \in {0, 1} /\ pCache \in Caches
  /\ pCacheLen \in [{0, 1} -> 0..CacheBlocks]
  /\ CacheBuf \in [data : Seq(Contents), max : Nat]
  /\ want \in [at : 0..LogBlockNbr, n : 0..CacheBlocks, ahead : BOOLEAN]
  /\ queue \in Seq([at : Nat, data : Seq(Contents)])
  /\ errors \in 0..MaxErrors
  /\ turn \in {"free", "take", "fetch", "past", "write"}
  /\ pos \in 0..LogBlockNbr
  /\ dirty \subseteq Blks /\ lost \subseteq Blks
  /\ window \in BOOLEAN /\ trust \in BOOLEAN
  /\ out \in [at : Nat, data : Seq(Contents)]

(* Is b in no write after the i-th that waits?                             *)
LastOf(b, i) == \A j \in (i + 1)..Len(queue) : b \notin Span(queue[j])

(* The storage task has, of each block, the last contents handed over as   *)
(* the last it will write.                                                 *)
QueueLastWins ==
  \A i \in 1..Len(queue) :
    /\ Span(queue[i]) \subseteq Blks
    /\ \A b \in Span(queue[i]) : LastOf(b, i) => At(queue[i], b) = disk[b]

(* A block that waits for nothing and whose writing did not fail is on the *)
(* card.                                                                   *)
CardFollows == \A b \in Blks \ (Queued \union lost) : card[b] = disk[b]

DirtyCovers == Queued \union lost \subseteq dirty

WritingSome == writing => queue # <<>>

(* The current cache holds n blocks of the disk from a on.                 *)
Holds(a, n) ==
  \A i \in 0..(n - 1) :
    /\ a + i < LogBlockNbr
    /\ a + i \notin dirty => pCache[CurCacheSn][i] = disk[a + i]

WindowIsDisk ==
  window => /\ PreEndBlock = PreCurBlock + CacheBlocks
            /\ pCacheLen[CurCacheSn] = CacheBlocks
            /\ Holds(PreCurBlock, CacheBlocks)

(* Where the transfer is, between the calls of the SCSI layer.             *)
TakeIsDisk ==
  turn = "take" /\ trust =>
    /\ pos + pCacheLen[CurCacheSn] = CurBlock
    /\ Holds(pos, pCacheLen[CurCacheSn])

FetchIsNext == turn = "fetch" /\ trust => pos = Least(CurBlock, EndBlock)

PastIsOver == turn = "past" /\ trust => pos = EndBlock

WantIsNext ==
  /\ want.n > 0 => turn = "fetch" /\ want = NextRead(CurBlock, EndBlock)
  /\ turn = "fetch" => ~window

WriteFits ==
  turn = "write" => /\ CurBlock < EndBlock
                    /\ CacheBuf.max = 2 * (EndBlock - CurBlock)

SdInv ==
  /\ SdTypeOK
  /\ QueueLastWins /\ CardFollows /\ DirtyCovers /\ WritingSome
  /\ WindowIsDisk /\ TakeIsDisk /\ FetchIsNext /\ PastIsOver /\ WantIsNext
  /\ WriteFits
=============================================================================

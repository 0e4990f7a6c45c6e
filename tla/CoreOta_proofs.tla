--------------------------- MODULE CoreOta_proofs ---------------------------
(***************************************************************************)
(* What is announced to the bootloader is whole, for every size of block   *)
(* and image, every way to cut it into chunks and any number of downloads, *)
(* those started over one that is not finished included.                   *)
(*                                                                         *)
(* The argument.  The CRC is taken by another task, over events that may   *)
(* be of an earlier download; but then it holds a unit that is not of this *)
(* one and is never right.  As long as it is pure, only events behind this *)
(* download's erasure were counted; these are a chain without gaps, each   *)
(* programmed where the one before ended, on erased cells.  So a pure CRC  *)
(* is the beginning of the image, and the flash holds what it was taken    *)
(* over.  A right one leaves nothing of the image to come, hence nothing   *)
(* in the queue that could still touch the flash.                          *)
(***************************************************************************)
EXTENDS CoreOta, SequenceTheorems, TLAPS

EventType == [id : {"none", "erase", "write", "file", "close"}, pos : Nat,
              data : Seq(Units)]

Types ==
  /\ TypeOK
  /\ queue \in Seq(EventType)
  /\ task \in [at : {"idle", "erase", "call-back", "write", "crc", "count",
                     "close", "file"},
               event : EventType, ctrl : Downloads \union {NULL}]

(* The event the task keeps is of the kind it is at.                       *)
Works ==
  /\ task.at \in {"erase", "call-back"} => task.event.id = "erase"
  /\ task.at \in {"write", "crc"} => task.event.id = "write"
  /\ task.at = "count" => task.event.id \in {"write", "file"}
  /\ task.at \in {"close", "file"} => task.event.id = task.at

(* No event is of a download to come.                                      *)
Sane(e) ==
  /\ e.id = "write" => e.data # <<>>
  /\ \A k \in 1..Len(e.data) : e.data[k][1] <= downloads

Events ==
  /\ \A i \in 1..Len(queue) : queue[i].id # "none" /\ Sane(queue[i])
  /\ Sane(task.event)
  /\ Works

(* The erasure for this download has been queued.                          *)
Opened == head.store = "spi" /\ pc \in {"ready", "send", "poll", "crc", "end"}
Alive == pSpiFlash # NULL
Sending == Alive /\ pc \in {"ready", "send"}

(* No unit of another download, and no damaged one, went into the CRC.     *)
Pure == \A i \in 1..Len(FotaCRC32) : FotaCRC32[i][1] = downloads
Fresh == Pure => FotaCRC32 = <<>>
Foreign(e) == \A k \in 1..Len(e.data) : e.data[k][1] # downloads

Erasing == \E j \in 1..Len(queue) : queue[j].id = "erase"
Behind(i) == \A j \in (i + 1)..Len(queue) : queue[j].id # "erase"
After(e) == IF e.id = "erase" THEN 0 ELSE e.pos + Len(e.data)
Units0(d, n) == {<<d, n>>, Damaged}
Own(e) ==
  /\ e.id \in {"erase", "write"}
  /\ e.id = "write" =>
       /\ e.pos + Len(e.data) <= image
       /\ \A k \in 1..Len(e.data) : e.data[k] \in Units0(downloads, e.pos + k - 1)

Blank(n) == failed \/ \A c \in Cells : c >= n => cells[c] = Erased

(* The next write, queued or to come, is for place n.                      *)
Front(n) ==
  /\ queue # <<>> => queue[1].pos = n
  /\ queue = <<>> /\ Sending => FotaPos = n

Caller ==
  /\ pc # "out" => head.d = downloads /\ downloads > 0 /\ image \in ImageLens
  /\ sent <= image /\ FotaPos <= image
  /\ \A k \in 1..Len(buf) : buf[k][1] <= downloads
  /\ pc = "init" => head.store = "spi" /\ sent = 0 /\ FotaPos = 0 /\ buf = <<>>
  /\ pc \in {"poll", "crc", "end"} => head.len = image
  /\ pc \in {"ready", "send"} /\ (head.store = "spi" => Alive) =>
       /\ sent = FotaPos + Len(buf)
       /\ head.store = "spi" =>
            \A k \in 1..Len(buf) : buf[k] \in Units0(downloads, FotaPos + k - 1)

(* Before the erasure is queued everything is of earlier downloads.        *)
Beginning ==
  pc = "init" =>
    /\ Fresh /\ Foreign(task.event)
    /\ \A i \in 1..Len(queue) : Foreign(queue[i])

(* And so is what is queued before it.                                     *)
Stale ==
  Opened =>
    /\ Erasing => Fresh /\ Foreign(task.event)
    /\ \A i \in 1..Len(queue) : ~Behind(i) => Foreign(queue[i])

Chain ==
  Opened =>
    /\ \A i \in 1..Len(queue) : Behind(i) =>
         /\ Own(queue[i])
         /\ queue[i].id = "write" /\ i > 1 => queue[i].pos = After(queue[i - 1])
    /\ Sending /\ queue # <<>> => FotaPos = After(queue[Len(queue)])

(* The task is at the erasure of this download or past it.                 *)
Place ==
  /\ task.at # "idle" => Own(task.event) /\ (Alive => Front(After(task.event)))
  /\ task.at \in {"erase", "call-back"} => Fresh
  /\ task.at \in {"erase", "write"} => (task.ctrl # NULL <=> Alive)
  /\ task.at \in {"crc", "count"} => Alive
  /\ ~Alive => Fresh
  /\ task.at = "call-back" /\ Alive => Blank(0)

Progress ==
  /\ task.at = "write" =>
       task.event.pos = Len(FotaCRC32) /\ Blank(Len(FotaCRC32))
  /\ task.at = "crc" =>
       /\ task.event.pos = Len(FotaCRC32) /\ Blank(After(task.event))
       /\ failed \/ \A k \in 1..Len(task.event.data) :
                      cells[task.event.pos + k - 1] = task.event.data[k]
  /\ task.at = "count" =>
       After(task.event) = Len(FotaCRC32) /\ Blank(Len(FotaCRC32))
  /\ task.at = "idle" => Front(Len(FotaCRC32)) /\ Blank(Len(FotaCRC32))

Working == Opened /\ ~Erasing => Place /\ (Alive /\ Pure => Progress)

Whole ==
  Opened /\ Pure =>
    /\ Len(FotaCRC32) <= image
    /\ \A i \in 1..Len(FotaCRC32) :
         FotaCRC32[i] = <<downloads, i - 1>> /\ (failed \/ cells[i - 1] = FotaCRC32[i])

Judged == Opened /\ pc = "end" /\ verdict = "ok" => Pure /\ Len(FotaCRC32) = image

Announced ==
  info.store = "spi" => pc = "out" /\ queue = <<>> /\ task.at \in {"idle", "count"}

Flow == Stale /\ Chain /\ Working /\ Whole

IInv ==
  /\ Types /\ Events /\ Caller /\ Beginning
  /\ Flow /\ Judged
  /\ Announced /\ InfoIsWhole

-----------------------------------------------------------------------------
LEMMA Sizes ==
  /\ Block \in Nat \ {0} /\ ImageLens \subseteq Nat \ {0}
  /\ Chunks \subseteq 1..Block /\ Stores \subseteq {"flash", "spi", "file"}
  /\ MaxDownloads \in Nat /\ Patient \in BOOLEAN
  /\ MaxLen \in ImageLens /\ \A m \in ImageLens : m <= MaxLen
  /\ MaxLen \in Nat \ {0}
BY OtaAssumption DEF OtaAssumption, MaxLen

LEMMA UnitsAre ==
  /\ \A u \in Units : u[1] \in Nat
  /\ Damaged \in Units /\ Damaged[1] = 0
  /\ \A d \in Downloads, c \in Cells : <<d, c>> \in Units /\ <<d, c>>[1] = d
BY Sizes DEF Units, Downloads, Damaged, Cells

(* Where a sequence is extended or cut.                                    *)
LEMMA AppendIs ==
  ASSUME NEW S, NEW s \in Seq(S), NEW e \in S
  PROVE  /\ Append(s, e) \in Seq(S) /\ Append(s, e) # <<>>
         /\ Len(Append(s, e)) = Len(s) + 1
         /\ \A i \in 1..Len(s) : Append(s, e)[i] = s[i]
         /\ Append(s, e)[Len(s) + 1] = e
BY AppendProperties

LEMMA TailIs ==
  ASSUME NEW S, NEW s \in Seq(S), s # <<>>
  PROVE  /\ Tail(s) \in Seq(S) /\ Head(s) = s[1] /\ s[1] \in S
         /\ Len(s) \in Nat \ {0} /\ Len(Tail(s)) = Len(s) - 1
         /\ \A i \in 1..(Len(s) - 1) : Tail(s)[i] = s[i + 1]
<1>1. Len(s) \in Nat \ {0}
  BY EmptySeq, LenProperties
<1> QED
  BY <1>1, HeadTailProperties, ElementOfSeq

LEMMA ConcatIs ==
  ASSUME NEW S, NEW s \in Seq(S), NEW t \in Seq(S)
  PROVE  /\ s \o t \in Seq(S) /\ Len(s \o t) = Len(s) + Len(t)
         /\ Len(s) \in Nat /\ Len(t) \in Nat
         /\ \A i \in 1..Len(s) : (s \o t)[i] = s[i]
         /\ \A i \in 1..Len(t) : (s \o t)[Len(s) + i] = t[i]
<1>1. \A i \in 1..(Len(s) + Len(t)) :
        (s \o t)[i] = IF i <= Len(s) THEN s[i] ELSE t[i - Len(s)]
  BY ConcatProperties
<1> QED
  BY <1>1, ConcatProperties, LenProperties

LEMMA CutIs ==
  ASSUME NEW S, NEW s \in Seq(S), NEW n \in 0..Len(s)
  PROVE  /\ SubSeq(s, 1, n) \in Seq(S) /\ SubSeq(s, n + 1, Len(s)) \in Seq(S)
         /\ Len(SubSeq(s, 1, n)) = n /\ Len(SubSeq(s, n + 1, Len(s))) = Len(s) - n
         /\ \A i \in 1..n : SubSeq(s, 1, n)[i] = s[i]
         /\ \A i \in 1..(Len(s) - n) : SubSeq(s, n + 1, Len(s))[i] = s[n + i]
<1>0. Len(s) \in Nat /\ n \in Nat /\ \A i \in 1..Len(s) : s[i] \in S
  BY LenProperties, ElementOfSeq
<1>1. /\ SubSeq(s, 1, n) \in Seq(S) /\ Len(SubSeq(s, 1, n)) = n
      /\ \A i \in 1..n : SubSeq(s, 1, n)[i] = s[i]
  <2>1. \A i \in 1..n : s[i] \in S
    BY <1>0
  <2> QED
    BY <1>0, <2>1, SubSeqProperties
<1>2. /\ SubSeq(s, n + 1, Len(s)) \in Seq(S)
      /\ Len(SubSeq(s, n + 1, Len(s))) = Len(s) - n
      /\ \A i \in 1..(Len(s) - n) : SubSeq(s, n + 1, Len(s))[i] = s[n + i]
  <2>1. \A i \in (n + 1)..Len(s) : s[i] \in S
    BY <1>0
  <2>2. /\ SubSeq(s, n + 1, Len(s)) \in Seq(S)
        /\ Len(SubSeq(s, n + 1, Len(s)))
             = IF n + 1 <= Len(s) THEN Len(s) - (n + 1) + 1 ELSE 0
        /\ \A i \in 1..Len(s) - (n + 1) + 1 :
             SubSeq(s, n + 1, Len(s))[i] = s[n + 1 + i - 1]
    BY <1>0, <2>1, SubSeqProperties
  <2>3. \A i \in 1..(Len(s) - n) : i \in 1..Len(s) - (n + 1) + 1 /\ n + 1 + i - 1 = n + i
    BY <1>0
  <2> QED
    BY <1>0, <2>2, <2>3
<1> QED
  BY <1>1, <1>2

-----------------------------------------------------------------------------
LEMMA InitHolds == Init => IInv
<1> SUFFICES ASSUME Init PROVE IInv
  OBVIOUS
<1>1. /\ pc = "out" /\ head = NoHead /\ info = NoHead /\ queue = <<>>
      /\ task = Idle /\ downloads = 0 /\ sent = 0 /\ FotaPos = 0 /\ image = 0
      /\ buf = <<>>
  BY DEF Init
<1>2. Idle.event \in EventType /\ Idle.event.id = "none" /\ Idle.event.data = <<>>
      /\ Idle.at = "idle" /\ Idle.ctrl = NULL
  BY DEF Idle, Event, EventType
<1>3. Types
  <2>1. NoHead \in [d : Downloads \union {0}, len : 0..MaxLen, store : Stores \union {"none"}]
    BY Sizes DEF NoHead
  <2>2. Idle \in [at : {"idle", "erase", "call-back", "write", "crc", "count",
                     "close", "file"},
               event : EventType, ctrl : Downloads \union {NULL}]
    BY <1>2 DEF Idle
  <2>3. {head, info} \subseteq [d : Downloads \union {0}, len : 0..MaxLen,
                              store : Stores \union {"none"}]
    BY <1>1, <2>1
  <2>4. cells \in [Cells -> Units \union {Old, Erased, Garbage}]
    BY DEF Init
  <2>5. queue \in Seq(EventType) /\ buf \in Seq(Units) /\ file \in Seq(Units)
        /\ FotaCRC32 \in Seq(Units) /\ Len(buf) < Block
    BY Sizes DEF Init
  <2>6. TypeOK
    <3>1. 0 \in 0..MaxLen /\ 0 \in 0..MaxDownloads /\ 0 \in Nat
      BY Sizes
    <3>2. task.at = "idle" /\ pSpiFlash = NULL /\ freed = {}
      BY <1>1, <1>2 DEF Init
    <3> QED
      BY <1>1, <2>3, <2>4, <2>5, <3>1, <3>2 DEF Init, TypeOK
  <2> QED
    BY <1>1, <2>2, <2>5, <2>6 DEF Types
<1>4. Events
  BY <1>1, <1>2 DEF Events, Sane, Works
<1>5. Caller /\ Beginning /\ Flow /\ Judged
  BY <1>1 DEF Caller, Beginning, Flow, Stale, Chain, Working, Whole, Judged, Opened, NoHead
<1>6. Announced /\ InfoIsWhole
  BY <1>1 DEF Announced, InfoIsWhole, NoHead
<1> QED
  BY <1>3, <1>4, <1>5, <1>6 DEF IInv

(* A new download: nothing that exists is of it.                           *)
LEMMA InitDownloadKeeps ==
  ASSUME IInv, NEW n \in ImageLens, NEW store \in Stores, InitDownload(n, store)
  PROVE  IInv'
<1> USE Sizes
<1>1. /\ downloads' = downloads + 1 /\ downloads \in Nat /\ downloads' \in Downloads
      /\ downloads' > 0 /\ downloads' \in 0..MaxDownloads
      /\ image' = n /\ sent' = 0 /\ noise' = FALSE /\ answer' = "none" /\ verdict' = "none"
      /\ FotaReady' = (store # "spi") /\ info' = NoHead
      /\ head' = [d |-> downloads', len |-> 0, store |-> store]
      /\ known' = FALSE /\ buf' = <<>>
      /\ FotaPos' = 0 /\ FotaDoneLen' = 0 /\ FotaCRC32' = <<>>
      /\ UNCHANGED <<queue, task>> /\ UNCHANGED stores
  BY DEF InitDownload, IInv, Types, TypeOK, Downloads
<1>2. /\ pc' = IF store = "spi" THEN "init" ELSE "ready"
      /\ pSpiFlash' \in Downloads \union {NULL} /\ freed' \subseteq Downloads
  BY <1>1 DEF InitDownload, IInv, Types, TypeOK, block
<1>3. NoHead \in [d : Downloads \union {0}, len : 0..MaxLen, store : Stores \union {"none"}]
  BY DEF NoHead
<1>4. Types'
  <2>1. head' \in [d : Downloads \union {0}, len : 0..MaxLen, store : Stores \union {"none"}]
    BY <1>1
  <2>2. {head', info'} \subseteq [d : Downloads \union {0}, len : 0..MaxLen,
                                store : Stores \union {"none"}]
    BY <1>1, <1>3, <2>1
  <2>3. UNCHANGED <<queue, task, cells, file, failed>>
    BY <1>1 DEF stores
  <2>4. buf' \in Seq(Units) /\ FotaCRC32' \in Seq(Units) /\ Len(buf') < Block
    BY <1>1
  <2>5. TypeOK'
    BY <1>1, <1>2, <2>2, <2>3, <2>4 DEF IInv, Types, TypeOK
  <2> QED
    BY <2>3, <2>5 DEF IInv, Types
<1>5. /\ Events' /\ Foreign(task.event)'
      /\ \A i \in 1..Len(queue) : Foreign(queue[i])'
  <2>1. ASSUME NEW e \in EventType, Sane(e)
        PROVE  Sane(e)' /\ Foreign(e)'
    <3>1. \A k \in 1..Len(e.data) : e.data[k][1] \in Nat
      BY UnitsAre, ElementOfSeq DEF EventType
    <3>2. \A k \in 1..Len(e.data) : e.data[k][1] <= downloads' /\ e.data[k][1] # downloads'
      BY <1>1, <2>1, <3>1 DEF Sane
    <3> QED
      BY <2>1, <3>2 DEF Sane, Foreign
  <2>2. task.event \in EventType /\ \A i \in 1..Len(queue) : queue[i] \in EventType
    BY ElementOfSeq DEF IInv, Types
  <2>3. queue' = queue /\ task' = task
    BY <1>1
  <2>4. \A i \in 1..Len(queue) : Sane(queue[i])' /\ Foreign(queue[i])'
    <3> SUFFICES ASSUME NEW i \in 1..Len(queue) PROVE Sane(queue[i])' /\ Foreign(queue[i])'
      BY <2>3
    <3>1. Sane(queue[i]) /\ queue[i] \in EventType
      BY <2>2 DEF IInv, Events
    <3> QED
      BY <2>1, <2>3, <3>1 DEF Sane, Foreign
  <2>5. Sane(task.event)' /\ Foreign(task.event)'
    BY <2>1, <2>2, <2>3 DEF IInv, Events, Sane, Foreign
  <2> QED
    BY <2>3, <2>4, <2>5 DEF IInv, Events, Works
<1>6. Caller'
  BY <1>1, <1>2, EmptySeq DEF Caller
<1>7. Beginning'
  <2>1. queue' = queue
    BY <1>1
  <2>2. \A i \in 1..Len(queue') : Foreign(queue[i])'
    BY <1>5, <2>1
  <2>3. Fresh'
    BY <1>1 DEF Fresh
  <2> QED
    BY <1>5, <2>2, <2>3 DEF Beginning
<1>8. ~Opened'
  BY <1>1, <1>2 DEF Opened
<1>9. Flow' /\ Judged'
  BY <1>8 DEF Flow, Stale, Chain, Working, Whole, Judged
<1>10. Announced' /\ InfoIsWhole'
  BY <1>1 DEF Announced, InfoIsWhole, NoHead
<1> QED
  BY <1>4, <1>5, <1>6, <1>7, <1>9, <1>10 DEF IInv

-----------------------------------------------------------------------------
(* The caller.                                                             *)

(* A step of it that neither sends nor ends nor begins.                    *)
LEMMA QuietFlow ==
  ASSUME IInv,
         UNCHANGED <<downloads, image, FotaCRC32, pSpiFlash, queue, task, cells, failed>>,
         Opened' => Opened,
         Sending' => Sending /\ FotaPos' = FotaPos
  PROVE  Flow'
<1>1. Stale'
  BY DEF IInv, Flow, Stale, Erasing, Behind, Fresh, Pure, Foreign
<1>2. Chain'
  BY DEF IInv, Flow, Chain, Behind, Own, After
<1>3. Working'
  <2> SUFFICES ASSUME Opened', ~Erasing' PROVE (Place /\ (Alive /\ Pure => Progress))'
    BY DEF Working
  <2>1. Place /\ (Alive /\ Pure => Progress)
    BY DEF IInv, Flow, Working, Erasing
  <2>2. \A n : Front(n) => Front(n)'
    BY DEF Front
  <2>3. \A n : Blank(n)' = Blank(n)
    BY DEF Blank
  <2>4. Alive' = Alive /\ Pure' = Pure /\ Fresh' = Fresh
        /\ Own(task.event)' = Own(task.event) /\ After(task.event)' = After(task.event)
    BY DEF Alive, Pure, Fresh, Own, After
  <2>5. Place'
    BY <2>1, <2>2, <2>3, <2>4 DEF Place
  <2>6. ASSUME Progress PROVE Progress'
    BY <2>2, <2>3, <2>4, <2>6 DEF Progress
  <2> QED
    BY <2>1, <2>4, <2>5, <2>6
<1>4. Whole'
  BY DEF IInv, Flow, Whole, Pure
<1> QED
  BY <1>1, <1>2, <1>3, <1>4 DEF Flow

LEMMA NotOpened == ASSUME ~Opened' PROVE Flow' /\ Judged'
BY DEF Flow, Stale, Chain, Working, Whole, Judged

(* The erasure is queued: what was queued before it is now stale.          *)
LEMMA InitEraseKeeps == ASSUME IInv, InitErase PROVE IInv'
<1> USE Sizes
<1> DEFINE e == Event("erase", 0, <<>>)
<1>1. /\ pc = "init" /\ pc' = "ready" /\ queue' = Append(queue, e)
      /\ UNCHANGED <<image, sent, noise, answer, verdict, downloads>>
      /\ UNCHANGED <<head, known, buf, FotaPos>>
      /\ UNCHANGED <<FotaDoneLen, FotaCRC32, FotaReady, pSpiFlash, freed, task>>
      /\ UNCHANGED <<cells, file, failed, info>>
  BY DEF InitErase, Send, control, count, block, stores
<1>2. e \in EventType /\ e.id = "erase" /\ e.pos = 0 /\ e.data = <<>>
  BY DEF Event, EventType
<1> HIDE DEF e
<1>3. /\ queue' \in Seq(EventType) /\ queue' # <<>> /\ Len(queue') = Len(queue) + 1
      /\ \A i \in 1..Len(queue) : queue'[i] = queue[i]
      /\ queue'[Len(queue) + 1] = e /\ Len(queue) \in Nat
  BY <1>1, <1>2, AppendIs, LenProperties DEF IInv, Types
<1>4. Types'
  BY <1>1, <1>3 DEF IInv, Types, TypeOK
<1>5. Events'
  <2>1. \A i \in 1..Len(queue') : queue'[i].id # "none" /\ Sane(queue[i])'
    <3> SUFFICES ASSUME NEW i \in 1..Len(queue')
                 PROVE  queue'[i].id # "none" /\ Sane(queue[i])'
      OBVIOUS
    <3>1. CASE i = Len(queue) + 1
      BY <1>2, <1>3, <3>1 DEF Sane
    <3>2. CASE i \in 1..Len(queue)
      BY <1>1, <1>3, <3>2 DEF IInv, Events, Sane
    <3> QED
      BY <1>3, <3>1, <3>2
  <2> QED
    BY <1>1, <2>1 DEF IInv, Events, Sane, Works
<1>6. Caller'
  BY <1>1 DEF IInv, Caller, Alive
<1>7. Beginning' /\ Judged'
  BY <1>1 DEF Beginning, Judged
<1>8. Fresh /\ Foreign(task.event) /\ \A i \in 1..Len(queue) : Foreign(queue[i])
  BY <1>1 DEF IInv, Beginning
<1>9. Erasing'
  BY <1>2, <1>3 DEF Erasing
<1>10. \A i \in 1..Len(queue') : Behind(i)' <=> i = Len(queue) + 1
  <2>1. ASSUME NEW i \in 1..Len(queue) PROVE ~Behind(i)'
    BY <1>2, <1>3 DEF Behind
  <2>2. ASSUME NEW i \in 1..Len(queue'), i = Len(queue) + 1 PROVE Behind(i)'
    BY <1>3, <2>2 DEF Behind
  <2> QED
    BY <1>3, <2>1, <2>2
<1>11. Fresh' /\ Foreign(task.event)'
  BY <1>1, <1>8 DEF Fresh, Pure, Foreign
<1>12. Stale'
  BY <1>1, <1>3, <1>8, <1>9, <1>10, <1>11 DEF Stale, Foreign
<1>13. Chain'
  BY <1>1, <1>2, <1>3, <1>10 DEF IInv, Chain, Caller, Own, After
<1>14. Working'
  BY <1>9 DEF Working
<1>15. Whole'
  BY <1>1, <1>11 DEF IInv, Types, TypeOK, Whole, Fresh
<1>16. info.store # "spi"
  BY <1>1 DEF IInv, Announced
<1>17. Announced' /\ InfoIsWhole'
  BY <1>1, <1>16 DEF Announced, InfoIsWhole
<1> QED
  BY <1>4, <1>5, <1>6, <1>7, <1>12, <1>13, <1>14, <1>15, <1>17 DEF IInv, Flow

LEMMA InitFailsKeeps == ASSUME IInv, InitFails PROVE IInv'
<1>1. /\ pc = "init" /\ pc' = "out"
      /\ UNCHANGED <<image, sent, noise, answer, verdict, downloads>>
      /\ UNCHANGED <<head, known, buf, FotaPos>>
      /\ UNCHANGED <<FotaDoneLen, FotaCRC32, FotaReady, pSpiFlash, freed, queue, task>>
      /\ UNCHANGED <<cells, file, failed, info>>
  BY DEF InitFails, control, count, block, stores
<1>2. Types' /\ Beginning'
  BY <1>1 DEF IInv, Types, TypeOK, Beginning
<1>3a. Events' /\ Caller'
  BY <1>1 DEF IInv, Events, Sane, Works, Caller
<1>3. Flow' /\ Judged'
  BY <1>1, NotOpened DEF Opened
<1>4. info.store # "spi"
  BY <1>1 DEF IInv, Announced
<1>5. Announced' /\ InfoIsWhole'
  BY <1>1, <1>4 DEF Announced, InfoIsWhole
<1> QED
  BY <1>2, <1>3a, <1>3, <1>5 DEF IInv

LEMMA AskingKeeps ==
  ASSUME IInv, Core_OTACheckReadyStart \/ CheckLen \/ CheckCRC
  PROVE  IInv'
<1>1. /\ UNCHANGED <<image, sent, noise, answer, downloads>>
      /\ UNCHANGED <<head, known, buf, FotaPos>>
      /\ UNCHANGED <<FotaDoneLen, FotaCRC32, FotaReady, pSpiFlash, freed, queue, task>>
      /\ UNCHANGED <<cells, file, failed, info>>
  BY DEF Core_OTACheckReadyStart, CheckLen, CheckCRC, control, count, block, stores
<1>2. /\ pc \in {"ready", "poll", "crc"}
      /\ pc = "ready" => pc' = "send" /\ verdict' = verdict
      /\ pc = "poll" => pc' \in {"poll", "crc"} /\ verdict' \in {verdict, "more"}
      /\ pc = "crc" => pc' = "end" /\ verdict' \in {"ok", "bad"}
                       /\ (verdict' = "ok" => FotaCRC32 = Image(head.d, head.len))
  BY DEF Core_OTACheckReadyStart, CheckLen, CheckCRC
<1>3. Types' /\ Events' /\ Caller' /\ Beginning'
  BY <1>1, <1>2 DEF IInv, Types, TypeOK, Events, Sane, Works, Caller, Alive, Beginning
<1>4. Flow'
  <2>1. Opened' => Opened
    BY <1>1, <1>2 DEF Opened
  <2>2. Sending' => Sending
    BY <1>1, <1>2 DEF Sending, Alive
  <2> QED
    BY <1>1, <2>1, <2>2, QuietFlow
<1>5. Judged'
  <2> SUFFICES ASSUME Opened', pc' = "end", verdict' = "ok"
               PROVE  (Pure /\ Len(FotaCRC32) = image)'
    BY DEF Judged
  <2>1. FotaCRC32 = Image(downloads, image) /\ image \in Nat
    BY <1>2 DEF IInv, Caller, Types, TypeOK
  <2>2. Len(FotaCRC32) = image /\ \A i \in 1..image : FotaCRC32[i] = <<downloads, i - 1>>
    BY <2>1 DEF Image
  <2> QED
    BY <1>1, <2>2 DEF Pure
<1>6. info.store # "spi"
  BY <1>2 DEF IInv, Announced
<1>7. Announced' /\ InfoIsWhole'
  BY <1>1, <1>6 DEF Announced, InfoIsWhole
<1> QED
  BY <1>3, <1>4, <1>5, <1>7 DEF IInv

(* An event is queued.                                                     *)
LEMMA SendIs ==
  ASSUME Types, Events, NEW e \in EventType, e.id # "none", Sane(e), Send(e),
         UNCHANGED <<task, downloads>>
  PROVE  /\ queue' \in Seq(EventType) /\ queue' # <<>> /\ Len(queue) \in Nat
         /\ Len(queue') = Len(queue) + 1
         /\ \A i \in 1..Len(queue) : queue'[i] = queue[i]
         /\ queue'[Len(queue) + 1] = e
         /\ Events'
<1>1. /\ queue' \in Seq(EventType) /\ queue' # <<>> /\ Len(queue') = Len(queue) + 1
      /\ \A i \in 1..Len(queue) : queue'[i] = queue[i]
      /\ queue'[Len(queue) + 1] = e /\ Len(queue) \in Nat
  BY AppendIs, LenProperties DEF Types, Send
<1>2. \A i \in 1..Len(queue') : queue'[i].id # "none" /\ Sane(queue[i])'
  <2> SUFFICES ASSUME NEW i \in 1..Len(queue')
               PROVE  queue'[i].id # "none" /\ Sane(queue[i])'
    OBVIOUS
  <2>1. CASE i = Len(queue) + 1
    BY <1>1, <2>1 DEF Sane
  <2>2. CASE i \in 1..Len(queue)
    BY <1>1, <2>2 DEF Events, Sane
  <2> QED
    BY <1>1, <2>1, <2>2
<1> QED
  BY <1>1, <1>2 DEF Events, Sane, Works

(* A right CRC: the flash holds the image, and nothing is left that could  *)
(* touch it.                                                               *)
LEMMA RightIsWhole ==
  ASSUME IInv, Opened, Pure, Len(FotaCRC32) = image, image > 0
  PROVE  /\ queue = <<>> /\ task.at \in {"idle", "count"} /\ ~Erasing
         /\ \A i \in 1..image : failed \/ cells[i - 1] = <<downloads, i - 1>>
<1>0. ~Fresh /\ Len(FotaCRC32) \in Nat
  BY EmptySeq, LenProperties DEF Fresh, IInv, Types, TypeOK
<1>1. ~Erasing
  BY <1>0 DEF IInv, Flow, Stale
<1>2. Place /\ Alive /\ Progress
  BY <1>0, <1>1 DEF IInv, Flow, Working, Place
<1>3. ASSUME NEW e \in EventType, Own(e), Sane(e), e.id = "write", e.pos = image
      PROVE  FALSE
  <2>1. Len(e.data) \in Nat \ {0}
    BY <1>3, EmptySeq, LenProperties DEF EventType, Sane
  <2>2. e.pos + Len(e.data) <= image /\ e.pos \in Nat
    BY <1>3 DEF Own, EventType
  <2> QED
    BY <1>3, <2>1, <2>2
<1>4. task.event \in EventType /\ Sane(task.event) /\ Works
  BY DEF IInv, Types, Events
<1>5. task.at \notin {"erase", "call-back"}
  BY <1>0, <1>2 DEF Place
<1>6. task.at \notin {"write", "crc"}
  BY <1>2, <1>3, <1>4 DEF Place, Progress, Works
<1>7. task.at \notin {"close", "file"}
  BY <1>2, <1>4 DEF Place, Own, Works
<1>8. task.at \in {"idle", "count"}
  BY <1>5, <1>6, <1>7 DEF IInv, Types
<1>9. Front(image)
  BY <1>2, <1>8 DEF Place, Progress
<1>10. queue = <<>>
  <2> SUFFICES ASSUME queue # <<>> PROVE FALSE
    OBVIOUS
  <2>1. Len(queue) \in Nat \ {0} /\ queue[1] \in EventType
    BY TailIs DEF IInv, Types
  <2>2. Behind(1) /\ queue[1].id # "erase"
    BY <1>1, <2>1 DEF Erasing, Behind
  <2>3. Own(queue[1])
    BY <2>1, <2>2 DEF IInv, Flow, Chain
  <2>4. queue[1].id = "write" /\ Sane(queue[1])
    BY <2>1, <2>2, <2>3 DEF Own, IInv, Events
  <2>5. queue[1].pos = image
    BY <1>9 DEF Front
  <2> QED
    BY <1>3, <2>1, <2>3, <2>4, <2>5
<1>11. \A i \in 1..image : failed \/ cells[i - 1] = <<downloads, i - 1>>
  BY DEF IInv, Flow, Whole
<1> QED
  BY <1>1, <1>8, <1>10, <1>11

LEMMA EndKeeps == ASSUME IInv, Core_OTAEnd PROVE IInv'
<1> USE Sizes
<1>1. /\ pc \in {"ready", "send", "poll", "end"} /\ pc' = "out"
      /\ head' = NoHead /\ buf' = <<>>
      /\ UNCHANGED <<image, sent, noise, answer, verdict, downloads>>
      /\ UNCHANGED <<known, FotaPos, FotaDoneLen, FotaCRC32, FotaReady, task>>
      /\ UNCHANGED <<cells, file, failed>>
      /\ \/ pc = "end" /\ verdict = "ok" /\ EndOk
         \/ EndAborted
  BY DEF Core_OTAEnd, count, stores
<1>2. NoHead \in [d : Downloads \union {0}, len : 0..MaxLen, store : Stores \union {"none"}]
  BY DEF NoHead
<1>3. ~Opened' /\ Caller' /\ Beginning'
  BY <1>1 DEF Opened, NoHead, IInv, Caller, Beginning
<1>4. Flow' /\ Judged'
  BY <1>3, NotOpened
<1>5. CASE pc = "end" /\ verdict = "ok" /\ EndOk
  <2>1. /\ info' = head /\ queue' = queue
        /\ pSpiFlash' \in {pSpiFlash, NULL}
        /\ freed' \in {freed, freed \union ({pSpiFlash} \ {NULL})}
    BY <1>5 DEF EndOk, block
  <2>2. Types'
    BY <1>1, <1>2, <2>1 DEF IInv, Types, TypeOK
  <2>3. Events'
    BY <1>1, <2>1 DEF IInv, Events, Sane, Works
  <2>4. CASE head.store = "spi"
    <3>1. Opened /\ head.d = downloads /\ head.len = image /\ image \in Nat /\ image > 0
      <4>1. Opened /\ head.d = downloads /\ head.len = image /\ image \in ImageLens
        BY <1>5, <2>4 DEF Opened, IInv, Caller
      <4> QED
        BY <4>1
    <3>2. Pure /\ Len(FotaCRC32) = image
      BY <1>5, <3>1 DEF IInv, Judged
    <3>3. /\ queue = <<>> /\ task.at \in {"idle", "count"}
          /\ \A i \in 1..image : failed \/ cells[i - 1] = <<downloads, i - 1>>
      BY <3>1, <3>2, RightIsWhole
    <3>4. Announced'
      BY <1>1, <2>1, <3>3 DEF Announced
    <3>5. \A i \in 1..image : Image(downloads, image)[i] = <<downloads, i - 1>>
      BY DEF Image
    <3>6. InfoIsWhole'
      BY <1>1, <2>1, <3>1, <3>3, <3>5 DEF InfoIsWhole
    <3> QED
      BY <1>3, <1>4, <2>2, <2>3, <3>4, <3>6 DEF IInv
  <2>5. CASE head.store # "spi"
    BY <1>3, <1>4, <2>1, <2>2, <2>3, <2>5 DEF IInv, Announced, InfoIsWhole
  <2> QED
    BY <2>4, <2>5
<1>6. CASE EndAborted
  <2>1. /\ info' = info /\ pSpiFlash' = pSpiFlash /\ freed' = freed
        /\ queue' = queue \/ Send(Event("close", 0, <<>>))
    BY <1>6 DEF EndAborted, block
  <2>2. info.store # "spi"
    BY <1>1 DEF IInv, Announced
  <2>3. queue' \in Seq(EventType) /\ Events'
    <3>1. CASE queue' = queue
      BY <1>1, <3>1 DEF IInv, Types, Events, Sane, Works
    <3>2. CASE Send(Event("close", 0, <<>>))
      <4>1. PICK e : e = Event("close", 0, <<>>)
        OBVIOUS
      <4>2. e \in EventType /\ e.id = "close" /\ e.data = <<>> /\ Send(e)
        BY <3>2, <4>1 DEF Event, EventType
      <4>3. Sane(e)
        BY <4>2 DEF Sane
      <4> QED
        BY <1>1, <4>2, <4>3, SendIs DEF IInv
    <3> QED
      BY <2>1, <3>1, <3>2
  <2>4. Types'
    BY <1>1, <1>2, <2>1, <2>3 DEF IInv, Types, TypeOK
  <2> QED
    BY <1>3, <1>4, <2>1, <2>2, <2>3, <2>4 DEF IInv, Announced, InfoIsWhole
<1> QED
  BY <1>1, <1>5, <1>6

(* A block is queued: it continues the chain.                              *)
LEMMA SendFlow ==
  ASSUME IInv, Opened, Sending,
         NEW e \in EventType, e.id = "write", e.pos = FotaPos, Sane(e), Own(e), Send(e),
         UNCHANGED <<downloads, image, FotaCRC32, pSpiFlash, task, cells, failed>>,
         Sending' => FotaPos' = FotaPos + Len(e.data)
  PROVE  Flow'
<1>1. /\ queue' \in Seq(EventType) /\ queue' # <<>> /\ Len(queue) \in Nat
      /\ Len(queue') = Len(queue) + 1
      /\ \A i \in 1..Len(queue) : queue'[i] = queue[i]
      /\ queue'[Len(queue) + 1] = e
  BY SendIs DEF IInv
<1>2. Erasing' <=> Erasing
  BY <1>1 DEF Erasing
<1>3. \A i \in 1..Len(queue) : Behind(i)' <=> Behind(i)
  BY <1>1 DEF Behind
<1>4. /\ Pure' = Pure /\ Fresh' = Fresh /\ Alive' = Alive
      /\ Foreign(task.event)' = Foreign(task.event)
      /\ Own(task.event)' = Own(task.event) /\ After(task.event)' = After(task.event)
      /\ \A n : Blank(n)' = Blank(n)
  BY DEF Pure, Fresh, Alive, Foreign, Own, After, Blank
<1>5. Stale'
  <2>1. ASSUME NEW i \in 1..Len(queue'), ~Behind(i)' PROVE Foreign(queue[i])'
    <3>1. i \in 1..Len(queue)
      BY <1>1, <2>1 DEF Behind
    <3> QED
      BY <1>1, <1>3, <2>1, <3>1 DEF IInv, Flow, Stale, Foreign
  <2> QED
    BY <1>2, <1>4, <2>1 DEF IInv, Flow, Stale
<1>6. Chain'
  <2>1. ASSUME NEW i \in 1..Len(queue'), Behind(i)'
        PROVE  (/\ Own(queue[i])
                /\ queue[i].id = "write" /\ i > 1 => queue[i].pos = After(queue[i - 1]))'
    <3>1. CASE i = Len(queue) + 1
      <4>1. queue'[i] = e /\ Own(e)'
        BY <1>1, <3>1 DEF Own
      <4>2. ASSUME i > 1 PROVE e.pos = After(queue[Len(queue)]) /\ queue'[i - 1] = queue[Len(queue)]
        BY <1>1, <3>1, <4>2, EmptySeq DEF IInv, Flow, Chain
      <4> QED
        BY <4>1, <4>2 DEF Own, After
    <3>2. CASE i \in 1..Len(queue)
      <4>1. Behind(i) /\ queue'[i] = queue[i] /\ Own(queue[i])
        BY <1>1, <1>3, <2>1, <3>2 DEF IInv, Flow, Chain
      <4>2. ASSUME i > 1, queue[i].id = "write" PROVE queue[i].pos = After(queue[i - 1])
        BY <3>2, <4>1, <4>2 DEF IInv, Flow, Chain
      <4>3. i > 1 => queue'[i - 1] = queue[i - 1]
        BY <1>1, <3>2
      <4> QED
        BY <4>1, <4>2, <4>3 DEF Own, After
    <3> QED
      BY <1>1, <3>1, <3>2
  <2>2. Sending' => FotaPos' = After(e)
    BY DEF After
  <2> QED
    BY <1>1, <2>1, <2>2 DEF Chain, After
<1>7. Working'
  <2> SUFFICES ASSUME ~Erasing PROVE (Place /\ (Alive /\ Pure => Progress))'
    BY <1>2 DEF Working
  <2>1. Place /\ (Alive /\ Pure => Progress)
    BY DEF IInv, Flow, Working
  <2>2. ASSUME NEW n, Front(n) PROVE Front(n)'
    <3>1. CASE queue = <<>>
      BY <1>1, <2>2, <3>1, EmptySeq DEF Front
    <3>2. CASE queue # <<>>
      <4>1. queue'[1] = queue[1]
        BY <1>1, <3>2, EmptySeq DEF IInv, Types
      <4> QED
        BY <1>1, <2>2, <3>2, <4>1 DEF Front
    <3> QED
      BY <3>1, <3>2
  <2>3. Place'
    BY <1>4, <2>1, <2>2 DEF Place
  <2>4. ASSUME Progress PROVE Progress'
    BY <1>4, <2>2, <2>4 DEF Progress
  <2> QED
    BY <1>4, <2>1, <2>3, <2>4
<1>8. Whole'
  BY DEF IInv, Flow, Whole, Pure, Opened
<1> QED
  BY <1>5, <1>6, <1>7, <1>8 DEF Flow

(* What becomes of a block, for each place an image is stored at.          *)
LEMMA FlushIs ==
  ASSUME IInv, pc = "send", NEW data \in Seq(Units), data # <<>>,
         \A k \in 1..Len(data) : data[k][1] <= downloads,
         Flush(data), UNCHANGED <<task, downloads>>
  PROVE  /\ queue' \in Seq(EventType) /\ Events' /\ FotaDoneLen' \in Nat
         /\ head.store = "spi" =>
              \E e \in EventType : /\ e = Event("write", FotaPos, data)
                                   /\ Sane(e) /\ Send(e)
<1>1. FotaPos \in Nat /\ FotaDoneLen \in Nat /\ Len(data) \in Nat
  BY Sizes, LenProperties DEF IInv, Types, TypeOK
<1>2. CASE head.store = "flash"
  BY <1>1, <1>2 DEF Flush, IInv, Types, Events, Sane, Works
<1>3. CASE head.store \in {"spi", "file"}
  <2>1. PICK e : e = Event(IF head.store = "spi" THEN "write" ELSE "file", FotaPos, data)
    OBVIOUS
  <2>2. e \in EventType /\ e.id # "none" /\ e.data = data /\ Send(e)
        /\ FotaDoneLen' = FotaDoneLen
    BY <1>1, <1>3, <2>1 DEF Event, EventType, Flush
  <2>3. Sane(e)
    BY <2>2 DEF Sane
  <2>4. queue' \in Seq(EventType) /\ Events'
    BY <2>2, <2>3, SendIs DEF IInv
  <2> QED
    BY <1>1, <2>1, <2>2, <2>3, <2>4
<1> QED
  BY <1>2, <1>3 DEF Flush

ChunkOf(k, damaged) ==
  [i \in 1..k |-> IF damaged THEN Damaged ELSE <<head.d, sent + i - 1>>]

(* What the caller hands over continues what is in the buffer.             *)
LEMMA ChunkIs ==
  ASSUME IInv, pc = "send", NEW k \in Chunks, NEW damaged \in BOOLEAN, sent + k <= image,
         NEW chunk, chunk = ChunkOf(k, damaged)
  PROVE  /\ buf \o chunk \in Seq(Units) /\ Len(buf) \in Nat /\ k \in 1..Block
         /\ Len(buf \o chunk) = Len(buf) + k
         /\ \A i \in 1..Len(buf \o chunk) : (buf \o chunk)[i][1] <= downloads
         /\ (head.store = "spi" => Alive) =>
              /\ sent + k = FotaPos + Len(buf \o chunk)
              /\ head.store = "spi" =>
                   \A i \in 1..Len(buf \o chunk) :
                      (buf \o chunk)[i] \in Units0(downloads, FotaPos + i - 1)
<1> USE Sizes
<1>1. /\ k \in 1..Block /\ k \in Nat /\ sent \in Nat /\ image \in ImageLens /\ head.d = downloads
      /\ downloads \in Nat /\ downloads > 0 /\ downloads \in Downloads
      /\ buf \in Seq(Units) /\ FotaPos \in Nat
  BY DEF IInv, Types, TypeOK, Caller, Downloads
<1>0. chunk = [i \in 1..k |-> IF damaged THEN Damaged ELSE <<head.d, sent + i - 1>>]
  BY DEF ChunkOf
<1>2. \A i \in 1..k : chunk[i] \in Units0(downloads, sent + i - 1)
  BY <1>0, <1>1 DEF Units0
<1>3. \A i \in 1..k : chunk[i] \in Units /\ chunk[i][1] <= downloads
  <2> SUFFICES ASSUME NEW i \in 1..k PROVE chunk[i] \in Units /\ chunk[i][1] <= downloads
    OBVIOUS
  <2>1. sent + i - 1 \in Cells
    BY <1>1 DEF Cells
  <2>2. chunk[i] = Damaged \/ chunk[i] = <<downloads, sent + i - 1>>
    BY <1>0, <1>1
  <2>3. <<downloads, sent + i - 1>> \in Units /\ <<downloads, sent + i - 1>>[1] = downloads
    BY <1>1, <2>1, UnitsAre
  <2>4. Damaged \in Units /\ Damaged[1] <= downloads
    BY <1>1, UnitsAre
  <2> QED
    BY <1>1, <2>2, <2>3, <2>4
<1>4. chunk \in Seq(Units) /\ Len(chunk) = k
  <2>1. chunk \in [1..k -> Units]
    BY <1>0, <1>3
  <2>2. k \in Nat /\ DOMAIN chunk = 1..k
    BY <1>0, <1>1
  <2>3. chunk \in Seq(Units)
    BY <2>1, <2>2, SeqDef
  <2>4. Len(chunk) \in Nat /\ DOMAIN chunk = 1..Len(chunk)
    BY <2>3, LenProperties
  <2> QED
    BY <2>2, <2>3, <2>4
<1>5. /\ buf \o chunk \in Seq(Units) /\ Len(buf) \in Nat
      /\ Len(buf \o chunk) = Len(buf) + k
      /\ \A i \in 1..Len(buf) : (buf \o chunk)[i] = buf[i]
      /\ \A i \in 1..k : (buf \o chunk)[Len(buf) + i] = chunk[i]
  <2>1. buf \in Seq(Units) /\ chunk \in Seq(Units)
    BY <1>1, <1>4
  <2>2. /\ buf \o chunk \in Seq(Units) /\ Len(buf) \in Nat
        /\ Len(buf \o chunk) = Len(buf) + Len(chunk)
        /\ \A i \in 1..Len(buf) : (buf \o chunk)[i] = buf[i]
        /\ \A i \in 1..Len(chunk) : (buf \o chunk)[Len(buf) + i] = chunk[i]
    BY <2>1, ConcatIs
  <2> QED
    BY <1>4, <2>2
<1> DEFINE all == buf \o chunk
<1> HIDE DEF all
<1>6. ASSUME NEW i \in 1..Len(all), i > Len(buf)
      PROVE  i - Len(buf) \in 1..k /\ all[i] = chunk[i - Len(buf)]
  <2>1. i - Len(buf) \in 1..k /\ Len(buf) + (i - Len(buf)) = i
    BY <1>1, <1>5, <1>6 DEF all
  <2> QED
    BY <1>5, <2>1 DEF all
<1>7. \A i \in 1..Len(all) : all[i][1] <= downloads
  <2> SUFFICES ASSUME NEW i \in 1..Len(all) PROVE all[i][1] <= downloads
    OBVIOUS
  <2>1. CASE i <= Len(buf)
    BY <1>5, <2>1 DEF all, IInv, Caller
  <2>2. CASE i > Len(buf)
    BY <1>3, <1>6, <2>2
  <2> QED
    BY <1>5, <2>1, <2>2
<1>8. ASSUME head.store = "spi" => Alive
      PROVE  /\ sent + k = FotaPos + Len(all)
             /\ head.store = "spi" =>
                  \A i \in 1..Len(all) : all[i] \in Units0(downloads, FotaPos + i - 1)
  <2>1. sent = FotaPos + Len(buf)
    BY <1>8 DEF IInv, Caller
  <2>2. ASSUME head.store = "spi", NEW i \in 1..Len(all)
        PROVE  all[i] \in Units0(downloads, FotaPos + i - 1)
    <3>1. CASE i <= Len(buf)
      BY <1>5, <1>8, <2>2, <3>1 DEF all, IInv, Caller
    <3>2. CASE i > Len(buf)
      <4>1. sent + (i - Len(buf)) - 1 = FotaPos + i - 1
        BY <1>1, <1>5, <2>1
      <4> QED
        BY <1>2, <1>6, <3>2, <4>1
    <3> QED
      BY <1>5, <3>1, <3>2
  <2>3. sent + k = FotaPos + Len(all)
    BY <1>1, <1>5, <2>1 DEF all
  <2> QED
    BY <2>2, <2>3
<1> QED
  BY <1>1, <1>5, <1>7, <1>8 DEF all

LEMMA WriteKeeps ==
  ASSUME IInv, NEW k \in Chunks, NEW damaged \in BOOLEAN, Core_OTAWrite(k, damaged)
  PROVE  IInv'
<1> USE Sizes
<1>1. PICK chunk : chunk = ChunkOf(k, damaged)
  OBVIOUS
<1>2. PICK all : all = buf \o chunk
  OBVIOUS
<1>3. /\ pc = "send" /\ sent + k <= image
      /\ known' = TRUE /\ head' = [head EXCEPT !.len = image]
      /\ sent' = sent + k /\ noise' = (noise \/ damaged)
      /\ pc' \in {"poll", "send"} /\ (answer' = "all" => pc' = "poll")
      /\ UNCHANGED <<image, verdict, downloads, FotaCRC32, FotaReady, task, info>>
      /\ UNCHANGED <<pSpiFlash, freed, cells, file, failed>>
  BY DEF Core_OTAWrite, block, stores
<1>4. IF head.store = "spi" /\ ~Alive THEN WriteRefused
      ELSE WriteBlock(all) \/ WriteTail(all) \/ WritePart(all)
  BY <1>1, <1>2 DEF Core_OTAWrite, Alive, ChunkOf
<1>5. /\ all \in Seq(Units) /\ Len(buf) \in Nat /\ k \in 1..Block
      /\ Len(all) = Len(buf) + k /\ Len(all) \in Nat
      /\ \A i \in 1..Len(all) : all[i][1] <= downloads
      /\ (head.store = "spi" => Alive) =>
           /\ sent + k = FotaPos + Len(all)
           /\ head.store = "spi" =>
                \A i \in 1..Len(all) : all[i] \in Units0(downloads, FotaPos + i - 1)
  <2>1. /\ buf \o chunk \in Seq(Units) /\ Len(buf) \in Nat /\ k \in 1..Block
        /\ Len(buf \o chunk) = Len(buf) + k
        /\ \A i \in 1..Len(buf \o chunk) : (buf \o chunk)[i][1] <= downloads
        /\ (head.store = "spi" => Alive) =>
             /\ sent + k = FotaPos + Len(buf \o chunk)
             /\ head.store = "spi" =>
                  \A i \in 1..Len(buf \o chunk) :
                     (buf \o chunk)[i] \in Units0(downloads, FotaPos + i - 1)
    BY <1>1, <1>3, ChunkIs
  <2> QED
    BY <1>2, <2>1, LenProperties
<1>6. /\ image \in ImageLens /\ head.d = downloads /\ downloads > 0 /\ FotaPos \in Nat
      /\ downloads \in Nat /\ Len(buf) < Block /\ sent \in Nat /\ FotaPos <= image
      /\ buf \in Seq(Units)
  BY <1>3 DEF IInv, Caller, Types, TypeOK
<1>7. /\ head' \in [d : Downloads \union {0}, len : 0..MaxLen, store : Stores \union {"none"}]
      /\ head'.d = downloads /\ head'.len = image /\ head'.store = head.store
  <2>1. image \in 0..MaxLen
    BY <1>6
  <2> QED
    BY <1>3, <1>6, <2>1 DEF IInv, Types, TypeOK
<1>8. info.store # "spi"
  BY <1>3 DEF IInv, Announced
<1>9. Beginning' /\ Judged' /\ Announced' /\ InfoIsWhole'
  BY <1>3, <1>8 DEF Beginning, Judged, Announced, InfoIsWhole
<1>10. SUFFICES /\ queue' \in Seq(EventType) /\ Events'
                /\ buf' \in Seq(Units) /\ Len(buf') < Block
                /\ FotaPos' \in Nat /\ FotaPos' <= image /\ FotaDoneLen' \in Nat
                /\ answer' \in {"more", "all", "refused"}
                /\ \A i \in 1..Len(buf') : buf'[i][1] <= downloads
                /\ pc' = "send" /\ (head.store = "spi" => Alive) =>
                     /\ sent' = FotaPos' + Len(buf')
                     /\ head.store = "spi" =>
                          \A i \in 1..Len(buf') : buf'[i] \in Units0(downloads, FotaPos' + i - 1)
                /\ Flow'
  <2> SUFFICES ASSUME /\ queue' \in Seq(EventType) /\ Events'
                      /\ buf' \in Seq(Units) /\ Len(buf') < Block
                      /\ FotaPos' \in Nat /\ FotaPos' <= image /\ FotaDoneLen' \in Nat
                      /\ answer' \in {"more", "all", "refused"}
                      /\ \A i \in 1..Len(buf') : buf'[i][1] <= downloads
                      /\ pc' = "send" /\ (head.store = "spi" => Alive) =>
                           /\ sent' = FotaPos' + Len(buf')
                           /\ head.store = "spi" =>
                                \A i \in 1..Len(buf') : buf'[i] \in Units0(downloads, FotaPos' + i - 1)
                      /\ Flow'
             PROVE IInv'
    OBVIOUS
  <2>1. Types'
    <3>1. FotaPos' \in 0..MaxLen /\ sent' \in 0..MaxLen
      <4>1. image \in Nat /\ MaxLen \in Nat /\ image <= MaxLen /\ k \in Nat
        BY <1>5, <1>6
      <4>2. sent' \in Nat /\ sent' <= image
        BY <1>3, <1>6, <4>1
      <4> QED
        BY <4>1, <4>2
    <3>2. {head', info'} \subseteq [d : Downloads \union {0}, len : 0..MaxLen,
                                    store : Stores \union {"none"}]
      BY <1>3, <1>7 DEF IInv, Types, TypeOK
    <3>3. TypeOK
      BY DEF IInv, Types
    <3>4. task' \in [at : {"idle", "erase", "call-back", "write", "crc", "count",
                          "close", "file"},
                    event : EventType, ctrl : Downloads \union {NULL}]
      BY <1>3 DEF IInv, Types
    <3>5. noise' \in BOOLEAN /\ known' \in BOOLEAN
      BY <1>3, <3>3 DEF TypeOK
    <3>6. task'.at \in {"idle", "erase", "call-back", "write", "crc", "count",
                        "close", "file"}
      BY <3>4
    <3>7. TypeOK'
      BY <1>3, <3>1, <3>2, <3>3, <3>5, <3>6 DEF TypeOK
    <3> QED
      BY <3>4, <3>7 DEF Types
  <2>2. Caller'
    BY <1>3, <1>6, <1>7 DEF Caller, Alive
  <2> QED
    BY <1>9, <2>1, <2>2 DEF IInv
<1>11. CASE head.store = "spi" /\ ~Alive
  <2>1. UNCHANGED <<buf, FotaPos, FotaDoneLen, queue>> /\ answer' = "refused"
    BY <1>4, <1>11 DEF WriteRefused
  <2>2. Flow'
    BY <1>3, <1>7, <1>11, <2>1, QuietFlow DEF Opened, Sending, Alive
  <2>3. Events' /\ queue' \in Seq(EventType)
    BY <1>3, <2>1 DEF IInv, Types, Events, Sane, Works
  <2> QED
    BY <1>6, <1>11, <2>1, <2>2, <2>3 DEF IInv, Types, TypeOK, Caller
<1>12. CASE (head.store = "spi" => Alive) /\ WritePart(all)
  <2>1. UNCHANGED <<FotaPos, FotaDoneLen, queue>> /\ answer' = "more" /\ buf' = all
        /\ Len(all) < Block
    BY <1>12 DEF WritePart
  <2>2. Flow'
    BY <1>3, <1>7, <1>12, <2>1, QuietFlow DEF Opened, Sending, Alive
  <2>3. Events' /\ queue' \in Seq(EventType)
    BY <1>3, <2>1 DEF IInv, Types, Events, Sane, Works
  <2>4. FotaDoneLen' \in Nat
    BY <2>1 DEF IInv, Types, TypeOK
  <2> QED
    BY <1>3, <1>5, <1>6, <1>12, <2>1, <2>2, <2>3, <2>4
<1>13. ASSUME NEW data \in Seq(Units), data # <<>>, Flush(data), head.store = "spi" => Alive,
              Len(data) <= Len(all), \A i \in 1..Len(data) : data[i] = all[i],
              pc' = "send" => FotaPos' = FotaPos + Len(data)
       PROVE  queue' \in Seq(EventType) /\ Events' /\ FotaDoneLen' \in Nat /\ Flow'
  <2>0. Len(data) \in Nat
    BY LenProperties
  <2>1. \A i \in 1..Len(data) : data[i][1] <= downloads
    BY <1>5, <1>13, <2>0
  <2>2. /\ queue' \in Seq(EventType) /\ Events' /\ FotaDoneLen' \in Nat
        /\ head.store = "spi" => \E e \in EventType : /\ e = Event("write", FotaPos, data)
                                                      /\ Sane(e) /\ Send(e)
    BY <1>3, <1>13, <2>1, FlushIs
  <2>3. CASE head.store = "spi"
    <3>1. PICK e \in EventType : e = Event("write", FotaPos, data) /\ Sane(e) /\ Send(e)
      BY <2>2, <2>3
    <3>2. e.id = "write" /\ e.pos = FotaPos /\ e.data = data
      BY <3>1 DEF Event
    <3>3. Opened /\ Sending
      BY <1>3, <1>13, <2>3 DEF Opened, Sending
    <3>4. Own(e)
      <4>1. FotaPos + Len(data) <= image
        BY <1>3, <1>5, <1>6, <1>13, <2>0
      <4>2. \A i \in 1..Len(data) : data[i] \in Units0(downloads, FotaPos + i - 1)
        BY <1>5, <1>13, <2>0, <2>3
      <4> QED
        BY <3>2, <4>1, <4>2 DEF Own
    <3>5. Sending' => FotaPos' = FotaPos + Len(e.data)
      BY <1>3, <1>13, <3>2 DEF Sending
    <3>6. Flow'
      BY <1>3, <3>1, <3>2, <3>3, <3>4, <3>5, SendFlow
    <3> QED
      BY <2>2, <3>6
  <2>4. CASE head.store # "spi"
    <3>1. ~Opened'
      BY <1>7, <2>4 DEF Opened
    <3> QED
      BY <2>2, <3>1, NotOpened
  <2> QED
    BY <2>3, <2>4
<1>14. CASE (head.store = "spi" => Alive) /\ WriteBlock(all)
  <2>1. /\ Len(all) >= Block /\ Flush(SubSeq(all, 1, Block))
        /\ FotaPos' = FotaPos + Block /\ buf' = SubSeq(all, Block + 1, Len(all))
        /\ answer' = "more"
    BY <1>14 DEF WriteBlock
  <2>2. PICK data : data = SubSeq(all, 1, Block)
    OBVIOUS
  <2>3. /\ data \in Seq(Units) /\ Len(data) = Block /\ data # <<>>
        /\ \A i \in 1..Block : data[i] = all[i]
        /\ buf' \in Seq(Units) /\ Len(buf') = Len(all) - Block
        /\ \A i \in 1..(Len(all) - Block) : buf'[i] = all[Block + i]
    <3>1. Block \in 0..Len(all)
      BY <1>5, <2>1
    <3>2. /\ data \in Seq(Units) /\ Len(data) = Block
          /\ \A i \in 1..Block : data[i] = all[i]
          /\ buf' \in Seq(Units) /\ Len(buf') = Len(all) - Block
          /\ \A i \in 1..(Len(all) - Block) : buf'[i] = all[Block + i]
      BY <1>5, <2>1, <2>2, <3>1, CutIs
    <3> QED
      BY <3>2, EmptySeq
  <2>4. queue' \in Seq(EventType) /\ Events' /\ FotaDoneLen' \in Nat /\ Flow'
    BY <1>13, <1>14, <2>1, <2>2, <2>3
  <2>5. Len(buf') < Block /\ FotaPos' \in Nat /\ FotaPos' <= image
        /\ sent' = FotaPos' + Len(buf')
    <3>1. Block \in Nat /\ image \in Nat /\ sent + k = FotaPos + Len(all)
      BY <1>5, <1>6, <1>14
    <3>2. Len(buf') \in Nat /\ Len(buf') = Len(buf) + k - Block /\ k <= Block /\ k \in Nat
      BY <1>5, <2>1, <2>3, <3>1
    <3> QED
      <4>1. FotaPos' = FotaPos + Block /\ sent' = sent + k
        BY <1>3, <2>1
      <4>2. sent' = FotaPos' + Len(buf')
        <5>1. Len(buf) \in Nat /\ Len(all) = Len(buf) + k
          BY <1>5
        <5>2. FotaPos + Len(all) = FotaPos + Block + Len(buf')
          BY <1>6, <3>1, <3>2, <5>1
        <5> QED
          BY <3>1, <4>1, <5>2
      <4>3. sent' <= image
        BY <1>3
      <4>4. Len(buf') < Block
        BY <1>6, <3>1, <3>2, <1>5
      <4> QED
        BY <1>6, <3>1, <3>2, <4>1, <4>2, <4>3, <4>4
  <2>6. \A i \in 1..Len(buf') : /\ Block + i \in 1..Len(all) /\ buf'[i] = all[Block + i]
                                /\ FotaPos' + i - 1 = FotaPos + (Block + i) - 1
    BY <1>5, <1>6, <2>1, <2>3
  <2>7. \A i \in 1..Len(buf') : buf'[i][1] <= downloads
    BY <1>5, <2>6
  <2>8. head.store = "spi" =>
          \A i \in 1..Len(buf') : buf'[i] \in Units0(downloads, FotaPos' + i - 1)
    BY <1>5, <1>14, <2>6
  <2> QED
    BY <2>1, <2>3, <2>4, <2>5, <2>7, <2>8
<1>15. CASE (head.store = "spi" => Alive) /\ WriteTail(all)
  <2>1. /\ Flush(all) /\ buf' = <<>> /\ answer' = "all" /\ FotaPos' = FotaPos
    BY <1>15 DEF WriteTail
  <2>2. pc' = "poll" /\ all # <<>>
    BY <1>3, <1>5, <2>1, EmptySeq
  <2>3. queue' \in Seq(EventType) /\ Events' /\ FotaDoneLen' \in Nat /\ Flow'
    BY <1>5, <1>13, <1>15, <2>1, <2>2
  <2> QED
    BY <1>6, <2>1, <2>2, <2>3, EmptySeq
<1> QED
  BY <1>4, <1>11, <1>12, <1>14, <1>15

-----------------------------------------------------------------------------
(* The storage task.                                                       *)

LEMMA IdleIs ==
  /\ Idle.at = "idle" /\ Idle.ctrl = NULL /\ Idle.event \in EventType
  /\ Idle.event.id = "none" /\ Idle.event.data = <<>>
  /\ Idle \in [at : {"idle", "erase", "call-back", "write", "crc", "count",
                     "close", "file"},
               event : EventType, ctrl : Downloads \union {NULL}]
BY DEF Idle, Event, EventType

TaskFrame ==
  UNCHANGED <<pc, image, sent, noise, answer, verdict, downloads, head, known, buf, FotaPos, info>>

(* While it works on an event nothing is announced.                        *)
LEMMA Busy ==
  ASSUME IInv, queue # <<>> \/ task.at \notin {"idle", "count"}, info' = info
  PROVE  Announced' /\ InfoIsWhole'
<1>1. info.store # "spi"
  BY DEF IInv, Announced
<1> QED
  BY <1>1 DEF Announced, InfoIsWhole

(* The caller's part does not depend on the task.                          *)
LEMMA FrameCaller ==
  ASSUME IInv, TaskFrame, pSpiFlash' \in {pSpiFlash, NULL}
  PROVE  Caller' /\ (FotaCRC32' = FotaCRC32 => Judged')
<1>1. Alive' => Alive
  BY DEF Alive
<1>2. Caller'
  BY <1>1 DEF IInv, Caller, TaskFrame
<1>3. FotaCRC32' = FotaCRC32 => Judged'
  BY DEF IInv, Judged, TaskFrame, Pure, Opened
<1> QED
  BY <1>2, <1>3

(* A step that does not take an event.                                     *)
LEMMA FrameQueue ==
  ASSUME IInv, TaskFrame, queue' = queue, pSpiFlash' \in {pSpiFlash, NULL},
         Foreign(task.event) => Foreign(task.event)',
         FotaCRC32' = FotaCRC32
           \/ (Foreign(task.event) => Fresh')
  PROVE  Beginning' /\ Stale' /\ Chain'
<1>1. Opened' = Opened /\ Erasing' = Erasing /\ (Sending' => Sending)
      /\ \A i : Behind(i)' = Behind(i)
  BY DEF TaskFrame, Opened, Erasing, Sending, Alive, Behind
<1>2. \A i \in 1..Len(queue) : Foreign(queue[i])' = Foreign(queue[i])
                               /\ Own(queue[i])' = Own(queue[i])
  BY DEF TaskFrame, Foreign, Own
<1>3. Fresh /\ Foreign(task.event) => Fresh' /\ Foreign(task.event)'
  BY DEF Fresh, Pure, TaskFrame
<1>4. Beginning'
  BY <1>2, <1>3 DEF IInv, Beginning, TaskFrame
<1>5. Stale'
  BY <1>1, <1>2, <1>3 DEF IInv, Flow, Stale
<1>6. Chain'
  BY <1>1, <1>2 DEF IInv, Flow, Chain, TaskFrame, After
<1> QED
  BY <1>4, <1>5, <1>6

LEMMA FrameEvents ==
  ASSUME IInv, UNCHANGED <<queue, downloads>>, Sane(task.event)', Works'
  PROVE  Events'
BY DEF IInv, Events, Sane

LEMMA TakeKeeps == ASSUME IInv, TaskTake PROVE IInv'
<1> USE Sizes
<1> DEFINE e == queue[1]
<1>1. /\ task.at = "idle" /\ queue # <<>> /\ queue' = Tail(queue)
      /\ task' = [at |-> Head(queue).id, event |-> Head(queue),
                  ctrl |-> IF Head(queue).id = "file" THEN NULL ELSE pSpiFlash]
      /\ TaskFrame
      /\ UNCHANGED <<FotaDoneLen, FotaCRC32, FotaReady, pSpiFlash, freed, cells, file, failed>>
  BY DEF TaskTake, caller, control, count, block, stores, TaskFrame
<1>2. /\ queue' \in Seq(EventType) /\ Head(queue) = e /\ e \in EventType
      /\ Len(queue) \in Nat \ {0} /\ Len(queue') = Len(queue) - 1
      /\ \A i \in 1..(Len(queue) - 1) : queue'[i] = queue[i + 1]
  BY <1>1, TailIs DEF IInv, Types
<1>3. /\ task'.at = e.id /\ task'.event = e
      /\ e.id # "file" => task'.ctrl = pSpiFlash
      /\ e.id \in {"erase", "write", "file", "close"} /\ Sane(e)
  BY <1>1, <1>2 DEF IInv, Events, EventType
<1>4. Types'
  <2>1. task' \in [at : {"idle", "erase", "call-back", "write", "crc", "count",
                     "close", "file"},
                   event : EventType, ctrl : Downloads \union {NULL}]
    BY <1>1, <1>2, <1>3 DEF IInv, Types, TypeOK
  <2>2. TypeOK'
    BY <1>1, <2>1 DEF IInv, Types, TypeOK, TaskFrame
  <2> QED
    BY <1>2, <2>1, <2>2 DEF Types
<1>5. Events'
  <2>1. \A i \in 1..Len(queue') : queue'[i].id # "none" /\ Sane(queue[i])'
    BY <1>1, <1>2 DEF IInv, Events, Sane, TaskFrame
  <2> QED
    BY <1>1, <1>3, <2>1 DEF Events, Sane, Works, TaskFrame
<1>6. Caller' /\ Judged'
  BY <1>1, FrameCaller
<1>7. Announced' /\ InfoIsWhole'
  BY <1>1, Busy DEF TaskFrame
<1>8. /\ Opened' = Opened /\ Sending' = Sending /\ Alive' = Alive
      /\ Pure' = Pure /\ Fresh' = Fresh /\ \A n : Blank(n)' = Blank(n)
  BY <1>1 DEF TaskFrame, Opened, Sending, Alive, Pure, Fresh, Blank
<1>9. Beginning'
  <2> SUFFICES ASSUME pc = "init"
               PROVE  /\ Fresh' /\ Foreign(task.event)'
                      /\ \A i \in 1..Len(queue') : Foreign(queue[i])'
    BY <1>1 DEF Beginning, TaskFrame
  <2>1. Fresh /\ \A i \in 1..Len(queue) : Foreign(queue[i])
    BY DEF IInv, Beginning
  <2>2. Foreign(e)
    BY <1>2, <2>1
  <2>3. Foreign(task.event)'
    BY <1>1, <1>3, <2>2 DEF Foreign, TaskFrame
  <2>4. \A i \in 1..Len(queue') : Foreign(queue[i])'
    BY <1>1, <1>2, <2>1 DEF Foreign, TaskFrame
  <2> QED
    BY <1>8, <2>1, <2>3, <2>4
<1>10. \A i \in 1..Len(queue') : /\ Behind(i)' <=> Behind(i + 1)
                                 /\ i + 1 \in 1..Len(queue) /\ queue'[i] = queue[i + 1]
  <2> SUFFICES ASSUME NEW i \in 1..Len(queue')
               PROVE  /\ Behind(i)' <=> Behind(i + 1)
                      /\ i + 1 \in 1..Len(queue) /\ queue'[i] = queue[i + 1]
    OBVIOUS
  <2>1. ASSUME Behind(i + 1) PROVE Behind(i)'
    BY <1>2, <2>1 DEF Behind
  <2>2. ASSUME Behind(i)' PROVE Behind(i + 1)
    <3> SUFFICES ASSUME NEW j \in (i + 2)..Len(queue) PROVE queue[j].id # "erase"
      BY DEF Behind
    <3>1. j - 1 \in (i + 1)..Len(queue') /\ queue'[j - 1] = queue[j]
      BY <1>2
    <3> QED
      BY <2>2, <3>1 DEF Behind
  <2> QED
    BY <1>2, <2>1, <2>2
<1>11. Erasing <=> Erasing' \/ e.id = "erase"
  <2>1. ASSUME Erasing' PROVE Erasing
    BY <1>10, <2>1 DEF Erasing
  <2>2. ASSUME Erasing, e.id # "erase" PROVE Erasing'
    <3>1. PICK j \in 1..Len(queue) : queue[j].id = "erase"
      BY <2>2 DEF Erasing
    <3>2. j - 1 \in 1..Len(queue') /\ queue'[j - 1] = queue[j]
      BY <1>2, <2>2, <3>1
    <3> QED
      BY <3>1, <3>2 DEF Erasing
  <2> QED
    BY <1>2, <2>1, <2>2 DEF Erasing
<1>12. Erasing' <=> ~Behind(1)
  <2>1. ASSUME Erasing' PROVE ~Behind(1)
    <3>1. PICK j \in 1..Len(queue') : queue'[j].id = "erase"
      BY <2>1 DEF Erasing
    <3>2. j + 1 \in (1 + 1)..Len(queue) /\ queue[j + 1].id = "erase"
      BY <1>2, <3>1
    <3> QED
      BY <3>2 DEF Behind
  <2>2. ASSUME ~Behind(1) PROVE Erasing'
    <3>1. PICK j \in (1 + 1)..Len(queue) : queue[j].id = "erase"
      BY <2>2 DEF Behind
    <3>2. j - 1 \in 1..Len(queue') /\ queue'[j - 1].id = "erase"
      BY <1>2, <3>1
    <3> QED
      BY <3>2 DEF Erasing
  <2> QED
    BY <2>1, <2>2
<1>13. Stale'
  <2> SUFFICES ASSUME Opened
               PROVE  /\ Erasing' => Fresh' /\ Foreign(task.event)'
                      /\ \A i \in 1..Len(queue') : ~Behind(i)' => Foreign(queue[i])'
    BY <1>8 DEF Stale
  <2>1. Erasing' => Fresh /\ Foreign(e)
    BY <1>2, <1>11, <1>12 DEF IInv, Flow, Stale
  <2>2. Foreign(e) => Foreign(task.event)'
    BY <1>1, <1>3 DEF Foreign, TaskFrame
  <2>3. \A i \in 1..Len(queue') : ~Behind(i)' => Foreign(queue[i])'
    BY <1>1, <1>10 DEF IInv, Flow, Stale, Foreign, TaskFrame
  <2> QED
    BY <1>8, <2>1, <2>2, <2>3
<1>14. Chain'
  <2> SUFFICES ASSUME Opened
               PROVE  (/\ \A i \in 1..Len(queue) : Behind(i) =>
                            /\ Own(queue[i])
                            /\ queue[i].id = "write" /\ i > 1 => queue[i].pos = After(queue[i - 1])
                       /\ Sending /\ queue # <<>> => FotaPos = After(queue[Len(queue)]))'
    BY <1>8 DEF Chain
  <2>1. ASSUME NEW i \in 1..Len(queue'), Behind(i)'
        PROVE  (/\ Own(queue[i])
                /\ queue[i].id = "write" /\ i > 1 => queue[i].pos = After(queue[i - 1]))'
    <3>1. /\ Behind(i + 1) /\ i + 1 \in 1..Len(queue) /\ queue'[i] = queue[i + 1]
      BY <1>10, <2>1
    <3>2. /\ Own(queue[i + 1])
          /\ queue[i + 1].id = "write" => queue[i + 1].pos = After(queue[i])
      BY <3>1 DEF IInv, Flow, Chain
    <3>3. i > 1 => queue'[i - 1] = queue[i]
      BY <1>2
    <3> QED
      BY <1>1, <3>1, <3>2, <3>3 DEF Own, After, TaskFrame
  <2>2. ASSUME Sending', queue' # <<>> PROVE FotaPos' = After(queue'[Len(queue')])
    <3>1. Len(queue') # 0
      BY <1>2, <2>2, EmptySeq
    <3>2. queue'[Len(queue')] = queue[Len(queue)]
      BY <1>2, <3>1
    <3> QED
      BY <1>1, <1>8, <2>2, <3>2 DEF IInv, Flow, Chain, TaskFrame
  <2>3. After(queue'[Len(queue')]) = After(queue[Len(queue)])'
    BY DEF After
  <2> QED
    BY <2>1, <2>2, <2>3
<1>15. Working'
  <2> SUFFICES ASSUME Opened, ~Erasing' PROVE (Place /\ (Alive /\ Pure => Progress))'
    BY <1>8 DEF Working
  <2>1. Behind(1) /\ Own(e)
    BY <1>2, <1>12 DEF IInv, Flow, Chain
  <2>2. Own(task.event)' /\ After(task.event)' = After(e) /\ e.id \in {"erase", "write"}
    BY <1>1, <1>3, <2>1 DEF Own, After, TaskFrame
  <2>0. PICK n : n = After(e)
    OBVIOUS
  <2>3. ASSUME Alive PROVE Front(n)'
    <3>1. ASSUME queue' # <<>> PROVE queue'[1].pos = After(e)
      <4>1. Len(queue') # 0
        BY <1>2, <3>1, EmptySeq
      <4>2. 1 \in 1..Len(queue') /\ 2 \in 1..Len(queue) /\ queue'[1] = queue[2]
        BY <1>2, <4>1
      <4>3. Behind(2) /\ queue[2].id # "erase"
        BY <1>2, <2>1, <4>2 DEF Behind
      <4>4. queue[2].id = "write"
        BY <4>2, <4>3 DEF IInv, Flow, Chain, Own
      <4> QED
        BY <4>2, <4>3, <4>4 DEF IInv, Flow, Chain
    <3>2. ASSUME queue' = <<>>, Sending' PROVE FotaPos' = After(e)
      <4>1. Len(queue) = 1
        BY <1>2, <3>2, EmptySeq
      <4> QED
        BY <1>1, <1>8, <3>2, <4>1 DEF IInv, Flow, Chain, TaskFrame
    <3> QED
      BY <2>0, <3>1, <3>2 DEF Front
  <2>4. After(task.event)' = n
    BY <2>0, <2>2
  <2>7. (Alive => Front(After(task.event)))'
    BY <1>8, <2>3, <2>4 DEF Front
  <2>5. CASE e.id = "erase"
    <3>1. Fresh
      BY <1>11, <2>5 DEF IInv, Flow, Stale
    <3>2. Place'
      BY <1>1, <1>3, <1>8, <2>2, <2>5, <2>7, <3>1 DEF Place, Alive
    <3>3. Progress'
      BY <1>3, <2>5 DEF Progress
    <3> QED
      BY <3>2, <3>3
  <2>6. CASE e.id = "write"
    <3>1. ~Erasing
      BY <1>11, <2>6
    <3>2. Place /\ (Alive /\ Pure => Progress)
      BY <3>1 DEF IInv, Flow, Working
    <3>3. Place'
      BY <1>1, <1>3, <1>8, <2>2, <2>6, <2>7, <3>2 DEF Place, Alive
    <3>4. ASSUME Progress PROVE Progress'
      <4>1. Front(Len(FotaCRC32)) /\ Blank(Len(FotaCRC32))
        BY <1>1, <3>4 DEF Progress
      <4>2. e.pos = Len(FotaCRC32)
        BY <1>1, <4>1 DEF Front
      <4>3. Blank(Len(FotaCRC32))'
        BY <1>1, <4>1 DEF Blank
      <4> QED
        BY <1>1, <1>3, <2>6, <4>2, <4>3 DEF Progress
    <3> QED
      BY <1>8, <3>2, <3>3, <3>4
  <2> QED
    BY <2>2, <2>5, <2>6
<1>16. Whole'
  BY <1>1, <1>8 DEF IInv, Flow, Whole, TaskFrame
<1> QED
  BY <1>4, <1>5, <1>6, <1>7, <1>9, <1>13, <1>14, <1>15, <1>16 DEF IInv, Flow

LEMMA EraseKeeps == ASSUME IInv, TaskErase PROVE IInv'
<1> USE Sizes
<1>1. /\ task.at = "erase" /\ task' = [task EXCEPT !.at = "call-back"]
      /\ TaskFrame /\ queue' = queue
      /\ UNCHANGED <<FotaDoneLen, FotaCRC32, FotaReady, pSpiFlash, freed, file>>
      /\ cells' = cells \/ cells' = [c \in Cells |-> Erased]
      /\ failed' \in {failed, TRUE}
      /\ task.ctrl # NULL => cells' = [c \in Cells |-> Erased] \/ failed'
  BY DEF TaskErase, caller, control, count, block, stores, TaskFrame
<1>2. /\ task'.at = "call-back" /\ task'.event = task.event /\ task.event.id = "erase"
      /\ task' \in [at : {"idle", "erase", "call-back", "write", "crc", "count",
                     "close", "file"},
                    event : EventType, ctrl : Downloads \union {NULL}]
  BY <1>1 DEF IInv, Types, Events, Works
<1>3. Types'
  <2>1. cells' \in [Cells -> Units \union {Old, Erased, Garbage}]
    BY <1>1 DEF IInv, Types, TypeOK
  <2>2. failed' \in BOOLEAN /\ task'.at = "call-back"
    BY <1>1, <1>2 DEF IInv, Types, TypeOK
  <2>3. TypeOK'
    BY <1>1, <2>1, <2>2 DEF IInv, Types, TypeOK, TaskFrame
  <2> QED
    BY <1>1, <1>2, <2>3 DEF IInv, Types
<1>4. Events'
  BY <1>1, <1>2, FrameEvents DEF IInv, Events, Sane, Works, TaskFrame
<1>5. Caller' /\ Judged'
  BY <1>1, FrameCaller
<1>6. Beginning' /\ Stale' /\ Chain'
  <2>1. Foreign(task.event) => Foreign(task.event)'
    BY <1>1, <1>2 DEF Foreign, TaskFrame
  <2> QED
    BY <1>1, <2>1, FrameQueue
<1>7. Announced' /\ InfoIsWhole'
  BY <1>1, Busy DEF TaskFrame
<1>8. /\ Opened' = Opened /\ Sending' = Sending /\ Alive' = Alive /\ Erasing' = Erasing
      /\ Pure' = Pure /\ Fresh' = Fresh /\ \A n : Front(n)' = Front(n)
      /\ Own(task.event)' = Own(task.event) /\ After(task.event)' = After(task.event)
  BY <1>1, <1>2 DEF TaskFrame, Opened, Sending, Alive, Erasing, Pure, Fresh, Front, Own, After
<1>9. Opened => Fresh
  BY <1>1 DEF IInv, Flow, Stale, Working, Place
<1>10. Whole'
  <2>1. Opened' /\ Pure' => Len(FotaCRC32') = 0
    BY <1>1, <1>8, <1>9, EmptySeq DEF Fresh
  <2> QED
    BY <1>1, <2>1 DEF IInv, Types, TypeOK, Caller, Whole, Opened, TaskFrame
<1>11. Working'
  <2> SUFFICES ASSUME Opened, ~Erasing PROVE (Place /\ (Alive /\ Pure => Progress))'
    BY <1>8 DEF Working
  <2>1. Place
    BY DEF IInv, Flow, Working
  <2>2. Alive => Blank(0)'
    BY <1>1, <2>1 DEF Place, Blank
  <2>3. Place'
    BY <1>1, <1>2, <1>8, <1>9, <2>1, <2>2 DEF Place
  <2>4. Progress'
    BY <1>2 DEF Progress
  <2> QED
    BY <2>3, <2>4
<1> QED
  BY <1>3, <1>4, <1>5, <1>6, <1>7, <1>10, <1>11 DEF IInv, Flow

(* The flash is erased, and the caller told so.                            *)
LEMMA ReadyKeeps == ASSUME IInv, Core_OTAReady PROVE IInv'
<1> USE Sizes
<1>1. /\ task.at = "call-back" /\ task' = Idle /\ FotaReady' = TRUE
      /\ TaskFrame /\ queue' = queue
      /\ UNCHANGED <<FotaDoneLen, FotaCRC32, pSpiFlash, freed, cells, file, failed>>
  BY DEF Core_OTAReady, caller, control, count, block, stores, TaskFrame
<1>2. Types'
  <2>1. TypeOK'
    BY <1>1, IdleIs DEF IInv, Types, TypeOK, TaskFrame
  <2> QED
    BY <1>1, <2>1, IdleIs DEF IInv, Types
<1>3. Events'
  BY <1>1, IdleIs, FrameEvents DEF Sane, Works, TaskFrame
<1>4. Caller' /\ Judged'
  BY <1>1, FrameCaller
<1>5. Beginning' /\ Stale' /\ Chain'
  <2>1. Foreign(task.event)'
    BY <1>1, IdleIs DEF Foreign
  <2> QED
    BY <1>1, <2>1, FrameQueue
<1>6. Announced' /\ InfoIsWhole'
  BY <1>1, Busy DEF TaskFrame
<1>7. /\ Opened' = Opened /\ Sending' = Sending /\ Alive' = Alive /\ Erasing' = Erasing
      /\ Pure' = Pure /\ Fresh' = Fresh /\ \A n : Front(n)' = Front(n) /\ Blank(n)' = Blank(n)
  BY <1>1 DEF TaskFrame, Opened, Sending, Alive, Erasing, Pure, Fresh, Front, Blank
<1>8. Whole'
  BY <1>1, <1>7 DEF IInv, Flow, Whole, TaskFrame
<1>9. Working'
  <2> SUFFICES ASSUME Opened, ~Erasing PROVE (Place /\ (Alive /\ Pure => Progress))'
    BY <1>7 DEF Working
  <2>1. Place /\ After(task.event) = 0
    BY <1>1 DEF IInv, Flow, Working, Events, Works, After
  <2>2. Fresh /\ (Alive => Front(0) /\ Blank(0))
    BY <1>1, <2>1 DEF Place
  <2>3. Place'
    BY <1>1, <1>7, <2>2, IdleIs DEF Place
  <2>4. ASSUME Alive, Pure PROVE Progress'
    <3>1. Len(FotaCRC32') = 0
      BY <1>1, <2>2, <2>4, EmptySeq DEF Fresh
    <3>2. PICK n : n = Len(FotaCRC32')
      OBVIOUS
    <3>3. Front(n)' /\ Blank(n)'
      BY <1>7, <2>2, <2>4, <3>1, <3>2
    <3> QED
      BY <1>1, <3>2, <3>3, IdleIs DEF Progress
  <2> QED
    BY <1>7, <2>3, <2>4
<1> QED
  BY <1>2, <1>3, <1>4, <1>5, <1>6, <1>8, <1>9 DEF IInv, Flow

(* An event the task has no control block for, or has done with.           *)
LEMMA DropKeeps ==
  ASSUME IInv, task' = Idle, TaskFrame, queue' = queue, FotaDoneLen' \in Nat,
         UNCHANGED <<FotaCRC32, FotaReady, pSpiFlash, freed, cells, file, failed>>,
         \/ task.at = "write" /\ task.ctrl = NULL
         \/ task.at = "count"
  PROVE  IInv'
<1>1. Types'
  <2>1. TypeOK'
    BY IdleIs DEF IInv, Types, TypeOK, TaskFrame
  <2> QED
    BY <2>1, IdleIs DEF IInv, Types
<1>2. Events'
  BY IdleIs, FrameEvents DEF Sane, Works, TaskFrame
<1>3. Caller' /\ Judged'
  BY FrameCaller
<1>4. Beginning' /\ Stale' /\ Chain'
  <2>1. Foreign(task.event)'
    BY IdleIs DEF Foreign
  <2> QED
    BY <2>1, FrameQueue
<1>5. Announced' /\ InfoIsWhole'
  <2>1. CASE task.at = "write"
    BY <2>1, Busy DEF TaskFrame
  <2>2. CASE task.at = "count"
    BY <2>2, IdleIs DEF IInv, Announced, InfoIsWhole, TaskFrame
  <2> QED
    BY <2>1, <2>2
<1>6. /\ Opened' = Opened /\ Sending' = Sending /\ Alive' = Alive /\ Erasing' = Erasing
      /\ Pure' = Pure /\ Fresh' = Fresh /\ \A n : Front(n)' = Front(n) /\ Blank(n)' = Blank(n)
  BY DEF TaskFrame, Opened, Sending, Alive, Erasing, Pure, Fresh, Front, Blank
<1>7. Whole'
  BY <1>6 DEF IInv, Flow, Whole, TaskFrame
<1>8. Working'
  <2> SUFFICES ASSUME Opened, ~Erasing PROVE (Place /\ (Alive /\ Pure => Progress))'
    BY <1>6 DEF Working
  <2>1. Place /\ (Alive /\ Pure => Progress)
    BY DEF IInv, Flow, Working
  <2>2. Place'
    BY <1>6, <2>1, IdleIs DEF Place
  <2>3. ASSUME Alive, Pure PROVE Progress'
    <3>1. task.at = "count"
      BY <2>1, <2>3 DEF Place
    <3>2. PICK n : n = Len(FotaCRC32)
      OBVIOUS
    <3>3. Front(n) /\ Blank(n)
      BY <2>1, <2>3, <3>1, <3>2 DEF Place, Progress
    <3>4. Front(n)' /\ Blank(n)' /\ n = Len(FotaCRC32')
      BY <1>6, <3>2, <3>3
    <3> QED
      BY <3>4, IdleIs DEF Progress
  <2> QED
    BY <1>6, <2>2, <2>3
<1> QED
  BY <1>1, <1>2, <1>3, <1>4, <1>5, <1>7, <1>8 DEF IInv, Flow

(* A block is programmed where the chain puts it, on erased cells.         *)
LEMMA ProgramKeeps == ASSUME IInv, TaskProgram PROVE IInv'
<1> USE Sizes
<1> DEFINE data == task.event.data
           pos == task.event.pos
<1>1. /\ task.at = "write" /\ TaskFrame /\ queue' = queue
      /\ UNCHANGED <<FotaDoneLen, FotaCRC32, FotaReady, pSpiFlash, freed, file>>
      /\ IF task.ctrl = NULL THEN task' = Idle /\ UNCHANGED <<cells, failed>>
         ELSE /\ task' = [task EXCEPT !.at = "crc"]
              /\ \/ cells' = Programmed(pos, data) /\ failed' = failed
                 \/ failed' = TRUE /\ cells' = cells
  BY DEF TaskProgram, caller, control, count, block, stores, TaskFrame
<1>2. CASE task.ctrl = NULL
  <2>1. FotaDoneLen' \in Nat
    BY <1>1 DEF IInv, Types, TypeOK
  <2> QED
    BY <1>1, <1>2, <2>1, DropKeeps
<1>3. SUFFICES ASSUME task.ctrl # NULL PROVE IInv'
  BY <1>2
<1>4. /\ task' \in [at : {"idle", "erase", "call-back", "write", "crc", "count",
                     "close", "file"},
                    event : EventType, ctrl : Downloads \union {NULL}]
      /\ task'.at = "crc" /\ task'.event = task.event /\ task.event.id = "write"
      /\ pos \in Nat /\ data \in Seq(Units) /\ Len(data) \in Nat
      /\ \A k \in 1..Len(data) : data[k] \in Units
  <2>1. task.event \in EventType /\ task.event.id = "write"
    BY <1>1 DEF IInv, Types, Events, Works
  <2>2. pos \in Nat /\ data \in Seq(Units)
    BY <2>1 DEF EventType
  <2> QED
    BY <1>1, <1>3, <2>1, <2>2, LenProperties, ElementOfSeq DEF IInv, Types
<1> HIDE DEF data, pos
<1>5. Programmed(pos, data)
        = [c \in Cells |->
             IF c - pos + 1 \notin 1..Len(data) THEN cells[c]
             ELSE IF cells[c] = Erased THEN data[c - pos + 1] ELSE Garbage]
  BY DEF Programmed
<1>6. Types'
  <2>1. cells \in [Cells -> Units \union {Old, Erased, Garbage}]
    BY DEF IInv, Types, TypeOK
  <2>2. Programmed(pos, data) \in [Cells -> Units \union {Old, Erased, Garbage}]
    BY <1>4, <1>5, <2>1
  <2>3. cells' \in [Cells -> Units \union {Old, Erased, Garbage}] /\ failed' \in BOOLEAN
    BY <1>1, <1>3, <2>1, <2>2 DEF IInv, Types, TypeOK
  <2>4. TypeOK'
    BY <1>1, <1>4, <2>3 DEF IInv, Types, TypeOK, TaskFrame
  <2> QED
    BY <1>1, <1>4, <2>4 DEF IInv, Types
<1>7. Events'
  BY <1>1, <1>4, FrameEvents DEF IInv, Events, Sane, Works, TaskFrame
<1>8. Caller' /\ Judged'
  BY <1>1, FrameCaller
<1>9. Beginning' /\ Stale' /\ Chain'
  <2>1. Foreign(task.event) => Foreign(task.event)'
    BY <1>1, <1>4 DEF Foreign, TaskFrame
  <2> QED
    BY <1>1, <2>1, FrameQueue
<1>10. Announced' /\ InfoIsWhole'
  BY <1>1, Busy DEF TaskFrame
<1>11. /\ Opened' = Opened /\ Sending' = Sending /\ Alive' = Alive /\ Erasing' = Erasing
       /\ Pure' = Pure /\ Fresh' = Fresh /\ \A n : Front(n)' = Front(n)
       /\ Own(task.event)' = Own(task.event) /\ After(task.event)' = After(task.event)
  BY <1>1, <1>4 DEF TaskFrame, Opened, Sending, Alive, Erasing, Pure, Fresh, Front, Own, After
<1>12. ASSUME Opened, ~Erasing
       PROVE  /\ Place /\ Alive /\ pos + Len(data) <= MaxLen
              /\ After(task.event) = pos + Len(data)
              /\ Pure => pos = Len(FotaCRC32) /\ Blank(pos)
  <2>1. Place /\ (Alive /\ Pure => Progress)
    BY <1>12 DEF IInv, Flow, Working
  <2>2. Alive /\ Own(task.event)
    BY <1>1, <1>3, <2>1 DEF Place
  <2>3. pos + Len(data) <= image /\ image <= MaxLen /\ image \in Nat
    BY <1>4, <1>12, <2>2 DEF Own, pos, data, IInv, Caller, Opened
  <2>4. Pure => pos = Len(FotaCRC32) /\ Blank(Len(FotaCRC32))
    BY <1>1, <2>1, <2>2 DEF Progress, pos
  <2> QED
    BY <1>4, <2>1, <2>2, <2>3, <2>4 DEF After, pos, data
<1>13. ASSUME Opened, ~Erasing, Pure, ~failed'
       PROVE  /\ \A k \in 1..Len(data) : cells'[pos + k - 1] = data[k]
              /\ \A c \in Cells : c >= pos + Len(data) => cells'[c] = Erased
              /\ \A c \in Cells : c < pos => cells'[c] = cells[c]
  <2>1. /\ ~failed /\ cells' = Programmed(pos, data)
        /\ \A c \in Cells : c >= pos => cells[c] = Erased
        /\ pos + Len(data) <= MaxLen
    BY <1>1, <1>3, <1>12, <1>13 DEF Blank
  <2>2. ASSUME NEW k \in 1..Len(data) PROVE cells'[pos + k - 1] = data[k]
    <3>1. pos + k - 1 \in Cells /\ (pos + k - 1) - pos + 1 = k /\ pos + k - 1 >= pos
      BY <1>4, <2>1 DEF Cells
    <3> QED
      BY <1>5, <2>1, <3>1
  <2>3. ASSUME NEW c \in Cells, c >= pos + Len(data) PROVE cells'[c] = Erased
    <3>1. c - pos + 1 \notin 1..Len(data) /\ c >= pos
      BY <1>4, <2>3 DEF Cells
    <3> QED
      BY <1>5, <2>1, <3>1
  <2>4. ASSUME NEW c \in Cells, c < pos PROVE cells'[c] = cells[c]
    <3>1. c - pos + 1 \notin 1..Len(data)
      BY <1>4, <2>4 DEF Cells
    <3> QED
      BY <1>5, <2>1, <3>1
  <2> QED
    BY <2>2, <2>3, <2>4
<1>14. Whole'
  <2> SUFFICES ASSUME Opened, Pure
               PROVE  /\ Len(FotaCRC32) <= image
                      /\ \A i \in 1..Len(FotaCRC32) :
                           /\ FotaCRC32[i] = <<downloads, i - 1>>
                           /\ failed' \/ cells'[i - 1] = FotaCRC32[i]
    BY <1>1, <1>11 DEF Whole, TaskFrame
  <2>1. /\ Len(FotaCRC32) <= image
        /\ \A i \in 1..Len(FotaCRC32) :
             FotaCRC32[i] = <<downloads, i - 1>> /\ (failed \/ cells[i - 1] = FotaCRC32[i])
    BY DEF IInv, Flow, Whole
  <2>2. CASE Erasing
    <3>1. Len(FotaCRC32) = 0
      BY <2>2, EmptySeq DEF IInv, Flow, Stale, Fresh
    <3> QED
      BY <2>1, <3>1
  <2>3. CASE ~Erasing
    <3> SUFFICES ASSUME NEW i \in 1..Len(FotaCRC32), ~failed'
                 PROVE  cells'[i - 1] = FotaCRC32[i]
      BY <2>1
    <3>1. pos = Len(FotaCRC32) /\ pos + Len(data) <= MaxLen
      BY <1>12, <2>3
    <3>2. i - 1 \in Cells /\ i - 1 < pos
      BY <1>4, <3>1 DEF Cells
    <3>3. cells'[i - 1] = cells[i - 1] /\ ~failed
      BY <1>1, <1>3, <1>13, <2>3, <3>2
    <3> QED
      BY <2>1, <3>3
  <2> QED
    BY <2>2, <2>3
<1>15. Working'
  <2> SUFFICES ASSUME Opened, ~Erasing PROVE (Place /\ (Alive /\ Pure => Progress))'
    BY <1>11 DEF Working
  <2>1. Place'
    BY <1>1, <1>4, <1>11, <1>12 DEF Place
  <2>2. ASSUME Pure PROVE Progress'
    <3>1. task'.event.pos = Len(FotaCRC32')
      BY <1>1, <1>4, <1>12, <2>2 DEF pos
    <3>2. failed' \/ \A k \in 1..Len(task'.event.data) :
                       cells'[task'.event.pos + k - 1] = task'.event.data[k]
      BY <1>4, <1>13, <2>2 DEF pos, data
    <3>3. Blank(After(task.event))'
      BY <1>11, <1>12, <1>13, <2>2 DEF Blank
    <3> QED
      BY <1>4, <3>1, <3>2, <3>3 DEF Progress
  <2> QED
    BY <1>11, <2>1, <2>2
<1> QED
  BY <1>6, <1>7, <1>8, <1>9, <1>10, <1>14, <1>15 DEF IInv, Flow

(* The CRC is taken over the block: it stays pure only if that is the next *)
(* of this image, undamaged.                                               *)
LEMMA CRCKeeps == ASSUME IInv, TaskCRC PROVE IInv'
<1> USE Sizes
<1> DEFINE data == task.event.data
           pos == task.event.pos
<1>1. /\ task.at = "crc" /\ TaskFrame /\ queue' = queue
      /\ task' = [task EXCEPT !.at = "count"]
      /\ FotaCRC32' = FotaCRC32 \o data
      /\ UNCHANGED <<FotaDoneLen, FotaReady, pSpiFlash, freed, cells, file, failed>>
  BY DEF TaskCRC, caller, control, block, stores, TaskFrame
<1>2. /\ task' \in [at : {"idle", "erase", "call-back", "write", "crc", "count",
                     "close", "file"},
                    event : EventType, ctrl : Downloads \union {NULL}]
      /\ task'.at = "count" /\ task'.event = task.event /\ task.event.id = "write"
      /\ pos \in Nat /\ data \in Seq(Units) /\ Len(data) \in Nat \ {0}
  <2>1. task.event \in EventType /\ task.event.id = "write" /\ data # <<>>
    BY <1>1 DEF IInv, Types, Events, Works, Sane
  <2>2. pos \in Nat /\ data \in Seq(Units)
    BY <2>1 DEF EventType
  <2>3. Len(data) \in Nat \ {0}
    BY <2>1, <2>2, LenProperties, EmptySeq
  <2> QED
    BY <1>1, <2>1, <2>2, <2>3 DEF IInv, Types
<1>3. FotaCRC32 \in Seq(Units) /\ Len(FotaCRC32) \in Nat
  BY LenProperties DEF IInv, Types, TypeOK
<1> HIDE DEF data, pos
<1>4. /\ FotaCRC32' \in Seq(Units) /\ Len(FotaCRC32') = Len(FotaCRC32) + Len(data)
      /\ \A i \in 1..Len(FotaCRC32) : FotaCRC32'[i] = FotaCRC32[i]
      /\ \A i \in 1..Len(data) : FotaCRC32'[Len(FotaCRC32) + i] = data[i]
  BY <1>1, <1>2, <1>3, ConcatIs
<1>5. Types'
  <2>1. TypeOK'
    BY <1>1, <1>2, <1>4 DEF IInv, Types, TypeOK, TaskFrame
  <2> QED
    BY <1>1, <1>2, <2>1 DEF IInv, Types
<1>6. Events'
  BY <1>1, <1>2, FrameEvents DEF IInv, Events, Sane, Works, TaskFrame
<1>7. Caller'
  BY <1>1, FrameCaller
<1>8. Judged'
  <2> SUFFICES ASSUME Opened, pc = "end", verdict = "ok" PROVE FALSE
    BY <1>1 DEF Judged, Opened, TaskFrame
  <2>1. Pure /\ Len(FotaCRC32) = image /\ image > 0
    BY DEF IInv, Judged, Caller
  <2> QED
    BY <1>1, <2>1, RightIsWhole
<1>9. Announced' /\ InfoIsWhole'
  BY <1>1, Busy DEF TaskFrame
<1>10. Pure' => Pure /\ \A k \in 1..Len(data) : data[k][1] = downloads
  <2> SUFFICES ASSUME Pure' PROVE Pure /\ \A k \in 1..Len(data) : data[k][1] = downloads
    OBVIOUS
  <2>0. \A i \in 1..Len(FotaCRC32') : FotaCRC32'[i][1] = downloads
    BY <1>1 DEF Pure, TaskFrame
  <2>1. \A i \in 1..Len(FotaCRC32) : FotaCRC32[i][1] = downloads
    BY <1>2, <1>3, <1>4, <2>0
  <2>2. ASSUME NEW k \in 1..Len(data) PROVE data[k][1] = downloads
    <3>1. Len(FotaCRC32) + k \in 1..Len(FotaCRC32')
      BY <1>2, <1>3, <1>4
    <3> QED
      BY <1>4, <2>0, <3>1
  <2> QED
    BY <2>1, <2>2 DEF Pure
<1>11. Foreign(task.event) => ~Pure'
  BY <1>2, <1>10 DEF Foreign, data
<1>12. Beginning' /\ Stale' /\ Chain'
  <2>1. Foreign(task.event) => Foreign(task.event)' /\ Fresh'
    BY <1>1, <1>2, <1>11 DEF Foreign, TaskFrame, Fresh
  <2> QED
    BY <1>1, <2>1, FrameQueue
<1>13. /\ Opened' = Opened /\ Sending' = Sending /\ Alive' = Alive /\ Erasing' = Erasing
       /\ \A n : Front(n)' = Front(n) /\ Blank(n)' = Blank(n)
       /\ Own(task.event)' = Own(task.event) /\ After(task.event)' = After(task.event)
  BY <1>1, <1>2 DEF TaskFrame, Opened, Sending, Alive, Erasing, Front, Blank, Own, After
<1>14. ASSUME Opened, ~Erasing
       PROVE  /\ Place /\ Alive
              /\ After(task.event) = pos + Len(data) /\ pos + Len(data) <= image
              /\ \A k \in 1..Len(data) : data[k] \in Units0(downloads, pos + k - 1)
              /\ Pure => /\ pos = Len(FotaCRC32) /\ Blank(pos + Len(data))
                         /\ failed \/ \A k \in 1..Len(data) : cells[pos + k - 1] = data[k]
  <2>1. Place /\ (Alive /\ Pure => Progress)
    BY <1>14 DEF IInv, Flow, Working
  <2>2. Alive /\ Own(task.event)
    BY <1>1, <2>1 DEF Place
  <2>3. After(task.event) = pos + Len(data)
    BY <1>2 DEF After, pos, data
  <2>4. /\ pos + Len(data) <= image
        /\ \A k \in 1..Len(data) : data[k] \in Units0(downloads, pos + k - 1)
    BY <1>2, <2>2 DEF Own, pos, data
  <2>5. Pure => /\ pos = Len(FotaCRC32) /\ Blank(After(task.event))
                /\ failed \/ \A k \in 1..Len(data) : cells[pos + k - 1] = data[k]
    BY <1>1, <2>1, <2>2 DEF Progress, pos, data
  <2> QED
    BY <2>1, <2>2, <2>3, <2>4, <2>5
<1>15. ASSUME Opened, Pure' PROVE ~Erasing
  BY <1>11, <1>15 DEF IInv, Flow, Stale
<1>16. Whole'
  <2> SUFFICES ASSUME Opened, Pure'
               PROVE  /\ Len(FotaCRC32') <= image
                      /\ \A i \in 1..Len(FotaCRC32') :
                           /\ FotaCRC32'[i] = <<downloads, i - 1>>
                           /\ failed \/ cells[i - 1] = FotaCRC32'[i]
    BY <1>1, <1>13 DEF Whole, TaskFrame
  <2>1. /\ pos = Len(FotaCRC32) /\ pos + Len(data) <= image
        /\ \A k \in 1..Len(data) : data[k] \in Units0(downloads, pos + k - 1)
        /\ failed \/ \A k \in 1..Len(data) : cells[pos + k - 1] = data[k]
    BY <1>10, <1>14, <1>15
  <2>2. \A i \in 1..Len(FotaCRC32) :
          FotaCRC32[i] = <<downloads, i - 1>> /\ (failed \/ cells[i - 1] = FotaCRC32[i])
    BY <1>10 DEF IInv, Flow, Whole
  <2>3. downloads > 0 /\ downloads \in Nat
    BY DEF IInv, Caller, Opened, Types, TypeOK
  <2>4. ASSUME NEW k \in 1..Len(data)
        PROVE  /\ FotaCRC32'[pos + k] = <<downloads, pos + k - 1>>
               /\ failed \/ cells[pos + k - 1] = FotaCRC32'[pos + k]
    <3>1. data[k] # Damaged
      BY <1>10, <2>3, UnitsAre
    <3>2. data[k] = <<downloads, pos + k - 1>>
      BY <2>1, <3>1 DEF Units0
    <3> QED
      BY <1>4, <2>1, <3>2
  <2>5. ASSUME NEW i \in 1..Len(FotaCRC32')
        PROVE  /\ FotaCRC32'[i] = <<downloads, i - 1>>
               /\ failed \/ cells[i - 1] = FotaCRC32'[i]
    <3>1. CASE i <= Len(FotaCRC32)
      BY <1>3, <1>4, <2>2, <3>1
    <3>2. CASE i > Len(FotaCRC32)
      <4>1. PICK k \in 1..Len(data) : i = pos + k
        <5>1. i - pos \in 1..Len(data) /\ i = pos + (i - pos)
          BY <1>2, <1>3, <1>4, <2>1, <3>2
        <5> QED
          BY <5>1
      <4>2. /\ FotaCRC32'[pos + k] = <<downloads, pos + k - 1>>
            /\ failed \/ cells[pos + k - 1] = FotaCRC32'[pos + k]
        BY <2>4
      <4>3. PICK c : c = i - 1 /\ c = pos + k - 1
        BY <1>2, <1>3, <4>1
      <4>4. FotaCRC32'[i] = <<downloads, c>> /\ (failed \/ cells[c] = FotaCRC32'[i])
        BY <4>1, <4>2, <4>3
      <4> QED
        BY <4>3, <4>4
    <3> QED
      BY <1>3, <3>1, <3>2
  <2> QED
    BY <1>4, <2>1, <2>5
<1>17. Working'
  <2> SUFFICES ASSUME Opened, ~Erasing PROVE (Place /\ (Alive /\ Pure => Progress))'
    BY <1>13 DEF Working
  <2>1. Place'
    BY <1>1, <1>2, <1>13, <1>14 DEF Place
  <2>2. ASSUME Pure' PROVE Progress'
    <3>1. After(task.event)' = Len(FotaCRC32')
      BY <1>4, <1>10, <1>13, <1>14, <2>2
    <3>2. PICK n : n = Len(FotaCRC32')
      OBVIOUS
    <3>3. Blank(n)'
      BY <1>4, <1>10, <1>13, <1>14, <2>2, <3>2
    <3>4. Blank(Len(FotaCRC32))'
      BY <3>2, <3>3 DEF Blank
    <3> QED
      BY <1>2, <3>1, <3>4 DEF Progress
  <2> QED
    BY <2>1, <2>2
<1> QED
  BY <1>5, <1>6, <1>7, <1>8, <1>9, <1>12, <1>16, <1>17 DEF IInv, Flow

LEMMA CountKeeps == ASSUME IInv, TaskCount PROVE IInv'
<1>1. /\ task.at = "count" /\ task' = Idle /\ TaskFrame /\ queue' = queue
      /\ FotaDoneLen' = FotaDoneLen + Len(task.event.data)
      /\ UNCHANGED <<FotaCRC32, FotaReady, pSpiFlash, freed, cells, file, failed>>
  BY DEF TaskCount, caller, control, block, stores, TaskFrame
<1>2. FotaDoneLen' \in Nat
  <2>1. FotaDoneLen \in Nat /\ task.event.data \in Seq(Units)
    BY DEF IInv, Types, TypeOK, EventType
  <2> QED
    BY <1>1, <2>1, LenProperties
<1> QED
  BY <1>1, <1>2, DropKeeps

(* A close or a file is of an earlier download.                            *)
LEMMA OtherKeeps == ASSUME IInv, TaskClose \/ TaskFile PROVE IInv'
<1> USE Sizes
<1>1. /\ task.at \in {"close", "file"} /\ TaskFrame /\ queue' = queue
      /\ UNCHANGED <<FotaDoneLen, FotaCRC32, FotaReady, cells, failed>>
      /\ pSpiFlash' \in {pSpiFlash, NULL}
      /\ freed' \in {freed, freed \union ({pSpiFlash} \ {NULL})}
      /\ file' \in {file, task.event.data}
      /\ \/ task.at = "close" /\ task' = Idle
         \/ task.at = "file" /\ task' = [task EXCEPT !.at = "count"]
  BY DEF TaskClose, TaskFile, caller, control, count, block, stores, TaskFrame
<1>2. /\ task' \in [at : {"idle", "erase", "call-back", "write", "crc", "count",
                     "close", "file"},
                    event : EventType, ctrl : Downloads \union {NULL}]
      /\ task'.at \in {"idle", "count"} /\ task.event.data \in Seq(Units)
      /\ task'.at = "count" => task.at = "file"
      /\ \/ task'.event = task.event
         \/ task'.event.data = <<>> /\ task'.event.id = "none"
      /\ task'.at = "count" => task'.event = task.event
      /\ task.event.id = task.at
  <2>1. /\ task \in [at : {"idle", "erase", "call-back", "write", "crc", "count",
                        "close", "file"},
                      event : EventType, ctrl : Downloads \union {NULL}]
        /\ task.at \in {"close", "file"} => task.event.id = task.at
    BY DEF IInv, Types, Events, Works
  <2>2. task.event.data \in Seq(Units)
    BY <2>1 DEF EventType
  <2>3. CASE task.at = "close" /\ task' = Idle
    BY <2>1, <2>2, <2>3, IdleIs
  <2>4. CASE task.at = "file" /\ task' = [task EXCEPT !.at = "count"]
    <3>1. /\ task'.at = "count" /\ task'.event = task.event
          /\ task' \in [at : {"idle", "erase", "call-back", "write", "crc", "count",
                           "close", "file"},
                       event : EventType, ctrl : Downloads \union {NULL}]
      BY <2>1, <2>4
    <3> QED
      BY <2>1, <2>2, <2>4, <3>1
  <2> QED
    BY <1>1, <2>3, <2>4
<1>3. Types'
  <2>1. freed' \subseteq Downloads /\ pSpiFlash' \in Downloads \union {NULL}
        /\ file' \in Seq(Units)
    BY <1>1, <1>2 DEF IInv, Types, TypeOK
  <2>2. task'.at \in {"idle", "erase", "call-back", "write", "crc", "count",
                      "close", "file"}
    BY <1>2
  <2>3. TypeOK'
    BY <1>1, <2>1, <2>2 DEF IInv, Types, TypeOK, TaskFrame
  <2> QED
    BY <1>1, <1>2, <2>3 DEF IInv, Types
<1>4. Events'
  <2>1. Sane(task.event)'
    BY <1>1, <1>2 DEF IInv, Events, Sane, TaskFrame
  <2>2. Works'
    BY <1>2 DEF Works
  <2> QED
    BY <1>1, <2>1, <2>2, FrameEvents DEF TaskFrame
<1>5. Caller' /\ Judged'
  BY <1>1, FrameCaller
<1>6. Beginning' /\ Stale' /\ Chain'
  <2>1. Foreign(task.event) => Foreign(task.event)'
    BY <1>1, <1>2 DEF Foreign, TaskFrame
  <2> QED
    BY <1>1, <2>1, FrameQueue
<1>7. Announced' /\ InfoIsWhole'
  BY <1>1, Busy DEF TaskFrame
<1>8. Opened' = Opened /\ Erasing' = Erasing /\ Pure' = Pure
  BY <1>1 DEF TaskFrame, Opened, Erasing, Pure
<1>9. Opened => Erasing
  BY <1>1, <1>2 DEF IInv, Flow, Working, Place, Own
<1>10. Whole'
  BY <1>1, <1>8 DEF IInv, Flow, Whole, TaskFrame
<1>11. Working'
  BY <1>8, <1>9 DEF Working
<1> QED
  BY <1>3, <1>4, <1>5, <1>6, <1>7, <1>10, <1>11 DEF IInv, Flow

LEMMA StutterKeeps == ASSUME IInv, UNCHANGED vars PROVE IInv'
<1>1. /\ TaskFrame /\ UNCHANGED <<queue, task>>
      /\ UNCHANGED <<FotaDoneLen, FotaCRC32, FotaReady, pSpiFlash, freed, cells, file, failed>>
  BY DEF vars, caller, control, count, block, stores, TaskFrame
<1>2. Types' /\ Events'
  BY <1>1 DEF IInv, Types, TypeOK, Events, Sane, Works, TaskFrame
<1>3. Caller' /\ Judged'
  BY <1>1, FrameCaller
<1>4. Beginning'
  BY <1>1 DEF IInv, Beginning, Fresh, Pure, Foreign, TaskFrame
<1>5. Flow'
  BY <1>1, QuietFlow DEF TaskFrame, Opened, Sending, Alive
<1>6. Announced' /\ InfoIsWhole'
  BY <1>1 DEF IInv, Announced, InfoIsWhole, TaskFrame
<1> QED
  BY <1>2, <1>3, <1>4, <1>5, <1>6 DEF IInv

LEMMA NextKeeps == ASSUME IInv, [Next]_vars PROVE IInv'
<1>1. CASE \E n \in ImageLens, store \in Stores : InitDownload(n, store)
  BY <1>1, InitDownloadKeeps
<1>2. CASE Sends
  BY <1>2, WriteKeeps DEF Sends
<1>3. CASE prvStorge_Task
  BY <1>3, TakeKeeps, EraseKeeps, ReadyKeeps, ProgramKeeps, CRCKeeps, CountKeeps, OtherKeeps
     DEF prvStorge_Task
<1> QED
  BY <1>1, <1>2, <1>3, InitEraseKeeps, InitFailsKeeps, AskingKeeps, EndKeeps, StutterKeeps
     DEF Next

LEMMA Inductive == Spec => []IInv
<1>1. IInv /\ [Next]_vars => IInv'
  BY NextKeeps
<1> QED
  BY InitHolds, <1>1, PTL DEF Spec

-----------------------------------------------------------------------------
(* The sector that announces an image does so only when the external flash *)
(* holds all of it, undamaged, if that did what it was told: also for a    *)
(* caller that starts a download over one that is not finished.            *)
THEOREM AnnouncedIsWhole == Spec => []InfoIsWhole
<1>1. IInv => InfoIsWhole
  BY DEF IInv
<1> QED
  BY Inductive, <1>1, PTL

(* A control block that is freed is not pSpiFlash, and a new one is none   *)
(* of those freed.                                                         *)
UseInv ==
  /\ freed \subseteq 1..downloads
  /\ pSpiFlash \notin freed /\ pSpiFlash <= downloads
  /\ NoUseAfterFree

(* And with a caller that waits for the storage task before it starts, the *)
(* whole of Inv: no block of the flash is erased or programmed through a   *)
(* control block that was freed.                                           *)
THEOREM OtaConsistent == ASSUME Patient PROVE Spec => []Inv
<1> USE Sizes
<1>1. Init => UseInv
  BY DEF Init, UseInv, NoUseAfterFree, Idle, NULL
<1>2. ASSUME IInv, UseInv, [Next]_vars PROVE UseInv'
  <2>0. downloads \in Nat /\ pSpiFlash \in Nat /\ freed \subseteq Downloads
        /\ 0 \notin freed
    BY <1>2 DEF IInv, Types, TypeOK, Downloads, NULL
  <2>1. CASE \E n \in ImageLens, store \in Stores : InitDownload(n, store)
    <3>1. task.at = "idle" /\ task' = task /\ downloads' = downloads + 1
      BY <2>1 DEF InitDownload, Settled
    <3>2. \/ freed' = freed \union ({pSpiFlash} \ {NULL}) /\ pSpiFlash' = downloads'
          \/ freed' = freed /\ pSpiFlash' = pSpiFlash
      BY <2>1 DEF InitDownload, block
    <3>3. freed \subseteq 1..downloads /\ pSpiFlash \notin freed /\ pSpiFlash <= downloads
      BY <1>2 DEF UseInv
    <3>4. freed' \subseteq 1..downloads'
      <4>1. pSpiFlash # NULL => pSpiFlash \in 1..downloads
        BY <2>0, <3>3 DEF NULL
      <4>2. 1..downloads \subseteq 1..downloads'
        BY <2>0, <3>1
      <4>3. freed' \subseteq freed \union ({pSpiFlash} \ {NULL})
        BY <3>2
      <4> QED
        BY <3>3, <4>1, <4>2, <4>3
    <3>5. pSpiFlash' \notin freed' /\ pSpiFlash' <= downloads'
      <4>1. downloads' \notin 1..downloads /\ downloads' # pSpiFlash
        BY <2>0, <3>1, <3>3
      <4> QED
        BY <2>0, <3>1, <3>2, <3>3, <4>1
    <3>6. NoUseAfterFree'
      BY <3>1 DEF NoUseAfterFree
    <3> QED
      BY <3>4, <3>5, <3>6 DEF UseInv
  <2>2. CASE Core_OTAEnd
    <3>1. task' = task /\ downloads' = downloads
      BY <2>2 DEF Core_OTAEnd
    <3>2. CASE pc = "end" /\ verdict = "ok" /\ head.store = "spi"
      <4>1. Opened /\ image > 0
        <5>1. Opened
          BY <3>2 DEF Opened
        <5>2. image \in ImageLens
          BY <1>2, <3>2 DEF IInv, Caller
        <5> QED
          BY <5>1, <5>2
      <4>2. Pure /\ Len(FotaCRC32) = image
        BY <1>2, <3>2, <4>1 DEF IInv, Judged
      <4>3. task.at \in {"idle", "count"}
        BY <1>2, <4>1, <4>2, RightIsWhole
      <4>4. freed' = freed \union ({pSpiFlash} \ {NULL}) /\ pSpiFlash' = NULL
        BY <2>2, <3>2 DEF Core_OTAEnd, EndOk
      <4> QED
        BY <1>2, <2>0, <3>1, <4>3, <4>4 DEF UseInv, NoUseAfterFree, NULL
    <3>3. CASE ~(pc = "end" /\ verdict = "ok" /\ head.store = "spi")
      <4>1. freed' = freed /\ pSpiFlash' = pSpiFlash
        BY <2>2, <3>3 DEF Core_OTAEnd, EndOk, EndAborted, block
      <4> QED
        BY <1>2, <3>1, <4>1 DEF UseInv, NoUseAfterFree
    <3> QED
      BY <3>2, <3>3
  <2>3. CASE TaskTake
    <3>1. /\ downloads' = downloads /\ freed' = freed /\ pSpiFlash' = pSpiFlash
          /\ task'.at = Head(queue).id
          /\ task'.at # "file" => task'.ctrl = pSpiFlash
      BY <2>3 DEF TaskTake, caller, block
    <3> QED
      BY <1>2, <3>1 DEF UseInv, NoUseAfterFree
  <2>4. CASE TaskClose
    <3>1. task'.at = "idle" /\ downloads' = downloads
          /\ freed' = freed \union ({pSpiFlash} \ {NULL}) /\ pSpiFlash' = NULL
      BY <2>4, IdleIs DEF TaskClose, caller
    <3> QED
      BY <1>2, <2>0, <3>1 DEF UseInv, NoUseAfterFree, NULL
  <2>5. CASE \/ InitErase \/ InitFails \/ Core_OTACheckReadyStart \/ Sends
             \/ CheckLen \/ CheckCRC \/ UNCHANGED vars
    <3>1. UNCHANGED <<downloads, freed, pSpiFlash, task>>
      BY <2>5 DEF InitErase, InitFails, Core_OTACheckReadyStart, Sends, Core_OTAWrite,
                  CheckLen, CheckCRC, vars, caller, block
    <3> QED
      BY <1>2, <3>1 DEF UseInv, NoUseAfterFree
  <2>6. CASE TaskErase \/ Core_OTAReady \/ TaskProgram \/ TaskCRC \/ TaskCount \/ TaskFile
    <3>1. UNCHANGED <<downloads, freed, pSpiFlash>>
      BY <2>6 DEF TaskErase, Core_OTAReady, TaskProgram, TaskCRC, TaskCount, TaskFile,
                  caller, block
    <3>2. task'.at \notin {"erase", "write"}
      BY <1>2, <2>6, IdleIs DEF TaskErase, Core_OTAReady, TaskProgram, TaskCRC, TaskCount,
                                TaskFile, IInv, Types
    <3> QED
      BY <1>2, <3>1, <3>2 DEF UseInv, NoUseAfterFree
  <2> QED
    BY <1>2, <2>1, <2>2, <2>3, <2>4, <2>5, <2>6 DEF Next, prvStorge_Task
<1>3. IInv /\ UseInv => Inv
  BY DEF IInv, Types, UseInv, Inv
<1> QED
  BY Inductive, <1>1, <1>2, <1>3, PTL DEF Spec

-----------------------------------------------------------------------------
(* The converse: a good image is not refused.                              *)

Good(s) == \A k \in 1..Len(s) : s[k][1] = downloads

ToSpi == head.store = "spi" /\ pc # "out"

(* Of a download to the external flash, started when the storage task had  *)
(* nothing left: the control block stays, nobody else's event comes in     *)
(* between, what is counted is what the CRC was taken over, and without    *)
(* noise it is all of this download.                                       *)
Quietly ==
  ToSpi =>
    /\ Alive
    /\ \A i \in 1..Len(queue) : queue[i].id \in {"erase", "write"}
    /\ task.at \notin {"close", "file"}

Counted ==
  ToSpi =>
    /\ FotaDoneLen + (IF task.at = "count" THEN Len(task.event.data) ELSE 0)
         = Len(FotaCRC32)
    /\ pc = "crc" => FotaDoneLen >= image

Unmixed ==
  ToSpi /\ ~noise =>
    /\ Good(FotaCRC32) /\ Good(buf)
    /\ task.at \in {"write", "crc", "count"} => Good(task.event.data)
    /\ \A i \in 1..Len(queue) : Good(queue[i].data)

FairInv == Quietly /\ Counted /\ Unmixed /\ NoFalseAlarm

LEMMA GoodJoins ==
  ASSUME NEW S, NEW s \in Seq(S), NEW t \in Seq(S), Good(s), Good(t)
  PROVE  Good(s \o t)
<1>1. /\ Len(s) \in Nat /\ Len(t) \in Nat /\ Len(s \o t) = Len(s) + Len(t)
      /\ \A i \in 1..Len(s) : (s \o t)[i] = s[i]
      /\ \A i \in 1..Len(t) : (s \o t)[Len(s) + i] = t[i]
  BY ConcatIs
<1>2. ASSUME NEW i \in 1..(Len(s) + Len(t)) PROVE (s \o t)[i][1] = downloads
  <2>1. CASE i <= Len(s)
    BY <1>1, <2>1 DEF Good
  <2>2. CASE i > Len(s)
    <3>1. PICK j \in 1..Len(t) : i = Len(s) + j
      <4>1. i - Len(s) \in 1..Len(t) /\ i = Len(s) + (i - Len(s))
        BY <1>1, <2>2
      <4> QED
        BY <4>1
    <3> QED
      BY <1>1, <3>1 DEF Good
  <2> QED
    BY <1>1, <2>1, <2>2
<1> QED
  BY <1>1, <1>2 DEF Good

(* Core_OTAWrite: what it sends and what it keeps comes from the buffer    *)
(* and the chunk.                                                          *)
LEMMA WriteIsFair ==
  ASSUME IInv, FairInv, NEW k \in Chunks, NEW damaged \in BOOLEAN,
         Core_OTAWrite(k, damaged)
  PROVE  FairInv'
<1> USE Sizes
<1>1. PICK chunk : chunk = ChunkOf(k, damaged)
  OBVIOUS
<1>2. PICK all : all = buf \o chunk
  OBVIOUS
<1>3. /\ pc = "send" /\ pc' \in {"poll", "send"} /\ sent + k <= image
      /\ head' = [head EXCEPT !.len = image] /\ head'.store = head.store
      /\ noise' = (noise \/ damaged)
      /\ UNCHANGED <<image, verdict, downloads, FotaCRC32, task, pSpiFlash>>
  <2>1. head' = [head EXCEPT !.len = image]
    BY DEF Core_OTAWrite
  <2>2. head \in [d : Downloads \union {0}, len : 0..MaxLen, store : Stores \union {"none"}]
    BY DEF IInv, Types, TypeOK
  <2> QED
    BY <2>1, <2>2 DEF Core_OTAWrite, block
<1>4. CASE head.store # "spi"
  BY <1>3, <1>4 DEF FairInv, Quietly, Counted, Unmixed, NoFalseAlarm, ToSpi
<1>5. CASE head.store = "spi"
  <2>1. ToSpi /\ ToSpi' /\ Alive /\ Alive'
    BY <1>3, <1>5 DEF ToSpi, FairInv, Quietly, Alive
  <2>2. WriteBlock(all) \/ WriteTail(all) \/ WritePart(all)
    BY <1>1, <1>2, <2>1 DEF Core_OTAWrite, Alive, ChunkOf
  <2>3. /\ buf \o chunk \in Seq(Units) /\ Len(buf) \in Nat /\ k \in 1..Block
        /\ Len(buf \o chunk) = Len(buf) + k
    BY <1>1, <1>3, ChunkIs
  <2>4. all \in Seq(Units) /\ Len(all) \in Nat /\ Len(all) = Len(buf) + k /\ k \in Nat
    BY <1>2, <2>3, LenProperties
  <2>5. ASSUME ~noise' PROVE Good(all)
    <3>1. ~noise /\ ~damaged
      BY <1>3, <2>5
    <3>2. Good(buf)
      BY <2>1, <3>1 DEF FairInv, Unmixed
    <3>3. head.d = downloads
      BY <1>3 DEF IInv, Caller
    <3>4. chunk = [i \in 1..k |-> <<downloads, sent + i - 1>>]
      BY <1>1, <3>1, <3>3 DEF ChunkOf
    <3> QED
      <4>1. ASSUME NEW i \in 1..k
            PROVE  <<downloads, sent + i - 1>> \in Units /\ <<downloads, sent + i - 1>>[1] = downloads
        <5>1. sent + i - 1 \in Cells /\ downloads \in Downloads
          <6>1. sent \in Nat /\ image \in ImageLens /\ downloads \in Nat /\ downloads > 0
                /\ downloads <= MaxDownloads
            BY <1>3 DEF IInv, Types, TypeOK, Caller
          <6> QED
            BY <1>3, <2>4, <6>1 DEF Cells, Downloads
        <5> QED
          BY <5>1, UnitsAre
      <4>2. chunk \in Seq(Units) /\ Len(chunk) = k
        <5>1. chunk \in [1..k -> Units]
          BY <3>4, <4>1
        <5>2. chunk \in Seq(Units)
          BY <2>4, <5>1, SeqDef
        <5> QED
          BY <2>4, <3>4, <5>2, LenProperties
      <4>3. Good(chunk)
        BY <3>4, <4>1, <4>2 DEF Good
      <4>4. buf \in Seq(Units)
        BY DEF IInv, Types, TypeOK
      <4> QED
        BY <1>2, <3>2, <4>2, <4>3, <4>4, GoodJoins
  <2>6. ASSUME NEW data \in Seq(Units), ~noise' => Good(data),
               \/ queue' = queue
               \/ queue' = Append(queue, Event("write", FotaPos, data))
        PROVE  Quietly' /\ (~noise' => \A i \in 1..Len(queue') : Good(queue'[i].data))
    <3>1. /\ \A i \in 1..Len(queue) : queue[i].id \in {"erase", "write"}
          /\ task.at \notin {"close", "file"}
          /\ ~noise => \A i \in 1..Len(queue) : Good(queue[i].data)
      BY <2>1 DEF FairInv, Quietly, Unmixed
    <3>2. CASE queue' = queue
      BY <1>3, <2>1, <3>1, <3>2 DEF Quietly
    <3>3. CASE queue' = Append(queue, Event("write", FotaPos, data))
      <4>1. PICK e : e = Event("write", FotaPos, data)
        OBVIOUS
      <4>2. e \in EventType /\ e.id = "write" /\ e.data = data
        BY <4>1 DEF Event, EventType, IInv, Types, TypeOK
      <4>3. /\ Len(queue) \in Nat /\ Len(queue') = Len(queue) + 1
            /\ \A i \in 1..Len(queue) : queue'[i] = queue[i]
            /\ queue'[Len(queue) + 1] = e
        BY <3>3, <4>1, <4>2, AppendIs, LenProperties DEF IInv, Types
      <4>4. \A i \in 1..Len(queue') : i \in 1..Len(queue) \/ i = Len(queue) + 1
        BY <4>3
      <4>5. Quietly'
        BY <1>3, <2>1, <3>1, <4>2, <4>3, <4>4 DEF Quietly
      <4>6. ~noise' => \A i \in 1..Len(queue') : Good(queue'[i].data)
        BY <1>3, <2>6, <3>1, <4>2, <4>3, <4>4
      <4> QED
        BY <4>5, <4>6
    <3> QED
      BY <2>6, <3>2, <3>3
  <2>7. PICK data \in Seq(Units) : /\ ~noise' => Good(data)
                                   /\ FotaDoneLen' = FotaDoneLen
                                   /\ \/ queue' = queue
                                      \/ queue' = Append(queue, Event("write", FotaPos, data))
                                   /\ ~noise' => Good(buf')
                                   /\ answer' # "refused"
    <3>1. CASE WriteBlock(all)
      <4>1. PICK data : data = SubSeq(all, 1, Block)
        OBVIOUS
      <4>2. PICK rest : rest = SubSeq(all, Block + 1, Len(all))
        OBVIOUS
      <4>3. Block \in 0..Len(all)
        BY <2>4, <3>1 DEF WriteBlock
      <4>4. /\ data \in Seq(Units) /\ rest \in Seq(Units)
            /\ Len(data) = Block /\ Len(rest) = Len(all) - Block
            /\ \A i \in 1..Block : data[i] = all[i]
            /\ \A i \in 1..(Len(all) - Block) : rest[i] = all[Block + i]
        <5>1. /\ SubSeq(all, 1, Block) \in Seq(Units)
              /\ SubSeq(all, Block + 1, Len(all)) \in Seq(Units)
              /\ Len(SubSeq(all, 1, Block)) = Block
              /\ Len(SubSeq(all, Block + 1, Len(all))) = Len(all) - Block
              /\ \A i \in 1..Block : SubSeq(all, 1, Block)[i] = all[i]
              /\ \A i \in 1..(Len(all) - Block) :
                   SubSeq(all, Block + 1, Len(all))[i] = all[Block + i]
          BY <2>4, <4>3, CutIs
        <5> QED
          BY <4>1, <4>2, <5>1
      <4>5. ~noise' => Good(data) /\ Good(rest)
        <5>1. /\ \A i \in 1..Block : i \in 1..Len(all)
              /\ \A i \in 1..(Len(all) - Block) : Block + i \in 1..Len(all)
          BY <2>4, <4>3
        <5>2. ASSUME Good(all) PROVE Good(data)
          BY <4>4, <5>1, <5>2 DEF Good
        <5>3. ASSUME Good(all) PROVE Good(rest)
          <6>1. \A i \in 1..Len(rest) : rest[i][1] = downloads
            BY <4>4, <5>1, <5>3 DEF Good
          <6> QED
            BY <6>1 DEF Good
        <5> QED
          BY <2>5, <5>2, <5>3
      <4> QED
        BY <1>5, <3>1, <4>1, <4>2, <4>4, <4>5 DEF WriteBlock, Flush, Send, Good
    <3>2. CASE WriteTail(all)
      <4>1. Good(<<>>)
        BY DEF Good
      <4> QED
        BY <1>5, <2>4, <2>5, <3>2, <4>1 DEF WriteTail, Flush, Send, Good
    <3>3. CASE WritePart(all)
      <4>1. <<>> \in Seq(Units) /\ Good(<<>>)
        BY DEF Good
      <4> QED
        BY <2>5, <3>3, <4>1 DEF WritePart, Good
    <3> QED
      BY <2>2, <3>1, <3>2, <3>3
  <2>8. Counted'
    BY <1>3, <2>1, <2>7 DEF FairInv, Counted
  <2>9. Unmixed'
    <3> SUFFICES ASSUME ~noise'
                 PROVE  /\ Good(FotaCRC32)' /\ Good(buf)'
                        /\ task'.at \in {"write", "crc", "count"} => Good(task.event.data)'
                        /\ \A i \in 1..Len(queue') : Good(queue[i].data)'
      BY DEF Unmixed
    <3>1. ~noise
      BY <1>3
    <3> QED
      BY <1>3, <2>1, <2>6, <2>7, <3>1 DEF FairInv, Unmixed, Good
  <2>10. NoFalseAlarm'
    BY <1>3, <1>5, <2>7 DEF FairInv, NoFalseAlarm
  <2> QED
    BY <2>6, <2>7, <2>8, <2>9, <2>10 DEF FairInv
<1> QED
  BY <1>4, <1>5

(* The verdict.                                                            *)
LEMMA CheckIsFair ==
  ASSUME IInv, FairInv, CheckCRC PROVE FairInv'
<1> USE Sizes
<1>1. /\ pc = "crc" /\ pc' = "end"
      /\ verdict' = IF FotaCRC32 = Image(head.d, head.len) THEN "ok" ELSE "bad"
      /\ UNCHANGED <<image, noise, answer, downloads, head, buf, FotaDoneLen, FotaCRC32,
                     pSpiFlash, queue, task>>
  BY DEF CheckCRC, control, count, block
<1>2. Quietly' /\ Counted' /\ Unmixed'
  BY <1>1 DEF FairInv, Quietly, Counted, Unmixed, ToSpi, Alive, Good
<1>3. ASSUME head.store = "spi", ~noise PROVE FotaCRC32 = Image(head.d, head.len)
  <2>1. ToSpi /\ Opened /\ head.d = downloads /\ head.len = image /\ image \in Nat
    BY <1>1, <1>3 DEF ToSpi, Opened, IInv, Caller
  <2>2. Pure
    BY <1>3, <2>1 DEF FairInv, Unmixed, Good, Pure
  <2>3. /\ Len(FotaCRC32) <= image
        /\ \A i \in 1..Len(FotaCRC32) : FotaCRC32[i] = <<downloads, i - 1>>
    BY <2>1, <2>2 DEF IInv, Flow, Whole
  <2>4. FotaCRC32 \in Seq(Units) /\ Len(FotaCRC32) \in Nat /\ FotaDoneLen \in Nat
    BY LenProperties DEF IInv, Types, TypeOK
  <2>5. FotaDoneLen >= image /\ FotaDoneLen <= Len(FotaCRC32)
    <3>1. CASE task.at = "count"
      <4>1. Len(task.event.data) \in Nat
        BY LenProperties DEF IInv, Types, EventType
      <4> QED
        BY <1>1, <2>1, <2>4, <3>1, <4>1 DEF FairInv, Counted
    <3>2. CASE task.at # "count"
      BY <1>1, <2>1, <2>4, <3>2 DEF FairInv, Counted
    <3> QED
      BY <3>1, <3>2
  <2>6. Len(FotaCRC32) = image
    BY <2>1, <2>3, <2>4, <2>5
  <2>7. FotaCRC32 = [i \in 1..Len(FotaCRC32) |-> FotaCRC32[i]]
    BY <2>4, LenProperties
  <2> QED
    BY <2>1, <2>3, <2>6, <2>7 DEF Image
<1>4. NoFalseAlarm'
  BY <1>1, <1>3 DEF FairInv, NoFalseAlarm
<1> QED
  BY <1>2, <1>4 DEF FairInv

(* The storage task.                                                       *)
LEMMA TaskIsFair ==
  ASSUME IInv, FairInv, prvStorge_Task PROVE FairInv'
<1>1. /\ UNCHANGED <<pc, image, noise, answer, verdict, downloads, head, buf>>
      /\ pSpiFlash' = pSpiFlash \/ TaskClose
  BY DEF prvStorge_Task, TaskTake, TaskErase, Core_OTAReady, TaskProgram, TaskCRC,
         TaskCount, TaskClose, TaskFile, caller, control, block
<1>2. NoFalseAlarm' /\ ToSpi' = ToSpi
  BY <1>1 DEF FairInv, NoFalseAlarm, ToSpi
<1>3. CASE ~ToSpi
  BY <1>2, <1>3 DEF FairInv, Quietly, Counted, Unmixed
<1>4. CASE ToSpi
  <2>0. /\ Alive /\ task.at \notin {"close", "file"}
        /\ \A i \in 1..Len(queue) : queue[i].id \in {"erase", "write"}
        /\ FotaDoneLen + (IF task.at = "count" THEN Len(task.event.data) ELSE 0)
             = Len(FotaCRC32)
        /\ pc = "crc" => FotaDoneLen >= image
    BY <1>4 DEF FairInv, Quietly, Counted
  <2>1. ~noise => /\ Good(FotaCRC32) /\ Good(buf)
                  /\ task.at \in {"write", "crc", "count"} => Good(task.event.data)
                  /\ \A i \in 1..Len(queue) : Good(queue[i].data)
    BY <1>4 DEF FairInv, Unmixed
  <2>2. /\ FotaDoneLen \in Nat /\ FotaCRC32 \in Seq(Units) /\ Len(FotaCRC32) \in Nat
        /\ task.event \in EventType /\ queue \in Seq(EventType)
        /\ task.event.data \in Seq(Units) /\ Len(task.event.data) \in Nat
        /\ image \in Nat
    <3>1. image \in ImageLens \union {0}
      BY DEF IInv, Types, TypeOK
    <3>2. image \in Nat
      BY <3>1, Sizes
    <3> QED
      BY <3>2, LenProperties DEF IInv, Types, TypeOK, EventType
  <2>3. ~TaskClose /\ ~TaskFile
    BY <2>0 DEF TaskClose, TaskFile
  <2>4. CASE TaskTake
    <3>1. /\ queue # <<>> /\ task.at = "idle" /\ queue' = Tail(queue)
          /\ task'.at = Head(queue).id /\ task'.event = Head(queue)
          /\ UNCHANGED <<FotaDoneLen, FotaCRC32, pSpiFlash>>
      BY <2>4 DEF TaskTake, count, block
    <3>2. /\ Head(queue) = queue[1] /\ Len(queue) \in Nat \ {0}
          /\ Len(queue') = Len(queue) - 1
          /\ \A i \in 1..(Len(queue) - 1) : queue'[i] = queue[i + 1]
      BY <2>2, <3>1, TailIs
    <3>3. /\ 1 \in 1..Len(queue)
          /\ \A i \in 1..(Len(queue) - 1) : i + 1 \in 1..Len(queue)
      BY <3>2
    <3>4. Quietly'
      BY <1>1, <2>0, <3>1, <3>2, <3>3 DEF Quietly, Alive
    <3>5. Counted'
      BY <1>1, <2>0, <3>1, <3>2, <3>3 DEF Counted
    <3>6. Unmixed'
      <4>1. ASSUME ~noise
            PROVE  Good(task'.event.data) /\ \A i \in 1..Len(queue') : Good(queue'[i].data)
        BY <2>1, <3>1, <3>2, <3>3, <4>1
      <4> QED
        BY <1>1, <2>1, <3>1, <4>1 DEF Unmixed, Good
    <3> QED
      BY <1>2, <3>4, <3>5, <3>6 DEF FairInv
  <2>5. CASE TaskErase \/ Core_OTAReady \/ TaskProgram
    <3>1. /\ UNCHANGED <<queue, FotaDoneLen, FotaCRC32, pSpiFlash>>
          /\ task.at \in {"erase", "call-back", "write"}
          /\ \/ task' = Idle
             \/ task' = [task EXCEPT !.at = "call-back"]
             \/ task.at = "write" /\ task' = [task EXCEPT !.at = "crc"]
      BY <2>5 DEF TaskErase, Core_OTAReady, TaskProgram, count, block
    <3>2. /\ task'.at \in {"idle", "call-back", "crc"}
          /\ task'.at = "crc" => task.at = "write" /\ task'.event = task.event
      BY <3>1, IdleIs DEF IInv, Types
    <3> QED
      BY <1>1, <1>2, <2>0, <2>1, <3>1, <3>2
         DEF FairInv, Quietly, Counted, Unmixed, Good, Alive
  <2>6. CASE TaskCRC
    <3>1. /\ task.at = "crc" /\ FotaCRC32' = FotaCRC32 \o task.event.data
          /\ UNCHANGED <<queue, FotaDoneLen, pSpiFlash>>
          /\ task' = [task EXCEPT !.at = "count"]
      BY <2>6 DEF TaskCRC, block
    <3>2. task'.at = "count" /\ task'.event = task.event
      BY <3>1 DEF IInv, Types
    <3>3. Len(FotaCRC32') = Len(FotaCRC32) + Len(task.event.data)
      BY <2>2, <3>1, ConcatIs
    <3>4. ~noise => Good(FotaCRC32')
      BY <2>1, <2>2, <3>1, GoodJoins
    <3>5. Quietly'
      BY <1>1, <2>0, <3>1, <3>2 DEF Quietly, Alive
    <3>6. Counted'
      <4>1. FotaDoneLen = Len(FotaCRC32)
        BY <2>0, <2>2, <3>1
      <4>2. FotaDoneLen + Len(task.event.data) = Len(FotaCRC32')
        BY <3>3, <4>1
      <4>3. FotaDoneLen' + Len(task'.event.data) = Len(FotaCRC32')
        BY <3>1, <3>2, <4>2
      <4>4. pc' = "crc" => FotaDoneLen' >= image'
        BY <1>1, <2>0, <3>1
      <4> QED
        BY <3>2, <4>3, <4>4 DEF Counted
    <3>7. Unmixed'
      BY <1>1, <2>1, <3>1, <3>2, <3>4 DEF Unmixed, Good
    <3> QED
      BY <1>2, <3>5, <3>6, <3>7 DEF FairInv
  <2>7. CASE TaskCount
    <3>1. /\ task.at = "count" /\ task'.at = "idle"
          /\ FotaDoneLen' = FotaDoneLen + Len(task.event.data)
          /\ UNCHANGED <<queue, FotaCRC32, pSpiFlash>>
      BY <2>7, IdleIs DEF TaskCount, block
    <3> QED
      BY <1>1, <1>2, <2>0, <2>1, <2>2, <3>1
         DEF FairInv, Quietly, Counted, Unmixed, Good, Alive
  <2> QED
    BY <2>3, <2>4, <2>5, <2>6, <2>7 DEF prvStorge_Task
<1> QED
  BY <1>3, <1>4

LEMMA FairKeeps ==
  ASSUME Patient, IInv, FairInv, [Next]_vars PROVE FairInv'
<1> USE Sizes
<1>1. ASSUME NEW n \in ImageLens, NEW store \in Stores, InitDownload(n, store)
      PROVE  FairInv'
  <2>1. /\ queue' = <<>> /\ task'.at = "idle" /\ buf' = <<>>
        /\ FotaCRC32' = <<>> /\ FotaDoneLen' = 0
        /\ answer' = "none" /\ verdict' = "none" /\ head'.store = store
        /\ pc' = IF store = "spi" THEN "init" ELSE "ready"
        /\ store = "spi" => pSpiFlash' = downloads'
        /\ downloads' > 0
    <3>1. downloads' > 0
      BY <1>1 DEF InitDownload, IInv, Types, TypeOK
    <3> QED
      BY <1>1, <3>1 DEF InitDownload, Settled
  <2> QED
    BY <2>1 DEF FairInv, Quietly, Counted, Unmixed, NoFalseAlarm, ToSpi, Alive, NULL, Good
<1>2. CASE InitErase
  <2>1. /\ pc = "init" /\ pc' = "ready" /\ queue' = Append(queue, Event("erase", 0, <<>>))
        /\ UNCHANGED <<image, noise, answer, verdict, downloads, head, buf, FotaDoneLen,
                       FotaCRC32, pSpiFlash, task>>
    BY <1>2 DEF InitErase, Send, control, count, block
  <2>2. PICK e : e = Event("erase", 0, <<>>)
    OBVIOUS
  <2>3. e \in EventType /\ e.id = "erase" /\ e.data = <<>>
    BY <2>2 DEF Event, EventType
  <2>4. /\ Len(queue) \in Nat /\ Len(queue') = Len(queue) + 1
        /\ \A i \in 1..Len(queue) : queue'[i] = queue[i]
        /\ queue'[Len(queue) + 1] = e
    BY <2>1, <2>2, <2>3, AppendIs, LenProperties DEF IInv, Types
  <2>5. \A i \in 1..Len(queue') : i \in 1..Len(queue) \/ i = Len(queue) + 1
    BY <2>4
  <2>6. ToSpi' = ToSpi
    BY <2>1 DEF ToSpi
  <2>7. Quietly'
    BY <2>1, <2>3, <2>4, <2>5, <2>6 DEF FairInv, Quietly, Alive
  <2>8. Unmixed'
    <3>1. Good(<<>>)
      BY DEF Good
    <3>2. ToSpi /\ ~noise => \A i \in 1..Len(queue') : Good(queue'[i].data)
      BY <2>3, <2>4, <2>5, <3>1 DEF FairInv, Unmixed
    <3> QED
      BY <2>1, <2>6, <3>2 DEF FairInv, Unmixed, Good
  <2>9. Counted' /\ NoFalseAlarm'
    BY <2>1, <2>6 DEF FairInv, Counted, NoFalseAlarm
  <2> QED
    BY <2>7, <2>8, <2>9 DEF FairInv
<1>3. CASE InitFails \/ Core_OTACheckReadyStart \/ UNCHANGED vars
  <2>1. /\ UNCHANGED <<image, noise, answer, verdict, downloads, head, buf, FotaDoneLen,
                       FotaCRC32, pSpiFlash, task, queue>>
        /\ \/ pc' = "out"
           \/ pc = "ready" /\ pc' = "send"
           \/ pc' = pc
    BY <1>3 DEF InitFails, Core_OTACheckReadyStart, vars, caller, control, count, block
  <2>2. ToSpi' => ToSpi
    BY <2>1 DEF ToSpi
  <2> QED
    BY <2>1, <2>2 DEF FairInv, Quietly, Counted, Unmixed, NoFalseAlarm, Alive, Good
<1>4. CASE CheckLen
  <2>1. /\ pc = "poll" /\ pc' \in {"poll", "crc"}
        /\ pc' = "crc" => FotaDoneLen >= head.len /\ verdict' = verdict
        /\ verdict' \in {verdict, "more"}
        /\ UNCHANGED <<image, noise, answer, downloads, head, buf, FotaDoneLen,
                       FotaCRC32, pSpiFlash, task, queue>>
    BY <1>4 DEF CheckLen, control, count, block
  <2>2. head.len = image
    BY <2>1 DEF IInv, Caller
  <2>3. ToSpi' = ToSpi
    BY <2>1 DEF ToSpi
  <2> QED
    BY <2>1, <2>2, <2>3 DEF FairInv, Quietly, Counted, Unmixed, NoFalseAlarm, Alive, Good
<1>5. CASE Core_OTAEnd
  <2>1. head'.store = "none"
    BY <1>5 DEF Core_OTAEnd, NoHead
  <2> QED
    BY <2>1 DEF FairInv, Quietly, Counted, Unmixed, NoFalseAlarm, ToSpi
<1> QED
  BY <1>1, <1>2, <1>3, <1>4, <1>5, WriteIsFair, CheckIsFair, TaskIsFair DEF Next, Sends

(* An image for the external flash that arrived undamaged is not refused   *)
(* and not called bad, wherever the storage task is when the caller asks:  *)
(* the count of Core_OTACheckDone never runs ahead of the CRC.             *)
THEOREM GoodIsAccepted == ASSUME Patient PROVE Spec => []NoFalseAlarm
<1>1. Init => FairInv
  BY DEF Init, FairInv, Quietly, Counted, Unmixed, NoFalseAlarm, ToSpi, NoHead
<1>2. IInv /\ FairInv /\ [Next]_vars => FairInv'
  BY FairKeeps
<1>3. FairInv => NoFalseAlarm
  BY DEF FairInv
<1> QED
  BY Inductive, <1>1, <1>2, <1>3, PTL DEF Spec
=============================================================================

------------------------------ MODULE CoreOta ------------------------------
(***************************************************************************)
(* The download half of an upgrade, bsp/common/src/core_service.c:         *)
(* Core_OTAInit, Core_OTAWrite, Core_OTACheckReadyStart,                   *)
(* Core_OTACheckDone, Core_OTAEnd and the part of prvStorge_Task that      *)
(* erases and programs the external flash (or writes a file) for them.     *)
(*                                                                         *)
(* Two tasks: the caller, which takes the image from somewhere in chunks,  *)
(* and the storage task, which empties a queue of events in order.  They   *)
(* share the SPI flash control block, the count of bytes done and the CRC. *)
(*                                                                         *)
(* A unit stands for a fraction of a flash block, and a CRC for the        *)
(* sequence of units it was taken over: two different images have          *)
(* different CRCs.  A file head comes with the first chunk and is a good   *)
(* one.  Addresses are relative to DataStartAddress.                       *)
(***************************************************************************)
EXTENDS Integers, Sequences, FiniteSets

CONSTANTS
  Block,        (* __FLASH_BLOCK_SIZE__, in units                          *)
  ImageLens,    (* lengths an image may have, in units                     *)
  Chunks,       (* lengths the caller hands over at a time                 *)
  Stores,       (* CORE_OTA_...: subset of {"flash", "spi", "file"}        *)
  MaxDownloads, (* bound on the calls of Core_OTAInit                      *)
  Patient       (* does the caller start a download only when the storage
                   task has nothing left of the one before?                *)

ASSUME OtaAssumption ==
  /\ Block \in Nat \ {0}
  /\ ImageLens \subseteq Nat \ {0}
  /\ \E n \in ImageLens : \A m \in ImageLens : m <= n
  /\ Chunks \subseteq 1..Block
  /\ Stores \subseteq {"flash", "spi", "file"}
  /\ MaxDownloads \in Nat
  /\ Patient \in BOOLEAN

MaxLen == CHOOSE n \in ImageLens : \A m \in ImageLens : m <= n
Cells == 0..(MaxLen - 1)

Downloads == 1..MaxDownloads
Damaged == <<0, 0>>
Old == <<0, 1>>
Erased == <<0, 2>>
Garbage == <<0, 3>>
Units == (Downloads \X Cells) \union {Damaged}
Image(d, n) == [i \in 1..n |-> <<d, i - 1>>]

NULL == 0
NoHead == [d |-> 0, len |-> 0, store |-> "none"]

Event(id, pos, data) == [id |-> id, pos |-> pos, data |-> data]

VARIABLES
  pc,          (* the caller                                               *)
  image,       (* the length of the image being sent                       *)
  sent, noise, (* units handed over; were some damaged?                    *)
  answer,      (* of the last Core_OTAWrite                                *)
  verdict,     (* of the last Core_OTACheckDone                            *)
  head,        (* pFotaHead                                                *)
  known,       (* FotaFindHead: is DataLen known?                          *)
  buf,         (* FotaDataBuf                                              *)
  FotaPos, FotaDoneLen, FotaCRC32, FotaReady,
  pSpiFlash,   (* the download that allocated it, or NULL                  *)
  freed,       (* the control blocks freed                                 *)
  queue,       (* the events of the storage task                           *)
  task,        (* what it is doing                                         *)
  cells,       (* the external flash                                       *)
  file,        (* the file at FilePath                                     *)
  info,        (* the sector at __FLASH_OTA_INFO_ADDR__                    *)
  downloads,   (* calls of Core_OTAInit                                    *)
  failed       (* history: the external flash did not do what it was told  *)

caller  == <<pc, image, sent, noise, answer, verdict, downloads>>
count   == <<FotaDoneLen, FotaCRC32>>
control == <<head, known, buf, FotaPos>>
block   == <<pSpiFlash, freed>>
stores  == <<cells, file, failed>>
vars == <<caller, control, count, FotaReady, block, queue, task, stores, info>>

Idle == [at |-> "idle", event |-> Event("none", 0, <<>>), ctrl |-> NULL]

Init ==
  /\ pc = "out" /\ image = 0 /\ sent = 0 /\ noise = FALSE
  /\ answer = "none" /\ verdict = "none" /\ downloads = 0
  /\ head = NoHead /\ known = FALSE /\ buf = <<>>
  /\ FotaPos = 0 /\ FotaDoneLen = 0 /\ FotaCRC32 = <<>> /\ FotaReady = FALSE
  /\ pSpiFlash = NULL /\ freed = {}
  /\ queue = <<>> /\ task = Idle
  /\ cells = [c \in Cells |-> Old] /\ file = <<>> /\ info = NoHead
  /\ failed = FALSE

Send(e) == queue' = Append(queue, e)

-----------------------------------------------------------------------------
(* The caller.                                                             *)

Settled == queue = <<>> /\ task.at = "idle"

\* Core_OTAInit up to SPIFlash_Init, which waits on the bus.
InitDownload(n, store) ==
  /\ pc \in {"out", "ready", "send", "poll"} /\ downloads < MaxDownloads
  /\ Patient => pc = "out" /\ Settled
  /\ downloads' = downloads + 1
  /\ image' = n /\ sent' = 0 /\ noise' = FALSE
  /\ answer' = "none" /\ verdict' = "none"
  /\ FotaReady' = (store # "spi")
  /\ info' = NoHead
  /\ head' = [d |-> downloads', len |-> 0, store |-> store]
  /\ known' = FALSE /\ buf' = <<>>
  /\ FotaPos' = 0 /\ FotaDoneLen' = 0 /\ FotaCRC32' = <<>>
  /\ IF store = "spi"
     THEN /\ freed' = freed \union ({pSpiFlash} \ {NULL})
          /\ pSpiFlash' = downloads'
          /\ pc' = "init"
     ELSE UNCHANGED block /\ pc' = "ready"
  /\ UNCHANGED <<queue, task, stores>>

\* ... and from it: the flash is there, and its erasure is queued.
InitErase ==
  /\ pc = "init"
  /\ Send(Event("erase", 0, <<>>))
  /\ pc' = "ready"
  /\ UNCHANGED <<image, sent, noise, answer, verdict, downloads, control,
                 count, FotaReady, block, task, stores, info>>

\* ... or it is not, and Core_OTAInit returns -1.
InitFails ==
  /\ pc = "init"
  /\ pc' = "out"
  /\ UNCHANGED <<image, sent, noise, answer, verdict, downloads, control,
                 count, FotaReady, block, queue, task, stores, info>>

\* The caller starts to send when Core_OTACheckReadyStart says so.
Core_OTACheckReadyStart ==
  /\ pc = "ready" /\ FotaReady
  /\ pc' = "send"
  /\ UNCHANGED <<image, sent, noise, answer, verdict, downloads, control,
                 count, FotaReady, block, queue, task, stores, info>>

\* What becomes of the buffer when it holds a block, or the last of it.
Flush(data) ==
  \/ /\ head.store = "flash"
     /\ FotaDoneLen' = FotaDoneLen + Len(data)
     /\ UNCHANGED queue
  \/ /\ head.store \in {"spi", "file"}
     /\ Send(Event(IF head.store = "spi" THEN "write" ELSE "file",
                   FotaPos, data))
     /\ UNCHANGED FotaDoneLen

WriteBlock(all) ==
  /\ Len(all) >= Block
  /\ Flush(SubSeq(all, 1, Block))
  /\ FotaPos' = FotaPos + Block
  /\ buf' = SubSeq(all, Block + 1, Len(all))
  /\ answer' = "more"

WriteTail(all) ==
  /\ Len(all) < Block /\ FotaPos + Len(all) >= image
  /\ Flush(all)
  /\ buf' = <<>>
  /\ answer' = "all"
  /\ UNCHANGED FotaPos

WritePart(all) ==
  /\ Len(all) < Block /\ FotaPos + Len(all) < image
  /\ buf' = all
  /\ answer' = "more"
  /\ UNCHANGED <<FotaPos, FotaDoneLen, queue>>

WriteRefused ==
  /\ answer' = "refused"
  /\ UNCHANGED <<buf, FotaPos, FotaDoneLen, queue>>

\* One chunk: the head with the first one, then the block buffer.
Core_OTAWrite(k, damaged) ==
  /\ pc = "send" /\ sent + k <= image
  /\ known' = TRUE /\ head' = [head EXCEPT !.len = image]
  /\ LET chunk == [i \in 1..k |-> IF damaged THEN Damaged
                                  ELSE <<head.d, sent + i - 1>>]
         all   == buf \o chunk
     IN  IF head.store = "spi" /\ pSpiFlash = NULL THEN WriteRefused
         ELSE WriteBlock(all) \/ WriteTail(all) \/ WritePart(all)
  /\ sent' = sent + k /\ noise' = (noise \/ damaged)
  /\ pc' = IF answer' = "all" \/ sent' = image THEN "poll" ELSE "send"
  /\ UNCHANGED <<image, verdict, downloads, FotaCRC32, FotaReady, block, task,
                 stores, info>>

\* Not the code: what was sent is taken for what was done.
CheckSent ==
  /\ pc = "poll"
  /\ IF FotaPos >= head.len THEN pc' = "crc" /\ UNCHANGED verdict
     ELSE verdict' = "more" /\ UNCHANGED pc
  /\ UNCHANGED <<image, sent, noise, answer, downloads, control, count,
                 FotaReady, block, queue, task, stores, info>>

\* Core_OTACheckDone reads the count ...
CheckLen ==
  /\ pc = "poll"
  /\ IF FotaDoneLen >= head.len THEN pc' = "crc" /\ UNCHANGED verdict
     ELSE verdict' = "more" /\ UNCHANGED pc
  /\ UNCHANGED <<image, sent, noise, answer, downloads, control, count,
                 FotaReady, block, queue, task, stores, info>>

\* ... and then the CRC.
CheckCRC ==
  /\ pc = "crc"
  /\ verdict' = IF FotaCRC32 = Image(head.d, head.len) THEN "ok" ELSE "bad"
  /\ pc' = "end"
  /\ UNCHANGED <<image, sent, noise, answer, downloads, control, count,
                 FotaReady, block, queue, task, stores, info>>

EndOk ==
  /\ info' = head
  /\ IF head.store = "spi"
     THEN freed' = freed \union ({pSpiFlash} \ {NULL}) /\ pSpiFlash' = NULL
     ELSE UNCHANGED block
  /\ UNCHANGED queue

EndAborted ==
  /\ IF head.store = "spi" THEN Send(Event("close", 0, <<>>))
     ELSE UNCHANGED queue
  /\ UNCHANGED <<info, block>>

\* The caller ends with what the check said, or gives up before.
Core_OTAEnd ==
  /\ pc \in {"ready", "send", "poll", "end"}
  /\ IF pc = "end" /\ verdict = "ok" THEN EndOk ELSE EndAborted
  /\ head' = NoHead /\ buf' = <<>>
  /\ pc' = "out"
  /\ UNCHANGED <<image, sent, noise, answer, verdict, downloads, known,
                 FotaPos, count, FotaReady, task, stores>>

-----------------------------------------------------------------------------
(* prvStorge_Task.                                                         *)

\* It takes an event and looks at the control block.
TaskTake ==
  /\ task.at = "idle" /\ queue # <<>>
  /\ task' = [at |-> Head(queue).id, event |-> Head(queue),
              ctrl |-> IF Head(queue).id = "file" THEN NULL ELSE pSpiFlash]
  /\ queue' = Tail(queue)
  /\ UNCHANGED <<caller, control, count, FotaReady, block, stores, info>>

TaskErase ==
  /\ task.at = "erase"
  /\ IF task.ctrl = NULL THEN UNCHANGED <<cells, failed>>
     ELSE \/ cells' = [c \in Cells |-> Erased] /\ UNCHANGED failed
          \/ failed' = TRUE /\ UNCHANGED cells
  /\ task' = [task EXCEPT !.at = "call-back"]
  /\ UNCHANGED <<caller, control, count, FotaReady, block, queue, file, info>>

Core_OTAReady ==
  /\ task.at = "call-back"
  /\ FotaReady' = TRUE
  /\ task' = Idle
  /\ UNCHANGED <<caller, control, count, block, queue, stores, info>>

\* Not the code: every block goes to the start of the image.
ProgrammedAtStart(pos, data) ==
  [c \in Cells |->
     IF c + 1 \notin 1..Len(data) THEN cells[c]
     ELSE IF cells[c] = Erased THEN data[c + 1] ELSE Garbage]

\* A cell that was not erased holds garbage once programmed.
Programmed(pos, data) ==
  [c \in Cells |->
     IF c - pos + 1 \notin 1..Len(data) THEN cells[c]
     ELSE IF cells[c] = Erased THEN data[c - pos + 1] ELSE Garbage]

\* SPIFlash_Write, whose result nobody looks at.
TaskProgram ==
  /\ task.at = "write"
  /\ IF task.ctrl = NULL THEN task' = Idle /\ UNCHANGED <<cells, failed>>
     ELSE /\ task' = [task EXCEPT !.at = "crc"]
          /\ \/ /\ cells' = Programmed(task.event.pos, task.event.data)
                /\ UNCHANGED failed
             \/ failed' = TRUE /\ UNCHANGED cells
  /\ UNCHANGED <<caller, control, count, FotaReady, block, queue, file, info>>

TaskCRC ==
  /\ task.at = "crc"
  /\ FotaCRC32' = FotaCRC32 \o task.event.data
  /\ task' = [task EXCEPT !.at = "count"]
  /\ UNCHANGED <<caller, control, FotaDoneLen, FotaReady, block, queue,
                 stores, info>>

\* Not the code: the length of a block is not added.
TaskCountNothing ==
  /\ task.at = "count"
  /\ task' = Idle
  /\ UNCHANGED <<caller, control, count, FotaReady, block, queue, stores, info>>

TaskCount ==
  /\ task.at = "count"
  /\ FotaDoneLen' = FotaDoneLen + Len(task.event.data)
  /\ task' = Idle
  /\ UNCHANGED <<caller, control, FotaCRC32, FotaReady, block, queue, stores,
                 info>>

TaskClose ==
  /\ task.at = "close"
  /\ freed' = freed \union ({pSpiFlash} \ {NULL}) /\ pSpiFlash' = NULL
  /\ task' = Idle
  /\ UNCHANGED <<caller, control, count, FotaReady, queue, stores, info>>

\* Every block opens the file anew, for writing.
TaskFile ==
  /\ task.at = "file"
  /\ file' = task.event.data
  /\ task' = [task EXCEPT !.at = "count"]
  /\ UNCHANGED <<caller, control, count, FotaReady, block, queue, cells,
                 failed, info>>

prvStorge_Task ==
  \/ TaskTake \/ TaskErase \/ Core_OTAReady \/ TaskProgram \/ TaskCRC
  \/ TaskCount \/ TaskClose \/ TaskFile

Sends == \E k \in Chunks, damaged \in BOOLEAN : Core_OTAWrite(k, damaged)

Next ==
  \/ \E n \in ImageLens, store \in Stores : InitDownload(n, store)
  \/ InitErase \/ InitFails \/ Core_OTACheckReadyStart \/ Sends
  \/ CheckLen \/ CheckCRC \/ Core_OTAEnd
  \/ prvStorge_Task

Spec == Init /\ [][Next]_vars

(* The scheduler gives the storage task its turn; the caller goes on       *)
(* sending and asking (it may give up, but need not).                      *)
FairSpec ==
  /\ Spec
  /\ WF_vars(prvStorge_Task)
  /\ WF_vars(InitErase) /\ WF_vars(Core_OTACheckReadyStart) /\ WF_vars(Sends)
  /\ WF_vars(CheckLen) /\ WF_vars(CheckCRC)

-----------------------------------------------------------------------------
(* The types of the variables, the bound on the block buffer included.     *)
TypeOK ==
  /\ pc \in {"out", "init", "ready", "send", "poll", "crc", "end"}
  /\ image \in ImageLens \union {0} /\ sent \in 0..MaxLen
  /\ noise \in BOOLEAN
  /\ answer \in {"none", "more", "all", "refused"}
  /\ verdict \in {"none", "more", "ok", "bad"}
  /\ {head, info} \subseteq [d : Downloads \union {0}, len : 0..MaxLen,
                             store : Stores \union {"none"}]
  /\ known \in BOOLEAN /\ FotaReady \in BOOLEAN
  /\ buf \in Seq(Units) /\ Len(buf) < Block
  /\ FotaPos \in 0..MaxLen /\ FotaDoneLen \in Nat
  /\ FotaCRC32 \in Seq(Units) /\ file \in Seq(Units)
  /\ pSpiFlash \in Downloads \union {NULL} /\ freed \subseteq Downloads
  /\ cells \in [Cells -> Units \union {Old, Erased, Garbage}]
  /\ downloads \in 0..MaxDownloads /\ failed \in BOOLEAN
  /\ task.at \in {"idle", "erase", "call-back", "write", "crc", "count",
                  "close", "file"}

(* The bootloader is told of an image only when the external flash holds   *)
(* all of it, undamaged and programmed on erased cells: the CRC of         *)
(* Core_OTACheckDone covers the flash although it is taken over the        *)
(* buffers, chunk by chunk, by another task.  (A flash that fails goes     *)
(* unnoticed: nobody looks at what SPIFlash_Write returns.)                *)
InfoIsWhole ==
  info.store = "spi" /\ ~failed =>
    \A i \in 1..info.len : cells[i - 1] = Image(info.d, info.len)[i]

(* An image for the external flash that arrived undamaged is neither       *)
(* refused by Core_OTAWrite nor called bad by Core_OTACheckDone, whatever  *)
(* the storage task is at when the caller looks.                           *)
NoFalseAlarm ==
  head.store = "spi" => answer # "refused" /\ (verdict = "bad" => noise)

(* "CRC32 of the data" (bsp_common.h:51): so is one for a file.            *)
NoFalseAlarmForFile ==
  head.store = "file" => (verdict = "bad" => noise)

(* The storage task never erases or programs through a control block that  *)
(* Core_OTAEnd or Core_OTAInit has freed.                                  *)
NoUseAfterFree ==
  task.at \in {"erase", "write"} => task.ctrl \notin freed

Inv == TypeOK /\ InfoIsWhole /\ NoUseAfterFree

(* A caller that has handed over everything and goes on asking gets a      *)
(* verdict (or gives up), provided nothing was left in the buffer: the end *)
(* of an image that came with the end of a block stays there.              *)
VerdictComes == pc = "poll" /\ buf = <<>> ~> pc # "poll"

(* "All data rx" (core_service.c:782): the end of the image is noticed.    *)
EndIsNoticed == pc = "poll" => buf = <<>>
=============================================================================

------------------------------ MODULE BlLocal ------------------------------
(***************************************************************************)
(* The bootloader's download from a host: Local_Upgrade of                 *)
(* bsp/air105/platform/bl_main.c, and the handlers the debug UART's        *)
(* interrupt calls for the host's commands (BL_StartNewDownload,           *)
(* BL_DownloadAddData, BL_RunLzmaBlock, BL_DownloadEnd, with the DBG_...   *)
(* functions of bsp/air105/hal/core_debug.c that answer).                  *)
(*                                                                         *)
(* The interrupt fills one buffer with the packets of a block and hands it *)
(* over through NextLzmaData; the main loop uncompresses a block into one  *)
(* of two caches, even while the flash is erasing for the block before,    *)
(* and programs it.  The host is external: it sends a command, waits for   *)
(* the answer, and sends it again when none comes.                         *)
(***************************************************************************)
EXTENDS Integers, Sequences

CONSTANTS
  Blocks,        (* of an image                                            *)
  Packets,       (* of a block                                             *)
  MaxDownloads,  (* bound on the images the host sends                     *)
  MaxLost,       (* bound on the answers that get lost                     *)
  Prompt         (* does the main loop notice a new download before the
                    host has sent a whole block of it?                     *)

Block(d, n) == [i \in 1..Packets |-> <<d, n, i>>]
None == <<>>
Blank == <<<<0, 0, 0>>>>

VARIABLES
  State,              (* FW_UPGRADE_STATE_...                              *)
  FWDataBuffer,       (* the packets of the block being received           *)
  NextLzmaAddress,    (* packets of it                                     *)
  NextLzmaData,       (* the block handed over, or None                    *)
  at,                 (* where the main loop is                            *)
  cur, other,         (* DBuf: what its two caches hold, or None           *)
  taken,              (* the block being taken                             *)
  FinishLen,          (* blocks done                                       *)
  flash,              (* the flash from FWStartAddress on                  *)
  ForceOut, ConnectOK,
  info,               (* is an upgrade announced in flash?                 *)
  host, n, k,         (* the host: what it does, block, packets sent       *)
  d,                  (* the image it sends                                *)
  result,             (* PROGRAM_CHECK's result for that image             *)
  lost                (* answers lost                                      *)

shared == <<State, FWDataBuffer, NextLzmaAddress, NextLzmaData>>
loop   == <<at, cur, other, taken, FinishLen, flash, ForceOut, ConnectOK, info>>
pc     == <<host, n, k, d, lost>>
vars == <<shared, loop, pc, result>>

(* What a reset makes of the RAM: all but the flash and the announcement.  *)
PowerOn ==
  /\ State = "IDLE" /\ FWDataBuffer = <<>> /\ NextLzmaAddress = 0
  /\ NextLzmaData = None
  /\ at = "loop" /\ cur = None /\ other = None /\ taken = None
  /\ FinishLen = 0 /\ ForceOut = FALSE /\ ConnectOK = FALSE
  /\ host = "start" /\ n = 1 /\ k = 0 /\ d = 1 /\ result = "none" /\ lost = 0

Init ==
  /\ PowerOn /\ info = TRUE
  /\ flash = [i \in 1..Blocks |-> Blank]

\* Not a step of Local_Upgrade: BlMain's reset.
Reset ==
  /\ State' = "IDLE" /\ FWDataBuffer' = <<>> /\ NextLzmaAddress' = 0
  /\ NextLzmaData' = None
  /\ at' = "loop" /\ cur' = None /\ other' = None /\ taken' = None
  /\ FinishLen' = 0 /\ ForceOut' = FALSE /\ ConnectOK' = FALSE
  /\ host' = "start" /\ n' = 1 /\ k' = 0 /\ d' = 1 /\ result' = "none"
  /\ lost' = 0

-----------------------------------------------------------------------------
(* A command: the interrupt runs its handler, whose answer arrives or not. *)

Answered(next, nn, kk) ==
  \/ host' = next /\ n' = nn /\ k' = kk /\ UNCHANGED lost
  \/ lost < MaxLost /\ lost' = lost + 1 /\ UNCHANGED <<host, n, k>>

BL_StartNewDownload ==
  /\ host = "start" /\ at # "out"
  /\ IF State # "IDLE"
     THEN UNCHANGED <<host, n, k, lost, shared, result>>
     ELSE /\ State' = "START" /\ NextLzmaAddress' = 0
          /\ UNCHANGED <<FWDataBuffer, NextLzmaData>>
          /\ result' = "none"
          /\ Answered("data", 1, 0)
  /\ UNCHANGED <<loop, d>>

BL_DownloadAddData ==
  /\ host = "data" /\ k < Packets /\ at # "out"
  /\ IF NextLzmaAddress # k
     THEN /\ Answered("data", n, NextLzmaAddress)
          /\ UNCHANGED shared
     ELSE /\ NextLzmaAddress' = NextLzmaAddress + 1
          /\ FWDataBuffer' = IF Len(FWDataBuffer) < Packets
                             THEN Append(FWDataBuffer, <<d, n, k + 1>>)
                             ELSE FWDataBuffer
          /\ Answered("data", n, k + 1)
          /\ UNCHANGED <<State, NextLzmaData>>
  /\ UNCHANGED <<loop, d, result>>

\* What the host does after a block: the next one, or the end.
AfterBlock == IF n < Blocks THEN Answered("data", n + 1, 0)
              ELSE Answered("end", n, k)

\* Not the code: a block still waiting is replaced.
RunLzmaBlockAnyway ==
  /\ host = "data" /\ k = Packets /\ at # "out"
  /\ Prompt => State # "START" /\ at # "started"
  /\ IF FWDataBuffer = <<>> THEN AfterBlock /\ UNCHANGED shared
     ELSE /\ NextLzmaData' = FWDataBuffer
          /\ FWDataBuffer' = <<>> /\ NextLzmaAddress' = 0
          /\ AfterBlock
          /\ UNCHANGED State
  /\ UNCHANGED <<loop, d, result>>

BL_RunLzmaBlock ==
  /\ host = "data" /\ k = Packets /\ at # "out"
  /\ Prompt => State # "START" /\ at # "started"
  /\ IF FWDataBuffer = <<>> THEN AfterBlock /\ UNCHANGED shared
     ELSE IF NextLzmaData = None
     THEN /\ NextLzmaData' = FWDataBuffer
          /\ FWDataBuffer' = <<>> /\ NextLzmaAddress' = 0
          /\ AfterBlock
          /\ UNCHANGED State
     ELSE UNCHANGED <<shared, host, n, k, lost>>       \* ERROR_BUFFER_FULL
  /\ UNCHANGED <<loop, d, result>>

BL_DownloadEnd ==
  /\ host = "end" /\ at # "out"
  /\ State' = IF State = "RUN" THEN "WAIT_END" ELSE State
  /\ Answered("wait", n, k)
  /\ UNCHANGED <<loop, FWDataBuffer, NextLzmaAddress, NextLzmaData, d, result>>

\* The host has the result and sends another image.
HostGoesOn ==
  /\ host = "wait" /\ result # "none" /\ d < MaxDownloads
  /\ host' = "start" /\ d' = d + 1
  /\ UNCHANGED <<shared, loop, result, n, k, lost>>

HostLeaves ==
  /\ host # "gone"
  /\ host' = "gone"
  /\ UNCHANGED <<shared, loop, result, n, k, d, lost>>

BL_RunAPP ==
  /\ host = "wait" /\ result # "none" /\ at # "out"
  /\ ForceOut' = TRUE
  /\ host' = "gone"
  /\ UNCHANGED <<shared, at, cur, other, taken, FinishLen, flash, ConnectOK,
                 info, result, n, k, d, lost>>

-----------------------------------------------------------------------------
(* The main loop.                                                          *)

Start ==
  /\ at = "loop" /\ ~ForceOut /\ State = "START"
  /\ State' = "RUN" /\ at' = "started"
  /\ UNCHANGED <<FWDataBuffer, NextLzmaAddress, NextLzmaData, cur, other,
                 taken, FinishLen, flash, ForceOut, ConnectOK, info, pc,
                 result>>

Started ==
  /\ at = "started"
  /\ NextLzmaData' = None /\ FinishLen' = 0 /\ ConnectOK' = TRUE
  /\ at' = "loop"
  /\ UNCHANGED <<State, FWDataBuffer, NextLzmaAddress, cur, other, taken,
                 flash, ForceOut, info, pc, result>>

\* The block uncompressed during the last erasure is next.
DBuffer_SwapCache ==
  /\ at = "loop" /\ ~ForceOut /\ State \in {"RUN", "WAIT_END"}
  /\ other # None
  /\ cur' = other /\ other' = None
  /\ at' = "block"
  /\ UNCHANGED <<shared, taken, FinishLen, flash, ForceOut, ConnectOK, info,
                 pc, result>>

\* A turn without a download.
Idle ==
  /\ at = "loop" /\ ~ForceOut /\ State = "IDLE"
  /\ at' = "test"
  /\ UNCHANGED <<shared, cur, other, taken, FinishLen, flash, ForceOut,
                 ConnectOK, info, pc, result>>

\* A block is taken in two steps, so that the interrupt finds the slot
\* occupied until all of it was read.
Look ==
  /\ NextLzmaData # None /\ other = None
  /\ \/ /\ at = "loop" /\ ~ForceOut /\ State \in {"RUN", "WAIT_END"}
        /\ at' = "take"
     \/ at = "erase" /\ at' = "take ahead"
  /\ taken' = NextLzmaData
  /\ UNCHANGED <<shared, cur, other, FinishLen, flash, ForceOut, ConnectOK,
                 info, pc, result>>

Take ==
  /\ \/ at = "take" /\ cur' = taken /\ at' = "block" /\ UNCHANGED other
     \/ at = "take ahead" /\ other' = taken /\ at' = "erase" /\ UNCHANGED cur
  /\ NextLzmaData' = None /\ taken' = None
  /\ UNCHANGED <<State, FWDataBuffer, NextLzmaAddress, FinishLen, flash,
                 ForceOut, ConnectOK, info, pc, result>>

Nothing ==
  /\ at = "loop" /\ ~ForceOut /\ State \in {"RUN", "WAIT_END"}
  /\ other = None /\ NextLzmaData = None
  /\ at' = IF FinishLen >= Blocks THEN "check" ELSE "test"
  /\ UNCHANGED <<shared, cur, other, taken, FinishLen, flash, ForceOut,
                 ConnectOK, info, pc, result>>

\* memcmp: a block that is there already is not erased.
EraseStart ==
  /\ at = "block"
  /\ IF FinishLen < Blocks /\ flash[FinishLen + 1] = cur
     THEN at' = "done"
     ELSE at' = "erase"
  /\ UNCHANGED <<shared, cur, other, taken, FinishLen, flash, ForceOut,
                 ConnectOK, info, pc, result>>

Program ==
  /\ at = "erase"
  /\ flash' = [i \in 1..Blocks |-> IF i = FinishLen + 1 THEN cur ELSE flash[i]]
  /\ at' = "done"
  /\ UNCHANGED <<shared, cur, other, taken, FinishLen, ForceOut, ConnectOK,
                 info, pc, result>>

BlockDone ==
  /\ at = "done"
  /\ FinishLen' = FinishLen + 1
  /\ at' = "check"
  /\ UNCHANGED <<shared, cur, other, taken, flash, ForceOut, ConnectOK, info,
                 pc, result>>

\* PROGRAM_CHECK: the CRC and its result ...
Check ==
  /\ at = "check"
  /\ IF FinishLen >= Blocks
     THEN /\ result' = IF flash = [i \in 1..Blocks |-> Block(d, i)]
                       THEN "ok" ELSE "bad"
          /\ at' = "answered"
     ELSE at' = "loop" /\ UNCHANGED result
  /\ UNCHANGED <<shared, cur, other, taken, FinishLen, flash, ForceOut,
                 ConnectOK, info, pc>>

\* ... and only then the state.
Answer ==
  /\ at = "answered"
  /\ State' = "IDLE" /\ at' = "loop"
  /\ UNCHANGED <<FWDataBuffer, NextLzmaAddress, NextLzmaData, cur, other,
                 taken, FinishLen, flash, ForceOut, ConnectOK, info, pc,
                 result>>

(* AllToTick is tested in every turn.  A turn that starts a download or    *)
(* programs a block has just renewed it; in any other the time may be up,  *)
(* whatever the host does, and whatever has come since the turn looked.    *)

Turn ==
  /\ at = "test"
  /\ at' = "loop"
  /\ UNCHANGED <<shared, cur, other, taken, FinishLen, flash, ForceOut,
                 ConnectOK, info, pc, result>>

\* Not the code: the time runs only before a download.
TimeoutIdle ==
  /\ at = "test" /\ State = "IDLE"
  /\ ForceOut' = TRUE
  /\ at' = "loop"
  /\ UNCHANGED <<shared, cur, other, taken, FinishLen, flash, ConnectOK, info,
                 pc, result>>

\* The host is told ERROR_TIMEOUT, and nothing it sends is programmed.
Timeout ==
  /\ at = "test"
  /\ ForceOut' = TRUE
  /\ at' = "loop"
  /\ UNCHANGED <<shared, cur, other, taken, FinishLen, flash, ConnectOK, info,
                 pc, result>>

Leave ==
  /\ at = "loop" /\ ForceOut
  /\ info' = (info /\ ~ConnectOK)
  /\ at' = "out"
  /\ UNCHANGED <<shared, cur, other, taken, FinishLen, flash, ForceOut,
                 ConnectOK, pc, result>>

Local_Upgrade ==
  \/ Idle \/ Start \/ Started \/ DBuffer_SwapCache \/ Look \/ Take \/ Nothing
  \/ EraseStart \/ Program \/ BlockDone \/ Check \/ Answer \/ Turn \/ Timeout
  \/ Leave

Command ==
  \/ BL_StartNewDownload \/ BL_DownloadAddData \/ BL_RunLzmaBlock
  \/ BL_DownloadEnd

Next == Command \/ HostGoesOn \/ HostLeaves \/ BL_RunAPP \/ Local_Upgrade

Spec == Init /\ [][Next]_vars

(* The main loop goes on, and a host goes on with the download it began    *)
(* (or leaves for good).  Once it has left, the time runs out; as long as  *)
(* it stays the time may run out too, but need not.                        *)
FairSpec ==
  /\ Spec
  /\ WF_vars(Local_Upgrade) /\ SF_vars(host = "gone" /\ Timeout)
  /\ WF_vars(Command)

-----------------------------------------------------------------------------
TypeOK ==
  /\ State \in {"IDLE", "START", "RUN", "WAIT_END"}
  /\ Len(FWDataBuffer) \in 0..Packets /\ NextLzmaAddress \in 0..Packets
  /\ Len(NextLzmaData) \in 0..Packets /\ Len(taken) \in 0..Packets
  /\ Len(cur) \in 0..Packets /\ Len(other) \in 0..Packets
  /\ at \in {"loop", "started", "take", "take ahead", "block", "erase", "done",
             "check", "answered", "test", "out"}
  /\ FinishLen \in 0..Blocks
  /\ {ForceOut, ConnectOK, info} \subseteq BOOLEAN
  /\ host \in {"start", "data", "end", "wait", "gone"}
  /\ n \in 1..Blocks /\ k \in 0..Packets /\ d \in 1..MaxDownloads
  /\ result \in {"none", "ok", "bad"} /\ lost \in 0..MaxLost

Running == State \in {"RUN", "WAIT_END"} /\ at # "started" /\ result = "none"

(* What is programmed is what was sent, whole blocks in their order, while *)
(* the interrupt fills one buffer, hands over another, and the main loop   *)
(* moves between two caches; answers may be lost and commands repeated.    *)
ProgramsInOrder ==
  Running => \A i \in 1..FinishLen : flash[i] = Block(d, i)

(* A host that sends an image, repeating what was not answered, is never   *)
(* told that it is wrong.                                                  *)
NeverBad == result # "bad"

Inv == TypeOK /\ ProgramsInOrder /\ NeverBad

(* A host that stays gets its image programmed, unless the time runs out   *)
(* on it: it is never left without either.                                 *)
DownloadDone ==
  (host = "data") ~> (result = "ok" \/ host = "gone" \/ ForceOut)

(* The bootloader goes on to boot once the host has left or was cut off,   *)
(* with its last block half sent, handed over, or being programmed.        *)
LocalEnds == (host = "gone" \/ ForceOut) ~> (at = "out")
=============================================================================

----------------------------- MODULE AudioPlay -----------------------------
(***************************************************************************)
(* Playing one WAV file through the DAC: the stream of                     *)
(* bsp/audio/src/audio_ll_drv.c, the DMA chain of                          *)
(* bsp/air105/hal/core_dac.c, and the player above them in                 *)
(* application/src/luat_audio_air105.c.                                    *)
(*                                                                         *)
(* Three actors share the list of blocks.  The Lua task starts the stream, *)
(* queues silence, decodes the first blocks, then pauses, resumes, stops.  *)
(* The DMA interrupt frees the block that was played, starts the next one  *)
(* and posts a request.  The storage task serves the requests by decoding  *)
(* more of the file.  Testing IsHardwareRun and starting the DAC is one    *)
(* step here: a block plays for an eighth of a second.                     *)
(***************************************************************************)
EXTENDS Integers, Sequences, SequencesExt

CONSTANTS
  FileBlocks,  (* how many blocks the file decodes to                      *)
  Blanks,      (* DummyAudioTime: blocks of silence before it              *)
  Ahead,       (* 3: the decoder stops when as many blocks are queued      *)
  BlockLen,    (* halfwords of a block                                     *)
  DacLimit,    (* 4090: what a single DMA block may hold                   *)
  DacChunk,    (* 4000: what a longer one is cut into                      *)
  Prompt,      (* the first blocks are decoded before one has been played  *)
  MaxPauses    (* bound on the pauses                                      *)

ASSUME AudioAssumption ==
  /\ {FileBlocks, Ahead, BlockLen, DacLimit, DacChunk} \subseteq Nat \ {0}
  /\ DacChunk <= DacLimit /\ Blanks \in Nat /\ MaxPauses \in Nat /\ Prompt \in BOOLEAN

Actors == {"lua", "storage"}

VARIABLES
  DataHead,       (* the queued blocks: 0 is silence, n the file's n-th    *)
  IsHardwareRun, IsPause, IsStop,
  waitRequire,    (* requests not served yet                               *)
  dac,            (* prvDAC: block under way, Pos, IsBusy, halfwords sent  *)
  lua,            (* the Lua task: "new", "blanks", "fill", "play", "closed" *)
  step,           (* where each actor is in luat_audio_wav_decode          *)
  chunk,          (* FileDataBuffer: the block read last, 0 for none       *)
  file,           (* blocks read from the file so far                      *)
  requests,       (* decode_run events queued for the storage task         *)
  count,          (* the storage task's register in waitRequire--          *)
  blanksLeft, pauses,
  played,         (* history: the blocks the DAC has played                *)
  done,           (* history: the last AUDIO_DONE and what had been played *)
  early           (* history: stopped with a request queued or in service  *)

control == <<IsHardwareRun, IsPause, IsStop, waitRequire>>
decoder == <<step, chunk, file, count>>
env     == <<blanksLeft, pauses>>
heard == <<played, done, early>>
audioVars == <<DataHead, control, dac, lua, decoder, requests, env, heard>>

Quiet == [block |-> 0, pos |-> 0, busy |-> FALSE, sent |-> 0]

AudioInit ==
  /\ DataHead = <<>>
  /\ IsHardwareRun = FALSE /\ IsPause = FALSE /\ IsStop = FALSE
  /\ waitRequire = 0
  /\ dac = Quiet
  /\ lua = "new"
  /\ step = [a \in Actors |-> "idle"] /\ chunk = 0 /\ file = 0
  /\ requests = 0 /\ count = 0
  /\ blanksLeft = Blanks /\ pauses = 0
  /\ played = <<>> /\ done = [told |-> FALSE, after |-> 0]
  /\ early = FALSE

-----------------------------------------------------------------------------
(* The DAC.                                                                *)

DacLevel(rest) == IF rest > DacLimit THEN DacChunk ELSE rest

(* DAC_Send: nothing while a block is under way.                           *)
Sent(d, block) ==
  IF d.busy THEN d
  ELSE [block |-> block, pos |-> DacLevel(BlockLen), busy |-> TRUE, sent |-> 0]

(* prvAudio_RunDAC.  An empty list only asks for data: where it is called  *)
(* from WriteRaw the list is not empty.                                    *)
RunDAC(queue) ==
  IF queue = <<>>
    THEN /\ requests' = requests + 1 /\ waitRequire' = waitRequire + 1
         /\ UNCHANGED <<dac, IsHardwareRun>>
    ELSE /\ dac' = Sent(dac, Head(queue)) /\ IsHardwareRun' = TRUE
         /\ UNCHANGED <<requests, waitRequire>>

(* Audio_WriteRaw, second half: start the DAC if it rests.                 *)
MayRun == ~IsHardwareRun /\ ~IsPause

Kick ==
  IF MayRun THEN RunDAC(DataHead)
  ELSE UNCHANGED <<dac, IsHardwareRun, requests, waitRequire>>

-----------------------------------------------------------------------------
(* The DMA interrupt: the hardware has played what it was given.           *)

BlockOver == dac.busy /\ dac.pos = BlockLen

MayInterrupt == dac.busy /\ (Prompt => lua \in {"play", "closed"})

(* DAC_DMADoneCB, more of the block to send.                               *)
NextChunk ==
  /\ MayInterrupt /\ ~BlockOver
  /\ LET n == DacLevel(BlockLen - dac.pos) IN
       dac' = [dac EXCEPT !.pos = @ + n, !.sent = dac.pos]
  /\ UNCHANGED <<DataHead, control, lua, decoder, requests, env, heard>>

(* prvAudio_DACCB: the block at the head goes, the next one starts, and    *)
(* the player is asked for more (luat_audio_play_cb), or told that it is   *)
(* over; a paused stream stays where it is.                                *)
AlwaysNext == TRUE          \* mutant: IsPause not looked at
GoesOn == ~IsPause

StillRun(rest) == TRUE      \* mutant: IsHardwareRun not cleared with the last block
Runs(rest) == rest # <<>> /\ GoesOn

BlockDone ==
  /\ MayInterrupt /\ BlockOver
  /\ played' = Append(played, dac.block)
  /\ DataHead' = Tail(DataHead)
  /\ LET over == [dac EXCEPT !.busy = FALSE]
         rest == Tail(DataHead) IN
       /\ dac' = IF rest # <<>> /\ GoesOn THEN Sent(over, Head(rest)) ELSE over
       /\ IsHardwareRun' = Runs(rest)
  /\ IF IsStop THEN UNCHANGED <<waitRequire, requests>>
               ELSE waitRequire' = waitRequire + 1 /\ requests' = requests + 1
  /\ done' = IF Len(DataHead) = 1 THEN [told |-> TRUE, after |-> Len(played) + 1]
                                  ELSE done
  /\ UNCHANGED <<IsPause, IsStop, lua, decoder, env, early>>

-----------------------------------------------------------------------------
(* luat_audio_wav_decode, run by the Lua task (the first blocks) and by    *)
(* the storage task (luat_audio_decode_run).                               *)

Goto(a, l) == step' = [step EXCEPT ![a] = l]

(* Is there room for another block, and anyone to play it?                 *)
Wants == Len(DataHead) < Ahead /\ ~IsStop

Test(a) ==
  /\ step[a] = "test"
  /\ IF Wants THEN Goto(a, "read") ELSE Goto(a, "over")
  /\ UNCHANGED <<DataHead, control, dac, lua, chunk, file, count, requests, env,
                 heard>>

(* Reading; nothing comes after the end of the file, or once it is closed. *)
ReadFile(a) ==
  /\ step[a] = "read"
  /\ IF file < FileBlocks /\ lua # "closed"
       THEN file' = file + 1 /\ chunk' = file + 1 /\ Goto(a, "write")
       ELSE chunk' = 0 /\ Goto(a, "over") /\ UNCHANGED file
  /\ UNCHANGED <<DataHead, control, dac, lua, count, requests, env, heard>>

QueuedFirst(queue, b) == <<b>> \o queue       \* mutant: llist_add for llist_add_tail
Queued(queue, b) == Append(queue, b)

Write(a) ==
  /\ step[a] = "write"
  /\ IF IsStop
       THEN Goto(a, "test") /\ UNCHANGED DataHead
       ELSE DataHead' = Queued(DataHead, chunk) /\ Goto(a, "kick")
  /\ UNCHANGED <<control, dac, lua, chunk, file, count, requests, env, heard>>

WriteKick(a) ==
  /\ step[a] = "kick"
  /\ Kick
  /\ Goto(a, "test")
  /\ UNCHANGED <<DataHead, IsPause, IsStop, lua, chunk, file, count, env, heard>>

(* luat_audio_decode_run.                                                  *)
Serve ==
  /\ step["storage"] = "idle" /\ requests > 0
  /\ requests' = requests - 1
  /\ Goto("storage", IF IsStop THEN "over" ELSE "test")
  /\ UNCHANGED <<DataHead, control, dac, lua, chunk, file, count, env, heard>>

(* waitRequire--: the interrupt may count between the load and the store.  *)
Load ==
  /\ step["storage"] = "over"
  /\ count' = waitRequire
  /\ Goto("storage", IF waitRequire = 0 THEN "idle" ELSE "store")
  /\ UNCHANGED <<DataHead, control, dac, lua, chunk, file, requests, env, heard>>

StoreNothing == count       \* mutant: the request is never counted down
Decremented == count - 1

StoreCount ==
  /\ step["storage"] = "store"
  /\ waitRequire' = Decremented
  /\ Goto("storage", "idle")
  /\ UNCHANGED <<DataHead, IsHardwareRun, IsPause, IsStop, dac, lua, chunk, file,
                 count, requests, env, heard>>

-----------------------------------------------------------------------------
(* The Lua task.                                                           *)

(* Audio_StartRaw.                                                         *)
StartRaw ==
  /\ lua = "new"
  /\ DataHead' = <<>> /\ dac' = Quiet
  /\ IsHardwareRun' = FALSE /\ IsPause' = FALSE
  /\ lua' = "blanks"
  /\ UNCHANGED <<IsStop, waitRequire, decoder, requests, env, heard>>

(* luat_audio_write_blank_raw: silence, put at the head of the list.       *)
WriteBlank ==
  /\ lua = "blanks" /\ blanksLeft > 0
  /\ DataHead' = <<0>> \o DataHead
  /\ IF MayRun
       THEN dac' = Sent(dac, 0) /\ IsHardwareRun' = TRUE
       ELSE UNCHANGED <<dac, IsHardwareRun>>
  /\ blanksLeft' = blanksLeft - 1
  /\ UNCHANGED <<IsPause, IsStop, waitRequire, lua, decoder, requests, pauses,
                 heard>>

(* luat_audio_play_file decodes the first blocks itself ...                *)
FirstFill ==
  /\ lua = "blanks" /\ blanksLeft = 0
  /\ lua' = "fill"
  /\ Goto("lua", "test")
  /\ UNCHANGED <<DataHead, control, dac, chunk, file, count, requests, env, heard>>

(* ... and returns.                                                        *)
FirstFilled ==
  /\ lua = "fill" /\ step["lua"] = "over"
  /\ lua' = "play"
  /\ Goto("lua", "idle")
  /\ UNCHANGED <<DataHead, control, dac, chunk, file, count, requests, env, heard>>

Pause ==
  /\ lua = "play" /\ ~IsPause /\ pauses < MaxPauses
  /\ IsPause' = TRUE /\ pauses' = pauses + 1
  /\ UNCHANGED <<DataHead, IsHardwareRun, IsStop, waitRequire, dac, lua, decoder,
                 requests, blanksLeft, heard>>

Resume ==
  /\ lua = "play" /\ IsPause
  /\ IsPause' = FALSE
  /\ IF IsHardwareRun THEN UNCHANGED <<dac, IsHardwareRun, requests, waitRequire>>
                      ELSE RunDAC(DataHead)
  /\ UNCHANGED <<DataHead, IsStop, lua, decoder, env, heard>>

(* luat_audio_play_stop tells the decoder; luat_audio_stop_raw follows     *)
(* when luat_audio_is_finish says so.                                      *)
PlayStop ==
  /\ lua = "play" /\ ~IsStop
  /\ IsStop' = TRUE
  /\ UNCHANGED <<DataHead, IsHardwareRun, IsPause, waitRequire, dac, lua, decoder,
                 requests, env, heard>>

(* What the storage task has been asked to do and has not done.            *)
Outstanding == requests + (IF step["storage"] = "idle" THEN 0 ELSE 1)

Stopped == [dac EXCEPT !.busy = FALSE]

StopRaw ==
  /\ lua = "play" /\ IsStop /\ waitRequire = 0
  /\ dac' = Stopped
  /\ DataHead' = <<>>
  /\ IsStop' = FALSE /\ waitRequire' = 0
  /\ lua' = "closed"
  /\ early' = (Outstanding > 0)
  /\ UNCHANGED <<IsHardwareRun, IsPause, decoder, requests, env, played, done>>

-----------------------------------------------------------------------------
Decode(a) == Test(a) \/ ReadFile(a) \/ Write(a) \/ WriteKick(a)
Player  == StartRaw \/ WriteBlank \/ FirstFill \/ FirstFilled
User    == Pause \/ Resume \/ PlayStop \/ StopRaw
Storage == Serve \/ Load \/ StoreCount
Hardware == NextChunk \/ BlockDone

AudioNext ==
  \/ \E a \in Actors : Decode(a)
  \/ Player \/ User \/ Storage \/ Hardware

(* The tasks run and the DAC plays; the user need not do anything.         *)
AudioFairness ==
  /\ \A a \in Actors : WF_audioVars(Decode(a))
  /\ WF_audioVars(Player) /\ WF_audioVars(Storage) /\ WF_audioVars(Hardware)

AudioSpec == AudioInit /\ [][AudioNext]_audioVars /\ AudioFairness

-----------------------------------------------------------------------------
(* Every variable has the values its type allows; no more blocks are       *)
(* queued than the silence or the reserve of the decoder.                  *)
AudioTypeOK ==
  /\ DataHead \in BoundedSeq(0..FileBlocks, Max({Blanks, Ahead}))
  /\ IsHardwareRun \in BOOLEAN /\ IsPause \in BOOLEAN /\ IsStop \in BOOLEAN
  /\ waitRequire \in Nat /\ requests \in Nat /\ count \in Nat
  /\ blanksLeft \in Nat /\ pauses \in Nat
  /\ dac.block \in 0..FileBlocks /\ dac.busy \in BOOLEAN
  /\ dac.pos \in 0..BlockLen /\ dac.sent \in 0..BlockLen
  /\ lua \in {"new", "blanks", "fill", "play", "closed"}
  /\ step \in [Actors -> {"idle", "test", "read", "write", "kick", "over", "store"}]
  /\ chunk \in 0..FileBlocks /\ file \in 0..FileBlocks

(* What comes out of the DAC is the silence and then the file, block by    *)
(* block, nothing lost and nothing twice, although the silence is put at   *)
(* the head of the list while its first block is already playing and the   *)
(* interrupt frees the head.                                               *)
PlaysTheFile ==
  \A i \in 1..Len(played) : played[i] = IF i <= Blanks THEN 0 ELSE i - Blanks

(* A stream that is not paused never rests with blocks queued, except      *)
(* while the writer that queued the first one is on its way to start it.   *)
NeverRests ==
  (DataHead # <<>> /\ ~IsPause /\ lua # "closed" /\ \A a \in Actors : step[a] # "kick")
    => dac.busy

(* No DMA transfer is longer than the hardware can count.                  *)
ChunkFits == dac.busy => dac.pos - dac.sent <= DacLimit

(* Pausing lets the block under way end; no other one starts.              *)
PauseHolds ==
  [][IsPause /\ IsPause' /\ dac'.busy => dac.busy /\ played' = played]_audioVars

(* After luat_audio_stop_raw the DAC reads no block any more and none is   *)
(* queued: they have all been freed.  It holds when the storage task was   *)
(* done with its requests; luat_audio_is_finish may say so too early.      *)
QuietAfterStop == lua = "closed" /\ ~early => ~dac.busy /\ DataHead = <<>>

(* waitRequire never claims more than the requests that are still queued   *)
(* or being served, so luat_audio_is_finish cannot stay false for good.    *)
Accounted == waitRequire <= Outstanding

AudioInv ==
  /\ AudioTypeOK /\ PlaysTheFile /\ NeverRests /\ ChunkFits
  /\ QuietAfterStop /\ Accounted

(* A stream that is neither stopped nor paused for good plays the file to  *)
(* its end, however often the decoder was late and the list ran empty.     *)
AllPlayed ==
  <>[](~IsPause /\ ~IsStop /\ lua # "closed") => <>(Len(played) = Blanks + FileBlocks)

(* The AUDIO_DONE call-back means that everything has been played          *)
(* (bsp/air105/test/test_audio.c).                                         *)
DoneMeansAll == done.told => done.after = Blanks + FileBlocks

(* The assertion in luat_audio_is_finish.                                  *)
FewRequests == waitRequire < 5
=============================================================================

------------------------------- MODULE UsbMsc -------------------------------
(***************************************************************************)
(* The USB disk: the bulk-only transport and the SCSI commands of          *)
(* bsp/usb/src/core_usb_class_msc_scsi.c over the SD card of SdhcDisk, as  *)
(* bsp/common/src/core_usb_app.c starts them.                              *)
(*                                                                         *)
(* The interrupt of the USB controller puts what arrives, and the          *)
(* completion of what was sent, into the queue of the USB task; the task   *)
(* handles one at a time, and pc is where it is when it reads the card or  *)
(* the host can come in between; a software timer restarts the device when *)
(* a read lasts too long.                                                  *)
(*                                                                         *)
(* The host is external: it sends a command, moves its data, takes the     *)
(* status, and after a stall, a status that is not its command's, or       *)
(* silence it resets the bus and sends the command again.  Lengths are in  *)
(* packets, two to a block; a command that is taken for data counts as     *)
(* one.  The residue of a status is left out: the host counts for itself.  *)
(***************************************************************************)
EXTENDS SdhcDisk

CONSTANTS
  Commands,     (* what the host sends: [op, at, n, data, tag |-> 0]       *)
  MaxCommands,  (* bound on how many                                       *)
  MaxTag,       (* enough tags to tell the commands under way apart        *)
  MaxFaults     (* bound on lost completions, hasty resets and timeouts    *)

Ops == {"read", "write", "sense", "test", "eject", "load", "lock", "unlock"}

ASSUME MscAssumption ==
  /\ Commands \subseteq [op : Ops, at : Blks, n : 1..LogBlockNbr,
                         data : Contents, tag : {0}]
  /\ MaxCommands \in Nat /\ MaxTag \in Nat /\ MaxFaults \in Nat

VARIABLES
  pMSC,      (* MSC_SCSICtrlStruct                                         *)
  ReadTimer, (* is it running?                                             *)
  events,    (* USBD_MSC_CB events of the USB task                         *)
  tx,        (* what the IN endpoint is to send                            *)
  stall,     (* does the OUT endpoint stall?                               *)
  pc,        (* where the USB task is                                      *)
  host,      (* the host: what it does, for which command, how far it is   *)
  served,    (* how many commands the host had answered                    *)
  faults     (* how often something outside went wrong                     *)

busVars == <<events, tx, stall>>

mscVars == <<pMSC, ReadTimer, busVars, pc, host, served, faults>>

vars == <<sdVars, mscVars>>

NoCommand == [op |-> "none", at |-> 0, n |-> 0, data |-> Junk, tag |-> 0]

CBWs == [op : Ops, at : Blks, n : 1..LogBlockNbr, data : Contents,
         tag : 0..MaxTag]

(* dDataLength.                                                            *)
Length(c) == CASE c.op \in {"read", "write"} -> 2 * c.n
               [] c.op = "sense" -> 1
               [] OTHER -> 0

Nothing == [kind |-> "none"]

Init ==
  /\ SdInit
  /\ pMSC = [BotState |-> "idle", CBW |-> NoCommand, CSWStatus |-> "passed",
             bStatus |-> "passed", XferTotalLen |-> 0, XferDoneLen |-> 0,
             LastXferLen |-> 0, Sense |-> FALSE, MediumState |-> "unlocked"]
  /\ ReadTimer = FALSE
  /\ events = <<>> /\ tx = Nothing /\ stall = FALSE
  /\ pc = "wait"
  /\ host = [st |-> "idle", cmd |-> NoCommand, sent |-> 0, got |-> <<>>]
  /\ served = 0 /\ faults = 0

-----------------------------------------------------------------------------
(***************************************************************************)
(* The pieces of the handlers.                                             *)
(***************************************************************************)
(* The USB task takes its next event.                                      *)
Take(kinds) ==
  /\ pc = "wait" /\ want.n = 0
  /\ events # <<>> /\ Head(events).kind \in kinds

(* prvUSB_SendCSW, from the control structure as m: what was to be sent    *)
(* before is flushed.                                                      *)
SendCSW(m) ==
  /\ pMSC' = [m EXCEPT !.bStatus = m.CSWStatus, !.BotState = "csw",
                       !.XferTotalLen = 0, !.XferDoneLen = 0,
                       !.LastXferLen = 0]
  /\ tx' = [kind |-> "csw", tag |-> m.CBW.tag, status |-> m.CSWStatus]
  /\ ReadTimer' = FALSE

(* The end ERROR_OUT of USB_MSCHandle.                                     *)
ErrorOut(m) ==
  /\ SendCSW([m EXCEPT !.CSWStatus = "failed"])
  /\ stall' = TRUE

Failed(m) == [m EXCEPT !.CSWStatus = "failed", !.Sense = TRUE]

(* The OUT endpoint after the USB_EP_STATE_ACK that follows a status other *)
(* than passed.                                                            *)
Acked == IF pMSC.bStatus = "passed" THEN stall ELSE FALSE

(* The blocks there are still to send.                                     *)
Left(m) == (m.XferTotalLen - m.XferDoneLen) \div 2

(* USB_StackTxEpData of what Read hands out; nothing is sent at once.      *)
TxData(m, rest) ==
  LET n == Len(Current(Left(m)))
  IN /\ pMSC' = [m EXCEPT !.LastXferLen = 2 * n, !.BotState = "data_in"]
     /\ IF n > 0
        THEN /\ tx' = [kind |-> "data", at |-> pos, n |-> n, sn |-> CurCacheSn]
             /\ events' = rest
        ELSE tx' = Nothing /\ events' = Append(rest, [kind |-> "in"])

-----------------------------------------------------------------------------
(***************************************************************************)
(* A packet from the host.                                                 *)
(***************************************************************************)
(* What is not a command, where one is due.                                *)
NotACommand ==
  /\ Take({"data", "empty"}) /\ pMSC.BotState \in {"idle", "csw"}
  /\ events' = Tail(events)
  /\ ErrorOut([pMSC EXCEPT !.Sense = TRUE])
  /\ UNCHANGED <<sdVars, pc, host, served, faults>>

(* A command, as prvUSB_SCSIHandleCmd finds the control structure.         *)
Command ==
  [pMSC EXCEPT !.BotState = "idle", !.CBW = Head(events).cbw,
               !.XferDoneLen = 0, !.CSWStatus = "passed"]

TakeCommand(ops) ==
  /\ Take({"cbw"}) /\ pMSC.BotState \in {"idle", "csw"}
  /\ Command.CBW.op \in ops
  /\ events' = Tail(events)

Ejected == pMSC.MediumState = "ejected"

(* Why the functions of the commands return an error at once.              *)
Refused(c) ==
  \/ c.op \in {"read", "write", "test"} /\ (Ejected \/ ~isReady)
  \/ c.op \in {"read", "write"} /\ ~InRange(c.at, c.n)
  \/ c.op = "eject" /\ pMSC.MediumState = "locked"

(* A command with data that fails gets its status twice: here, and when    *)
(* the task goes on at "again".                                            *)
FailCommand(m) ==
  /\ SendCSW(Failed(m))
  /\ pc' = IF Length(m.CBW) > 0 THEN "again" ELSE "wait"

Refuse ==
  /\ TakeCommand(Ops) /\ Refused(Command.CBW)
  /\ FailCommand(Command)
  /\ stall' = IF Command.CBW.op = "write" THEN TRUE ELSE Acked
  /\ UNCHANGED <<sdVars, host, served, faults>>

Again ==
  /\ pc = "again" /\ pc' = "wait"
  /\ ErrorOut(pMSC)
  /\ UNCHANGED <<sdVars, events, host, served, faults>>

(* Without data: prvSCSI_TestUnitReady, StartStopUnit and                  *)
(* AllowPreventRemovable.                                                  *)
Medium(op) ==
  CASE op = "eject" -> "ejected"
    [] op = "lock" -> "locked"
    [] op \in {"load", "unlock"} -> "unlocked"
    [] OTHER -> pMSC.MediumState

NoData ==
  /\ TakeCommand({"test", "eject", "load", "lock", "unlock"})
  /\ ~Refused(Command.CBW)
  /\ SendCSW([Command EXCEPT !.Sense = FALSE,
                             !.MediumState = Medium(Command.CBW.op)])
  /\ stall' = Acked
  /\ UNCHANGED <<sdVars, pc, host, served, faults>>

(* Data of its own: prvSCSI_RequestSense and prvUSB_SendBotData.           *)
SendBotData ==
  /\ TakeCommand({"sense"})
  /\ pMSC' = [Command EXCEPT !.Sense = FALSE, !.BotState = "data_in",
                             !.XferTotalLen = 1, !.LastXferLen = 1]
  /\ tx' = [kind |-> "sense"]
  /\ stall' = Acked
  /\ UNCHANGED <<sdVars, ReadTimer, pc, host, served, faults>>

(* prvSCSI_Write and USB_MSCSetToDeviceData.                               *)
WriteCommand ==
  /\ TakeCommand({"write"}) /\ ~Refused(Command.CBW)
  /\ PreWrite(Command.CBW.at, Command.CBW.n)
  /\ pMSC' = [Command EXCEPT !.Sense = FALSE, !.BotState = "data_out",
                             !.XferTotalLen = Length(Command.CBW)]
  /\ stall' = Acked
  /\ UNCHANGED <<ReadTimer, tx, pc, host, served, faults>>

(* prvSCSI_Read, until the first blocks are in the cache.                  *)
ReadCommand ==
  /\ TakeCommand({"read"}) /\ ~Refused(Command.CBW)
  /\ PreRead(Command.CBW.at, Command.CBW.n)
  /\ pMSC' = [Command EXCEPT !.XferTotalLen = Length(Command.CBW)]
  /\ stall' = Acked /\ pc' = "first"
  /\ UNCHANGED <<ReadTimer, tx, host, served, faults>>

(* The rest of it: the first blocks go out, the next are read, the timer   *)
(* is started.                                                             *)
ReadFirst ==
  /\ pc = "first" /\ want.n = 0
  /\ Read(Left(pMSC))
  /\ IF isReady
     THEN TxData(pMSC, events) /\ pc' = "next" /\ UNCHANGED <<ReadTimer, stall>>
     ELSE FailCommand(pMSC) /\ UNCHANGED <<events, stall>>
  /\ UNCHANGED <<host, served, faults>>

ReadAhead ==
  /\ pc \in {"next", "rest"}
  /\ ReadNext
  /\ pc' = IF pc = "next" THEN "start" ELSE "wait"
  /\ UNCHANGED <<pMSC, ReadTimer, busVars, host, served, faults>>

StartTimer ==
  /\ pc = "start" /\ want.n = 0 /\ pc' = "wait"
  /\ ReadTimer' = TRUE
  /\ pMSC' = [pMSC EXCEPT !.Sense = FALSE]
  /\ UNCHANGED <<sdVars, busVars, host, served, faults>>

(* prvUSB_SCSIHandleToDeviceData.                                          *)
PacketLen(e) == IF e.kind = "empty" THEN 0 ELSE 1

ToDeviceData ==
  /\ Take({"cbw", "data", "empty"}) /\ pMSC.BotState = "data_out"
  /\ events' = Tail(events)
  /\ LET e == Head(events)
         fails == e.kind # "empty" /\ (~isReady \/ EndBlock <= CurBlock)
         done == pMSC.XferDoneLen + PacketLen(e)
         m == [IF fails THEN Failed(pMSC) ELSE pMSC EXCEPT !.XferDoneLen = done]
     IN /\ IF fails \/ e.kind = "empty" THEN UNCHANGED sdVars
           ELSE Write(IF e.kind = "data" THEN e.data ELSE Junk)
        /\ IF done >= pMSC.XferTotalLen
           THEN SendCSW(m)
           ELSE pMSC' = m /\ UNCHANGED <<tx, ReadTimer>>
  /\ UNCHANGED <<stall, pc, host, served, faults>>

(* A packet while data is on its way to the host.                          *)
PhaseError ==
  /\ Take({"cbw", "data", "empty"}) /\ pMSC.BotState = "data_in"
  /\ events' = Tail(events)
  /\ SendCSW([pMSC EXCEPT !.CSWStatus = "phase"])
  /\ stall' = TRUE
  /\ UNCHANGED <<sdVars, pc, host, served, faults>>

-----------------------------------------------------------------------------
(***************************************************************************)
(* What was sent has gone.                                                 *)
(***************************************************************************)
Sent(states) ==
  /\ Take({"in"}) /\ pMSC.BotState \in states

CSWSent ==
  /\ Sent({"csw", "idle"})
  /\ events' = Tail(events)
  /\ pMSC' = [pMSC EXCEPT !.BotState = "idle"]
  /\ stall' = IF pMSC.BotState = "csw" THEN Acked ELSE stall
  /\ UNCHANGED <<sdVars, ReadTimer, tx, pc, host, served, faults>>

NothingToSend ==
  /\ Sent({"data_out"})
  /\ events' = Tail(events)
  /\ SendCSW(Failed(pMSC))
  /\ UNCHANGED <<sdVars, stall, pc, host, served, faults>>

\* Not the code: what was sent is not counted.
GoneUncounted == [pMSC EXCEPT !.LastXferLen = 0]

(* prvUSB_SCSIHandleToHostData.                                            *)
Gone == [pMSC EXCEPT !.XferDoneLen = @ + pMSC.LastXferLen]

AllSent ==
  /\ Sent({"data_in"}) /\ Gone.XferDoneLen >= Gone.XferTotalLen
  /\ events' = Tail(events)
  /\ SendCSW(Gone)
  /\ UNCHANGED <<sdVars, stall, pc, host, served, faults>>

ReadMore ==
  /\ Sent({"data_in"}) /\ Gone.XferDoneLen < Gone.XferTotalLen
  /\ Read(Left(Gone))
  /\ IF isReady
     THEN TxData(Gone, Tail(events)) /\ UNCHANGED ReadTimer
     ELSE SendCSW(Failed(Gone)) /\ events' = Tail(events)
  /\ pc' = "rest"
  /\ UNCHANGED <<stall, host, served, faults>>

UsbTask ==
  \/ NotACommand \/ Refuse \/ Again \/ NoData \/ SendBotData
  \/ WriteCommand \/ ReadCommand \/ ReadFirst \/ ReadAhead \/ StartTimer
  \/ ToDeviceData \/ PhaseError
  \/ CSWSent \/ NothingToSend \/ AllSent \/ ReadMore

-----------------------------------------------------------------------------
(***************************************************************************)
(* The timer, the bus and the host.                                        *)
(***************************************************************************)
(* The USB task has nothing to do; the host waits in vain.                 *)
Quiet == pc = "wait" /\ want.n = 0 /\ events = <<>>

InVain == Quiet /\ tx = Nothing /\ host.st \in {"in", "status"}

(* What is to be expected then is no fault.                                *)
Due(free) == IF free THEN faults' = faults
             ELSE faults < MaxFaults /\ faults' = faults + 1

(* The host begins its command from the start.                             *)
Retry == [host EXCEPT !.st = "idle", !.sent = 0, !.got = <<>>]

(* prvUSB_MSCTimeout: the device is stopped and started; USB_MSCReset.     *)
(* The events stay in the queue of the task.                               *)
TimerFires ==
  /\ ReadTimer /\ ReadTimer' = FALSE
  /\ Due(InVain)
  /\ pMSC' = [pMSC EXCEPT !.BotState = "idle", !.CBW = NoCommand,
                          !.CSWStatus = "passed", !.bStatus = "passed",
                          !.XferTotalLen = 0, !.XferDoneLen = 0,
                          !.LastXferLen = 0, !.MediumState = "unlocked"]
  /\ IF isReady THEN UNCHANGED sdVars ELSE ReInit
  /\ tx' = Nothing /\ stall' = FALSE
  /\ host' = Retry
  /\ UNCHANGED <<events, pc, served>>

(* A bus reset: the endpoints are flushed, the transport knows nothing.    *)
BusReset ==
  /\ host.st # "idle"
  /\ Due((Quiet /\ host.st = "broken") \/ (InVain /\ ~ReadTimer))
  /\ host' = Retry
  /\ tx' = Nothing /\ stall' = FALSE
  /\ UNCHANGED <<sdVars, pMSC, ReadTimer, events, pc, served>>

(* MSC_RESET, the reset of the transport, to which nothing is done.        *)
ClassReset ==
  /\ host.st # "idle"
  /\ Due(FALSE)
  /\ host' = Retry
  /\ UNCHANGED <<sdVars, pMSC, ReadTimer, busVars, pc, served>>

(* A tag no command on its way has.                                        *)
TagsInUse ==
  {pMSC.CBW.tag}
    \union {events[i].cbw.tag : i \in {j \in 1..Len(events) :
                                          events[j].kind = "cbw"}}
    \union IF tx.kind = "csw" THEN {tx.tag} ELSE {}

Fresh(tag) == tag \notin TagsInUse /\ 1..(tag - 1) \subseteq TagsInUse

(* A packet on the OUT endpoint: it is refused by a stall, and the         *)
(* interrupt that says so ends the stall and reports a packet of no length.*)
Refusal ==
  /\ stall /\ stall' = FALSE
  /\ events' = Append(events, [kind |-> "empty"])

Accepted(e) ==
  /\ ~stall /\ stall' = stall
  /\ events' = Append(events, e)

Phase(c) == CASE c.op = "write" -> "out"
              [] c.op \in {"read", "sense"} -> "in"
              [] OTHER -> "status"

HostSendsCommand ==
  /\ host.st = "idle" /\ served < MaxCommands
  /\ \E c \in IF host.cmd = NoCommand THEN Commands ELSE {host.cmd},
        tag \in 1..MaxTag :
       LET cbw == [c EXCEPT !.tag = tag]
       IN /\ Fresh(tag)
          /\ \/ /\ Accepted([kind |-> "cbw", cbw |-> cbw])
                /\ host' = [host EXCEPT !.cmd = cbw, !.st = Phase(c)]
             \/ /\ Refusal
                /\ host' = [host EXCEPT !.cmd = cbw, !.st = "broken"]
  /\ UNCHANGED <<sdVars, pMSC, ReadTimer, tx, pc, served, faults>>

HostSendsData ==
  /\ host.st = "out"
  /\ \/ /\ Accepted([kind |-> "data", data |-> host.cmd.data])
        /\ host' = [host EXCEPT !.sent = @ + 1,
                      !.st = IF host.sent + 1 = Length(host.cmd)
                             THEN "status" ELSE "out"]
     \/ /\ Refusal
        /\ host' = [host EXCEPT !.st = "status"]
  /\ UNCHANGED <<sdVars, pMSC, ReadTimer, tx, pc, served, faults>>

(* The IN endpoint is emptied; the completion reaches the task, unless an  *)
(* interrupt of the control endpoint came with it (the else if of          *)
(* prvUSB_IrqHandle).                                                      *)
TakeTx ==
  /\ tx' = Nothing
  /\ \/ events' = Append(events, [kind |-> "in"]) /\ faults' = faults
     \/ events' = events /\ Due(FALSE)
  /\ UNCHANGED <<sdVars, pMSC, ReadTimer, stall, pc>>

(* Whole: has the host all the blocks it asked for, in order?              *)
Whole == host.got = [i \in 1..host.cmd.n |-> host.cmd.at + i - 1]

HostTakesData ==
  /\ host.st = "in" /\ tx.kind \in {"data", "sense"}
  /\ LET got == IF tx.kind = "sense" THEN <<>>
                ELSE host.got \o [i \in 1..tx.n |-> tx.at + i - 1]
     IN host' = [host EXCEPT !.got = got,
                   !.st = IF tx.kind = "sense" \/ Len(got) >= host.cmd.n
                          THEN "status" ELSE "in"]
  /\ TakeTx
  /\ UNCHANGED served

(* A status of its own command ends it; a PASSED read that came short is   *)
(* read again.                                                             *)
HostTakesStatus ==
  /\ host.st \in {"in", "status"} /\ tx.kind = "csw"
  /\ IF tx.tag = host.cmd.tag /\ tx.status # "phase"
        /\ ~(tx.status = "passed" /\ host.cmd.op = "read" /\ ~Whole)
     THEN /\ host' = [Retry EXCEPT !.cmd = NoCommand]
          /\ served' = served + 1
     ELSE /\ host' = [host EXCEPT !.st = "broken"]
          /\ served' = served
  /\ TakeTx

(* Data where the status is due.                                           *)
HostTakesTooMuch ==
  /\ host.st = "status" /\ tx.kind \in {"data", "sense"}
  /\ host' = [host EXCEPT !.st = "broken"]
  /\ TakeTx
  /\ UNCHANGED served

Host ==
  \/ HostSendsCommand \/ HostSendsData
  \/ HostTakesData \/ HostTakesStatus \/ HostTakesTooMuch

Next ==
  \/ UsbTask
  \/ CardStep /\ UNCHANGED mscVars
  \/ TimerFires \/ BusReset \/ ClassReset
  \/ Host

Spec == Init /\ [][Next]_vars

(* The tasks run, the card answers, the timer runs out, and the host goes  *)
(* on or resets the bus.                                                   *)
CardReads == ReadBlocks \/ ReadGivesUp \/ \E k \in 0..CacheBlocks : ReadFails(k)

CardWrites == StartWrite \/ WriteBlocks \/ \E k \in Blks : WriteFails(k)

FairSpec ==
  /\ Spec
  /\ WF_vars(UsbTask)
  /\ WF_vars(CardReads /\ UNCHANGED mscVars)
  /\ WF_vars(CardWrites /\ UNCHANGED mscVars)
  /\ WF_vars(InVain /\ TimerFires)
  /\ WF_vars(Host)
  /\ WF_vars(Quiet /\ BusReset /\ faults' = faults)

-----------------------------------------------------------------------------
Answered == served' # served

(* A status the host accepts tells the truth: a write that passed was      *)
(* handed over whole, and a failure has left its reason to be asked for.   *)
AnswersHold ==
  [][Answered =>
       /\ tx.status = "passed" /\ host.cmd.op = "write" =>
            \A b \in host.cmd.at..(host.cmd.at + host.cmd.n - 1) :
              disk[b] = host.cmd.data
       /\ tx.status = "failed" => pMSC.Sense]_vars

(* Every command is answered in the end, and what was handed over is on    *)
(* the card unless the card refused it.                                    *)
Served ==
  <>[](/\ served = MaxCommands
       /\ \A b \in Blks \ lost : card[b] = disk[b])

(* The task and SdhcDisk agree on where a transfer is.                     *)
MidRead == pMSC.BotState = "data_in" /\ pMSC.CBW.op = "read"

ReadFits ==
  /\ pc = "first" => /\ pMSC.XferDoneLen = 0
                     /\ Left(pMSC) = EndBlock - pos
                     /\ turn = IF want.n = 0 THEN "take" ELSE "fetch"
  /\ pc = "next" => turn = "fetch" /\ want.n = 0
  /\ pc = "rest" => turn = "fetch" /\ want.n = 0
  /\ MidRead /\ pc = "wait" /\ Gone.XferDoneLen < Gone.XferTotalLen =>
       /\ Left(Gone) = EndBlock - pos
       /\ turn \in IF want.n = 0 THEN {"take", "past"} ELSE {"fetch"}

DataFits ==
  pMSC.BotState = "data_out" =>
    /\ turn = "write" /\ want.n = 0
    /\ CacheBuf.max = pMSC.XferTotalLen
    /\ Len(CacheBuf.data) <= pMSC.XferDoneLen
    /\ pMSC.XferDoneLen < pMSC.XferTotalLen
    /\ pMSC.CSWStatus = "passed" => Len(CacheBuf.data) = pMSC.XferDoneLen

Status == {"passed", "failed", "phase"}

Event ==
  [kind : {"cbw"}, cbw : CBWs] \union [kind : {"data"}, data : Contents]
    \union [kind : {"empty", "in"}]

Sending ==
  [kind : {"data"}, at : Nat, n : Nat, sn : {0, 1}]
    \union [kind : {"csw"}, tag : 0..MaxTag, status : Status]
    \union [kind : {"none", "sense"}]

Control ==
  [BotState : {"idle", "data_in", "data_out", "csw"},
   CBW : CBWs \union {NoCommand}, CSWStatus : Status, bStatus : Status,
   XferTotalLen : Nat, XferDoneLen : Nat, LastXferLen : Nat,
   Sense : BOOLEAN, MediumState : {"unlocked", "locked", "ejected"}]

MscTypeOK ==
  /\ pMSC \in Control
  /\ events \in Seq(Event) /\ tx \in Sending
  /\ ReadTimer \in BOOLEAN /\ stall \in BOOLEAN
  /\ pc \in {"wait", "again", "first", "next", "start", "rest"}
  /\ host \in [st : {"idle", "out", "in", "status", "broken"},
               cmd : CBWs \union {NoCommand}, sent : Nat, got : Seq(Nat)]
  /\ served \in Nat /\ faults \in 0..MaxFaults

(* The cache on its way to the host is not the one that is read into.      *)
CacheIsFree == tx.kind = "data" => tx.sn # CurCacheSn

Inv == MscTypeOK /\ SdInv /\ ReadFits /\ DataFits /\ CacheIsFree
=============================================================================

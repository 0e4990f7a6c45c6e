--------------------------- MODULE MC_CoreHwTimer ---------------------------
(* Small instances of CoreHwTimer.                                           *)
EXTENDS CoreHwTimer

(* Queues of pin changes, delays and call-backs.                             *)
DelayPrograms ==
  { <<"CONT", "IO", "REPEAT", "IO">>,
    <<"ONE", "CB", "IO", "ONE">> }

(* A capture of up to two edges between pin changes and a delay.             *)
CapturePrograms ==
  { <<"ONE", "SET", "CAP", "CAPEND">>,
    <<"SET", "CAP", "CAP", "CAPEND", "IO">>,
    <<"SET", "CAP", "CAPEND", "ONE">> }

AllPrograms == DelayPrograms \union CapturePrograms

(* A queue whose call-back may ask to end it.                                *)
EndPrograms == { <<"ONE", "CB", "IO">> }

(* They are queues the interpreter can take.                                 *)
ASSUME ProgramsAreClosed == CapturesClosed
=============================================================================

----------------------------- MODULE MC_CoreTask -----------------------------
(* Small instances of CoreTask.                                              *)
EXTENDS CoreTask

BothTimers == {"event", "delay"}
SmallWord == 0..(Word - 1)
=============================================================================

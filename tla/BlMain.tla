------------------------------- MODULE BlMain -------------------------------
(***************************************************************************)
(* The bootloader as main of bsp/air105/platform/bl_main.c runs it: first  *)
(* Local_Upgrade, which lets a host program the application (BlLocal),     *)
(* then Remote_Upgrade, which installs a package an application announced  *)
(* (BlUpgrade), then the application.  The two share the application's     *)
(* flash and the sector of the announcement: a host may overwrite an       *)
(* application an interrupted upgrade was in the middle of, and takes its  *)
(* announcement away; the power may fail anywhere in either.               *)
(*                                                                         *)
(* BlUpgrade's variables are the system's; BlLocal's are those of          *)
(* Local_Upgrade, and start anew with each reset.  A block the host        *)
(* programs is "wrong" for as long as its image is not complete.           *)
(***************************************************************************)
EXTENDS BlUpgrade

CONSTANTS Packets, MaxDownloads, MaxLost, Prompt  (* see BlLocal           *)

ASSUME LocalAssumption ==
  /\ Packets \in Nat \ {0}
  /\ MaxDownloads \in Nat /\ MaxLost \in Nat
  /\ Prompt \in BOOLEAN

VARIABLES
  State, FWDataBuffer, NextLzmaAddress, NextLzmaData, at, cur, other, taken,
  FinishLen, flash, ForceOut, ConnectOK, host, n, k, d, result, lost

(* The host's image fills the application.                                 *)
ImageBlocks == Sectors * Blocks
Cell(i) == <<((i - 1) \div Blocks) + 1, ((i - 1) % Blocks) + 1>>
Number(c) == (c[1] - 1) * Blocks + c[2]

L == INSTANCE BlLocal WITH Blocks <- ImageBlocks, info <- (info # "none")

ram == <<State, FWDataBuffer, NextLzmaAddress, NextLzmaData, at, cur, other,
         taken, FinishLen, ForceOut, ConnectOK, host, n, k, d, result, lost>>
mainVars == <<vars, ram, flash>>

MainInit == Init /\ L!PowerOn /\ flash = [i \in 1..ImageBlocks |-> L!Blank]

-----------------------------------------------------------------------------
(* Local_Upgrade.                                                          *)

\* What a step of Local_Upgrade makes of the application.
HostPrograms ==
  IF result' = "ok" /\ result # "ok"
  THEN /\ app' = [c \in Cells |-> "old"]
       /\ faults' = {}
  ELSE /\ app' = [c \in Cells |->
                    IF flash'[Number(c)] # flash[Number(c)] THEN "wrong"
                    ELSE app[c]]
       /\ IF app' # app \/ (info' # info /\ ~(AllOld \/ AllNew))
          THEN Fault("host")
          ELSE UNCHANGED faults

Local(A) ==
  /\ pc = "local"
  /\ info' \in {info, "none"}
  /\ A
  /\ HostPrograms
  /\ UNCHANGED <<package, pc, s, b, cuts, upgrades>>

Download == Local(L!Local_Upgrade)
HostCommands == Local(L!Command)
HostElse == Local(L!HostGoesOn \/ L!HostLeaves \/ L!BL_RunAPP)

\* Local_Upgrade returns.
LocalOut ==
  /\ pc = "local" /\ at = "out"
  /\ Goto("remote")
  /\ L!Reset
  /\ UNCHANGED <<app, info, package, s, b, faults, flash>>

\* The power fails in an erasure of either, or in neither.
CutLocal ==
  /\ pc = "local" /\ cuts < MaxCuts
  /\ cuts' = cuts + 1
  /\ \/ UNCHANGED <<app, info, flash, faults>>
     \/ /\ at \in {"erase", "take ahead"} /\ FinishLen < ImageBlocks
        /\ \E x \in {"erased", "wrong"} :
             app' = [app EXCEPT ![Cell(FinishLen + 1)] = x]
        /\ flash' = [flash EXCEPT ![FinishLen + 1] = L!Blank]
        /\ Fault("host")
        /\ UNCHANGED info
     \/ /\ at = "loop" /\ ForceOut /\ ConnectOK /\ info # "none"
        /\ info' \in {"none", "torn"}
        /\ IF AllOld \/ AllNew THEN UNCHANGED faults ELSE Fault("host")
        /\ UNCHANGED <<app, flash>>
  /\ L!Reset
  /\ UNCHANGED <<package, pc, s, b, upgrades>>

-----------------------------------------------------------------------------
(* The rest of main: a block the upgrade touches is not the host's.        *)
Remote(A) ==
  /\ pc # "local"
  /\ A
  /\ flash' = IF pc \in {"erase", "program"}
              THEN [flash EXCEPT ![Number(At)] = L!Blank]
              ELSE flash
  /\ UNCHANGED ram

Upgrades == Remote(Remote_Upgrade \/ Jump_AppRun \/ NoApp \/ Watchdog)
AppAnnounces == Remote(Announce)
CutRemote == Remote(PowerCut)

MainNext ==
  \/ Download \/ HostCommands \/ HostElse \/ LocalOut \/ CutLocal
  \/ Upgrades \/ AppAnnounces \/ CutRemote

MainSpec == MainInit /\ [][MainNext]_mainVars

(* The bootloader is sequential; a host goes on with what it began or      *)
(* leaves; once it has left, the time runs out while Local_Upgrade finds   *)
(* nothing to do.  With a host that stays it may run out at any time.      *)
MainFair ==
  /\ MainSpec
  /\ WF_mainVars(Download \/ LocalOut \/ Upgrades)
  /\ SF_mainVars(host = "gone" /\ Local(L!Timeout))
  /\ WF_mainVars(HostCommands)

-----------------------------------------------------------------------------
(* Whatever else goes on, what a host sends is programmed whole and in     *)
(* order, and it is never told that its image is wrong, though the power   *)
(* failed in the middle of the one before, or in that of an upgrade.       *)
Downloads == L!ProgramsInOrder /\ L!NeverBad

(* An announced package with a good CRC is installed, however often the    *)
(* power fails on the way and in either upgrade, unless the flash is bad,  *)
(* a sector is not compressed or a host begins a download.                 *)
InstalledAnyway ==
  (info = "good" /\ package = "good") ~>
     (pc = "run" /\ AllNew) \/ faults # {} \/ ConnectOK

(* A host that began a download is not left hanging: it gets its image     *)
(* programmed, or it is cut off, or it has left, with its last block half  *)
(* sent, handed over or being programmed, and the bootloader goes on to    *)
(* boot.  (Or the power fails, and the host has to come again.)            *)
LocalEnds ==
  (pc = "local" /\ (host \in {"data", "gone"} \/ ForceOut)) ~>
     \/ result = "ok" /\ host # "gone" /\ ~ForceOut
     \/ host = "start" /\ ~ForceOut
     \/ pc # "local"
=============================================================================

----------------------------- MODULE BlUpgrade -----------------------------
(***************************************************************************)
(* The bootloader's half of an upgrade: main and Remote_Upgrade of         *)
(* bsp/air105/platform/bl_main.c, against a power supply that may fail     *)
(* between any two steps and in the middle of an erasure or a programming. *)
(*                                                                         *)
(* What survives is the internal flash (the application's blocks and the   *)
(* sector that tells of an upgrade) and the package in the external flash. *)
(* A package is a sequence of sectors, each a run of compressed blocks.    *)
(* Local_Upgrade is here only what the rest of main sees of it (BlLocal    *)
(* has the rest): a host that connects makes it erase the sector of the    *)
(* upgrade.  The application is here what it does to the two stores: it    *)
(* announces a package (CoreOta).                                          *)
(***************************************************************************)
EXTENDS Integers

CONSTANTS
  Sectors, Blocks,  (* how many sectors, how many blocks in each           *)
  Plain,            (* the sectors a "plain" package has not compressed    *)
  MaxCuts,          (* bound on the power failures                         *)
  MaxUpgrades       (* bound on the packages announced                     *)

ASSUME BlAssumption ==
  /\ Sectors \in Nat \ {0} /\ Blocks \in Nat \ {0}
  /\ Plain \subseteq 1..Sectors
  /\ MaxCuts \in Nat /\ MaxUpgrades \in Nat

VARIABLES
  app,       (* what each block of the application holds                   *)
  info,      (* the sector at __FLASH_OTA_INFO_ADDR__                      *)
  package,   (* "bad": it has not the CRC of its head; "plain": it has, but
                there are sectors in it that are not compressed            *)
  pc, s, b,  (* where the bootloader is                                    *)
  cuts, upgrades,
  faults     (* history: what went wrong besides the power                 *)

vars == <<app, info, package, pc, s, b, cuts, upgrades, faults>>

(* A block was not read back or programmed right; a host wiped an          *)
(* announcement; a sector was not compressed.                              *)
Faults == {"flash", "host", "sector"}

Cells == (1..Sectors) \X (1..Blocks)
Contents == {"old", "new", "erased", "wrong"}

AllOld == \A c \in Cells : app[c] = "old"
AllNew == \A c \in Cells : app[c] = "new"

Init ==
  /\ app = [c \in Cells |-> "old"] /\ info = "none" /\ package = "good"
  /\ pc = "local" /\ s = 1 /\ b = 1 /\ cuts = 0 /\ upgrades = 0
  /\ faults = {}

Goto(p) == pc' = p /\ UNCHANGED <<cuts, upgrades>>
Fault(f) == faults' = faults \union {f}
At == <<s, b>>

\* Local_Upgrade hears of nobody for FW_UPGRADE_START_TIME.
Local_Upgrade ==
  /\ pc = "local"
  /\ Goto("remote")
  /\ UNCHANGED <<app, info, package, s, b, faults>>

\* A host connects, and is gone: ConnectOK.
LocalConnected ==
  /\ pc = "local"
  /\ info' = "none"
  /\ IF info = "none" THEN UNCHANGED faults ELSE Fault("host")
  /\ Goto("remote")
  /\ UNCHANGED <<app, package, s, b>>

\* Not the code: the upgrade is not announced any more once it starts.
ReadInfoOnce ==
  /\ pc = "remote"
  /\ Goto(IF info = "good" THEN "check" ELSE "boot")
  /\ info' = "none"
  /\ UNCHANGED <<app, package, s, b, faults>>

ReadInfo ==
  /\ pc = "remote"
  /\ Goto(IF info = "good" THEN "check" ELSE "boot")
  /\ UNCHANGED <<app, info, package, s, b, faults>>

\* Not the code: the package is not looked at.
CheckNothing ==
  /\ pc = "check"
  /\ Goto("sector")
  /\ s' = 1
  /\ UNCHANGED <<app, info, package, b, faults>>

\* The CRC of the whole package, before anything is erased.
CheckPackage ==
  /\ pc = "check"
  /\ Goto(IF package # "bad" THEN "sector" ELSE "ota_end")
  /\ s' = 1
  /\ UNCHANGED <<app, info, package, b, faults>>

\* The head of a sector: it must be compressed.
SectorHead ==
  /\ pc = "sector"
  /\ IF package = "plain" /\ s \in Plain
     THEN Goto("ota_end") /\ Fault("sector")
     ELSE Goto("erase") /\ UNCHANGED faults
  /\ b' = 1
  /\ UNCHANGED <<app, info, package, s>>

EraseBlock ==
  /\ pc = "erase"
  /\ app' = [app EXCEPT ![At] = "erased"]
  /\ Goto("program")
  /\ UNCHANGED <<info, package, s, b, faults>>

\* Read, uncompress, program; then the next block of the sector, if any.
ProgramBlock ==
  /\ pc = "program"
  /\ \/ app' = [app EXCEPT ![At] = "new"] /\ UNCHANGED faults
     \/ app' = [app EXCEPT ![At] = "wrong"] /\ Fault("flash")
  /\ IF b < Blocks THEN b' = b + 1 /\ Goto("erase")
     ELSE UNCHANGED b /\ Goto("check_sector")
  /\ UNCHANGED <<info, package, s>>

\* The head of a block read back is absurd: reset, and start over.
ZipHeadError ==
  /\ pc = "program"
  /\ Fault("flash")
  /\ Goto("local")
  /\ UNCHANGED <<app, info, package, s, b>>

\* Not the code: the last sector is left out.
CheckSectorShort ==
  /\ pc = "check_sector"
  /\ IF \A i \in 1..Blocks : app[<<s, i>>] = "new"
     THEN IF s + 1 < Sectors THEN s' = s + 1 /\ Goto("sector")
          ELSE UNCHANGED s /\ Goto("ota_end")
     ELSE UNCHANGED s /\ Goto("ota_end")
  /\ UNCHANGED <<app, info, package, b, faults>>

\* The CRC of what was programmed; then the next sector, if any.
CheckSector ==
  /\ pc = "check_sector"
  /\ IF \A i \in 1..Blocks : app[<<s, i>>] = "new"
     THEN IF s < Sectors THEN s' = s + 1 /\ Goto("sector")
          ELSE UNCHANGED s /\ Goto("ota_end")
     ELSE UNCHANGED s /\ Goto("ota_end")
  /\ UNCHANGED <<app, info, package, b, faults>>

\* Not the code: the announcement stays when the upgrade is over.
EndKept ==
  /\ pc = "ota_end"
  /\ Goto("check")
  /\ UNCHANGED <<app, info, package, s, b, faults>>

\* OTA_END: whatever the outcome, the upgrade is not tried again.
EndUpgrade ==
  /\ pc = "ota_end"
  /\ info' = "none"
  /\ Goto("boot")
  /\ UNCHANGED <<app, package, s, b, faults>>

\* The first block starts with the magic number, unless it is erased.
HasMagic == app[<<1, 1>>] \in {"old", "new", "wrong"}
LacksMagic == app[<<1, 1>>] \in {"erased", "wrong"}

Jump_AppRun ==
  /\ pc = "boot" /\ HasMagic
  /\ Goto("run")
  /\ UNCHANGED <<app, info, package, s, b, faults>>

\* goto LOCAL_UPGRADE_START with ForceOut still set: no window for a host,
\* and nobody feeds the watchdog.
NoApp ==
  /\ pc = "boot" /\ LacksMagic
  /\ Goto("spin")
  /\ UNCHANGED <<app, info, package, s, b, faults>>

Watchdog ==
  /\ pc = "spin"
  /\ Goto("local")
  /\ UNCHANGED <<app, info, package, s, b, faults>>

\* The application announces a package and restarts.
Announce ==
  /\ pc = "run" /\ upgrades < MaxUpgrades
  /\ upgrades' = upgrades + 1
  /\ app' = [c \in Cells |-> IF app[c] = "new" THEN "old" ELSE app[c]]
  /\ package' \in {"good", "bad", "plain"}
  /\ info' = "good"
  /\ pc' = "local"
  /\ UNCHANGED <<s, b, cuts, faults>>

\* An operation on the flash cut short leaves it at one end or the other,
\* or neither.
PowerCut ==
  /\ cuts < MaxCuts
  /\ cuts' = cuts + 1
  /\ pc' = "local"
  /\ \/ app' = app /\ info' = info
     \/ /\ pc \in {"erase", "program"}
        /\ \E x \in {"erased", "wrong"} : app' = [app EXCEPT ![At] = x]
        /\ info' = info
     \/ /\ pc = "ota_end"
        /\ info' \in {"none", "torn"}
        /\ app' = app
  /\ UNCHANGED <<package, s, b, upgrades, faults>>

Remote_Upgrade ==
  \/ ReadInfo \/ CheckPackage \/ SectorHead \/ EraseBlock \/ ProgramBlock
  \/ ZipHeadError \/ CheckSector \/ EndUpgrade

Boots == Local_Upgrade \/ Remote_Upgrade \/ Jump_AppRun \/ NoApp \/ Watchdog

Next == Boots \/ LocalConnected \/ Announce \/ PowerCut

Spec == Init /\ [][Next]_vars

(* The bootloader is sequential and the power comes back.                  *)
FairSpec == Spec /\ WF_vars(Boots)

-----------------------------------------------------------------------------
TypeOK ==
  /\ app \in [Cells -> Contents]
  /\ info \in {"none", "good", "torn"} /\ package \in {"good", "bad", "plain"}
  /\ pc \in {"local", "remote", "check", "sector", "erase", "program",
             "check_sector", "ota_end", "boot", "run", "spin"}
  /\ s \in 1..Sectors /\ b \in 1..Blocks
  /\ cuts \in 0..MaxCuts /\ upgrades \in 0..MaxUpgrades
  /\ faults \subseteq Faults

Whole == AllOld \/ AllNew

(* Wherever the power may fail: while the application is neither the old   *)
(* nor the new one, the sector that makes the next boot start over is      *)
(* there, and so is the package (Remote_Upgrade erases it last), unless    *)
(* the flash, a host or a sector that is not compressed spoilt it.         *)
Restarts == info = "good" /\ package # "bad"
DamageIsCovered == faults = {} => Whole \/ Restarts

(* The bootloader works only for a package it has found announced and      *)
(* good.                                                                   *)
Busy == {"sector", "erase", "program", "check_sector"}

Announced ==
  /\ pc \in Busy \union {"check", "ota_end"} => info = "good"
  /\ pc \in Busy => package # "bad"

(* The sectors before s are new, and the blocks before b of sector s; after *)
(* the last one, the whole of it.                                          *)
Progress ==
  /\ pc \in Busy =>
       \A i \in 1..Sectors, j \in 1..Blocks : i < s => app[<<i, j>>] = "new"
  /\ pc \in {"erase", "program"} =>
       \A j \in 1..Blocks : j < b => app[<<s, j>>] = "new"
  /\ pc = "check_sector" => \A j \in 1..Blocks : app[<<s, j>>] = "new"
  /\ pc \in {"ota_end", "boot", "run", "spin"} => Whole

(* What is true wherever the bootloader is.  A power failure makes what    *)
(* Progress says void; DamageIsCovered is what is left of it.              *)
Inv ==
  /\ TypeOK /\ Announced
  /\ faults = {} => Progress
  /\ DamageIsCovered

(* The bootloader never jumps into an application that is a mixture of two *)
(* or has a hole, whatever the power does.                                 *)
RunsWhole == faults = {} /\ pc = "run" => Whole

(* "CRC of the uncompressed data, here checks that the programming is      *)
(* correct" (bsp_common.h:61): what was programmed wrong is not run.       *)
RunsOnlyWhole == pc = "run" => Whole

(* An announced package with a good CRC is installed, however often the    *)
(* power fails on the way, unless one of the faults comes in between.      *)
Installed ==
  (info = "good" /\ package = "good") ~> (pc = "run" /\ AllNew) \/ faults # {}

(* "If equal to TotalLen, not compressed" (bsp_common.h:58): such a package *)
(* is installed like any other.                                            *)
PlainInstalled ==
  (info = "good" /\ package = "plain") ~>
    (pc = "run" /\ AllNew) \/ faults \ {"sector"} # {}

(* Unless a host programs it, the bootloader erases or programs a block of *)
(* the application only for a package that was announced and has the CRC   *)
(* of its head: a download gone wrong never costs the application that     *)
(* runs.                                                                   *)
BadPackageHarmless ==
  [][app' = app \/ pc \in {"run", "local"} \/ Restarts]_vars
=============================================================================

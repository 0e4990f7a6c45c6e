--------------------------- MODULE BlMain_proofs ---------------------------
(***************************************************************************)
(* The bootloader, for any number of sectors, blocks, packets, downloads,  *)
(* upgrades and power failures.                                            *)
(*                                                                         *)
(* First its second half alone, of BlUpgrade: it touches the application   *)
(* only for a good package, and runs only a whole application.  That needs *)
(* what Progress says: which blocks are new already, by where the          *)
(* bootloader is.  A power failure makes that knowledge void, and          *)
(* DamageIsCovered is what is left of it.                                  *)
(*                                                                         *)
(* Then the whole, with a host that may come and go whenever Local_Upgrade *)
(* runs, and the same invariant.  A step of the second half is a step of   *)
(* BlUpgrade; a step of Local_Upgrade leaves the application and the       *)
(* announcement as they are, or is recorded as the host's doing, or        *)
(* completes its image, and then the application is whole.                 *)
(***************************************************************************)
EXTENDS BlMain, Sequences, TLAPS

TypeInv == TypeOK /\ Announced

-----------------------------------------------------------------------------
LEMMA InitTypeInv == Init => TypeInv
  BY BlAssumption DEF BlAssumption, Init, TypeInv, TypeOK, Announced, Busy,
                      Contents, Cells

(* The history of the faults.                                              *)
LEMMA FaultsGrow ==
  [Next]_vars => \/ faults' = faults
                 \/ \E f \in Faults : faults' = faults \union {f}
  BY DEF Next, vars, Boots, Remote_Upgrade, Local_Upgrade, LocalConnected,
         ReadInfo, CheckPackage, SectorHead, EraseBlock, ProgramBlock,
         ZipHeadError, CheckSector, EndUpgrade, Jump_AppRun, NoApp, Watchdog,
         Announce, PowerCut, Fault, Faults

LEMMA NextTypeInv == TypeInv /\ [Next]_vars => TypeInv'
<1> SUFFICES ASSUME TypeInv, [Next]_vars PROVE TypeInv'
  OBVIOUS
<1> USE BlAssumption DEF BlAssumption, TypeInv, Announced, Busy
<1>f. faults' \subseteq Faults
  <2>1. faults \subseteq Faults
    BY DEF TypeOK
  <2>2. \/ faults' = faults
        \/ \E f \in Faults : faults' = faults \union {f}
    BY FaultsGrow
  <2> QED BY <2>1, <2>2
<1>0. \A x \in Contents : [app EXCEPT ![At] = x] \in [Cells -> Contents]
  BY DEF TypeOK
<1>1. CASE Local_Upgrade
  BY <1>f, <1>1 DEF TypeOK, Local_Upgrade, Goto
<1>2. CASE LocalConnected
  BY <1>f, <1>2 DEF TypeOK, LocalConnected, Goto
<1>3. CASE ReadInfo
  BY <1>f, <1>3 DEF TypeOK, ReadInfo, Goto
<1>4. CASE CheckPackage
  <2>1. TypeOK'
    BY <1>f, <1>4 DEF TypeOK, CheckPackage, Goto
  <2>2. Announced'
    BY <1>f, <1>4 DEF CheckPackage, Goto
  <2>3. QED
    BY <2>1, <2>2
<1>5. CASE SectorHead
  <2>1. TypeOK'
    BY <1>f, <1>5 DEF TypeOK, SectorHead, Goto
  <2>2. Announced'
    BY <1>f, <1>5 DEF SectorHead, Goto
  <2>3. QED
    BY <2>1, <2>2
<1>6. CASE EraseBlock
  BY <1>f, <1>0, <1>6 DEF TypeOK, EraseBlock, Goto, Contents
<1>7. CASE ProgramBlock
  <2>1. app' \in [Cells -> Contents]
    BY <1>f, <1>0, <1>7 DEF ProgramBlock, Contents
  <2>2. b' \in 1..Blocks
    BY <1>f, <1>7 DEF TypeOK, ProgramBlock, Goto
  <2>3. TypeOK'
    BY <1>f, <2>1, <2>2, <1>7 DEF TypeOK, ProgramBlock, Goto
  <2>4. Announced'
    BY <1>f, <1>7 DEF ProgramBlock, Goto
  <2>5. QED
    BY <2>3, <2>4
<1>8. CASE ZipHeadError
  BY <1>f, <1>8 DEF TypeOK, ZipHeadError, Goto
<1>9. CASE CheckSector
  <2>1. s' \in 1..Sectors
    BY <1>f, <1>9 DEF TypeOK, CheckSector, Goto
  <2>2. TypeOK'
    BY <1>f, <2>1, <1>9 DEF TypeOK, CheckSector, Goto
  <2>3. Announced'
    BY <1>f, <1>9 DEF CheckSector, Goto
  <2>4. QED
    BY <2>2, <2>3
<1>10. CASE EndUpgrade
  BY <1>f, <1>10 DEF TypeOK, EndUpgrade, Goto
<1>11. CASE Jump_AppRun \/ NoApp \/ Watchdog
  BY <1>f, <1>11 DEF TypeOK, Jump_AppRun, NoApp, Watchdog, Goto
<1>12. CASE Announce
  <2>1. app' \in [Cells -> Contents]
    BY <1>f, <1>12 DEF Announce, TypeOK, Contents
  <2>2. QED
    BY <1>f, <2>1, <1>12 DEF TypeOK, Announce
<1>13. CASE PowerCut
  <2>1. app' \in [Cells -> Contents]
    BY <1>f, <1>0, <1>13 DEF PowerCut, TypeOK, Contents
  <2>2. cuts' \in 0..MaxCuts /\ info' \in {"none", "good", "torn"}
    BY <1>f, <1>13 DEF TypeOK, PowerCut
  <2>3. TypeOK'
    BY <1>f, <2>1, <2>2, <1>13 DEF TypeOK, PowerCut
  <2>4. Announced'
    BY <1>f, <1>13 DEF PowerCut
  <2>5. QED
    BY <2>3, <2>4
<1>14. CASE UNCHANGED vars
  BY <1>f, <1>14 DEF TypeOK, vars, Cells
<1>15. QED
  BY <1>1, <1>2, <1>3, <1>4, <1>5, <1>6, <1>7, <1>8, <1>9, <1>10, <1>11,
     <1>12, <1>13, <1>14 DEF Next, Boots, Remote_Upgrade

(* The types of the model, and that the bootloader works only for a good   *)
(* package.                                                                *)
THEOREM TypeCorrect == Spec => []TypeOK
<1>1. TypeInv => TypeOK
  BY DEF TypeInv
<1> QED
  BY <1>1, InitTypeInv, NextTypeInv, PTL DEF Spec

LEMMA BadPackageStep ==
  TypeInv /\ [Next]_vars =>
    [app' = app \/ pc \in {"run", "local"} \/ Restarts]_vars
<1> SUFFICES ASSUME TypeInv, Next, app' # app, pc \notin {"run", "local"}
             PROVE  Restarts
  BY DEF vars
<1>1. pc \in Busy \/ PowerCut
  BY DEF Next, Boots, Remote_Upgrade, Local_Upgrade, LocalConnected,
         ReadInfo, CheckPackage, SectorHead, EraseBlock, ProgramBlock,
         ZipHeadError, CheckSector, EndUpgrade, Jump_AppRun, NoApp,
         Watchdog, Announce, Busy
<1>2. pc \in Busy
  BY <1>1 DEF PowerCut, Busy
<1>3. QED
  BY <1>2 DEF TypeInv, Announced, Restarts

(* Nothing is erased or programmed for a package that was not announced or *)
(* is damaged, whatever a host does and however bad the flash.             *)
THEOREM Harmless == Spec => BadPackageHarmless
  BY InitTypeInv, NextTypeInv, BadPackageStep, PTL
     DEF Spec, BadPackageHarmless

-----------------------------------------------------------------------------
LEMMA InitInv == Init => Inv
<1>1. Init => Progress /\ DamageIsCovered
  BY DEF Init, Progress, DamageIsCovered, Whole, AllOld, Busy
<1> QED
  BY <1>1, InitTypeInv DEF Inv, TypeInv

(* A whole application starts with the magic number.                       *)
LEMMA WholeHasMagic == Whole => ~LacksMagic
<1>1. <<1, 1>> \in Cells
  BY BlAssumption DEF BlAssumption, Cells
<1> QED
  BY <1>1 DEF Whole, AllOld, AllNew, LacksMagic

LEMMA NextInv == Inv /\ [Next]_vars => Inv'
<1> SUFFICES ASSUME Inv, [Next]_vars PROVE Inv'
  OBVIOUS
<1>0. TypeInv /\ TypeInv' /\ TypeOK
  BY NextTypeInv DEF Inv, TypeInv
<1>p. CASE faults' # {}
  BY <1>0, <1>p DEF Inv, TypeInv, DamageIsCovered
<1>q. SUFFICES ASSUME faults' = {}
               PROVE  Progress' /\ (Whole \/ Restarts)'
  BY <1>0, <1>p DEF Inv, TypeInv, DamageIsCovered
<1>r. faults = {} /\ Progress /\ (Whole \/ Restarts)
  BY <1>q, FaultsGrow DEF Inv, DamageIsCovered
<1>s. \A f : ~Fault(f)
  BY <1>q DEF Fault
<1>t. /\ Sectors \in Nat \ {0} /\ Blocks \in Nat \ {0}
      /\ s \in 1..Sectors /\ b \in 1..Blocks
  BY <1>0, BlAssumption DEF BlAssumption, TypeOK
<1>1. CASE Local_Upgrade \/ LocalConnected \/ ReadInfo \/ CheckPackage
  BY <1>r, <1>0, <1>s, <1>1, <1>t
     DEF Progress, Restarts, Whole, AllOld, AllNew, Busy,
         Local_Upgrade, LocalConnected, ReadInfo, CheckPackage, Goto
<1>2. CASE SectorHead
  BY <1>r, <1>s, <1>0, <1>2, <1>t
     DEF Progress, Restarts, Whole, AllOld, AllNew, Busy,
         SectorHead, Goto
<1>3. CASE EraseBlock
  <2>1. info = "good" /\ package # "bad" /\ (Whole \/ Restarts)'
    BY <1>r, <1>0, <1>3 DEF TypeInv, Announced, Busy, EraseBlock, Restarts
  <2>2. \A c \in Cells : c # At => app'[c] = app[c]
    BY <1>0, <1>3 DEF EraseBlock, TypeOK
  <2>3. Progress'
    BY <1>r, <2>2, <1>3, <1>t
       DEF Progress, EraseBlock, Goto, Busy, At, Cells
  <2>4. QED
    BY <2>1, <2>3
<1>4. CASE ProgramBlock
  <2>1. info = "good" /\ package # "bad" /\ (Whole \/ Restarts)'
    BY <1>r, <1>0, <1>4 DEF TypeInv, Announced, Busy, ProgramBlock, Restarts
  <2>2. app' = [app EXCEPT ![At] = "new"]
    BY <1>s, <1>4 DEF ProgramBlock
  <2>3. At \in Cells
    BY <1>t DEF At, Cells
  <2>4. /\ app'[At] = "new"
        /\ \A c \in Cells : c # At => app'[c] = app[c]
    BY <1>0, <2>2, <2>3 DEF TypeOK
  <2>5. CASE b < Blocks
    <3>1. pc' = "erase" /\ b' = b + 1 /\ s' = s /\ pc = "program"
      BY <1>4, <2>5 DEF ProgramBlock, Goto
    <3>2. QED
      BY <1>r, <2>1, <2>4, <3>1, <1>t DEF Progress, Busy, At, Cells
  <2>6. CASE ~(b < Blocks)
    <3>1. pc' = "check_sector" /\ b' = b /\ s' = s /\ pc = "program"
      BY <1>4, <2>6 DEF ProgramBlock, Goto
    <3>2. \A j \in 1..Blocks : j < b \/ j = b
      BY <2>6, <1>t
    <3>3. QED
      BY <1>r, <2>1, <2>4, <3>1, <3>2, <1>t DEF Progress, Busy, At, Cells
  <2>7. QED
    BY <2>5, <2>6
<1>5. CASE CheckSector
  <2>1. app' = app /\ (Whole \/ Restarts)'
    BY <1>r, <1>5 DEF CheckSector, Restarts, Whole, AllOld, AllNew,
                Goto
  <2>2. CASE s < Sectors
    <3>1. pc' = "sector" /\ s' = s + 1 /\ pc = "check_sector"
      BY <1>r, <1>5, <2>2 DEF CheckSector, Goto, Progress
    <3>2. \A i \in 1..Sectors : i < s' => i < s \/ i = s
      BY <3>1, <1>t
    <3>3. QED
      BY <1>r, <2>1, <3>1, <3>2 DEF Progress, Busy
  <2>3. CASE ~(s < Sectors)
    <3>1. pc' = "ota_end" /\ pc = "check_sector"
      BY <1>5, <2>3 DEF CheckSector, Goto
    <3>2. \A i \in 1..Sectors : i < s \/ i = s
      BY <2>3, <1>t
    <3>3. \A i \in 1..Sectors, j \in 1..Blocks : app[<<i, j>>] = "new"
      BY <1>r, <3>1, <3>2 DEF Progress, Busy
    <3>4. AllNew'
      BY <2>1, <3>3 DEF AllNew, Cells
    <3>5. QED
      BY <2>1, <3>1, <3>4 DEF Progress, Busy, Whole
  <2>4. QED
    BY <2>2, <2>3
<1>6. CASE EndUpgrade \/ Jump_AppRun
  BY <1>r, <1>6 DEF Progress, Restarts, Whole, AllOld, AllNew, Busy,
              EndUpgrade, Jump_AppRun, Goto
<1>7. CASE NoApp \/ Watchdog
  BY <1>r, <1>7, WholeHasMagic
     DEF Progress, Restarts, Whole, AllOld, AllNew, Busy,
         NoApp, Watchdog, Goto
<1>8. CASE Announce
  <2>1. Whole
    BY <1>r, <1>8 DEF Progress, Announce
  <2>2. AllOld'
    BY <1>r, <1>8, <2>1 DEF Announce, AllOld, AllNew, Whole
  <2>3. QED
    BY <1>8, <2>2 DEF Announce, Progress, Busy, Restarts, Whole
<1>9. CASE PowerCut
  <2>1. Progress'
    BY <1>9 DEF PowerCut, Progress, Busy
  <2>2. package' = package
    BY <1>9 DEF PowerCut
  <2>3. CASE app' = app /\ info' = info
    BY <1>r, <2>1, <2>2, <2>3 DEF Restarts, Whole, AllOld, AllNew
  <2>4. CASE pc \in {"erase", "program"} /\ info' = info
    BY <1>r, <1>0, <2>1, <2>2, <2>4 DEF TypeInv, Announced, Busy, Restarts
  <2>5. CASE pc = "ota_end" /\ app' = app
    BY <1>r, <2>1, <2>5 DEF Progress, Restarts, Whole, AllOld, AllNew
  <2>6. \/ app' = app /\ info' = info
        \/ pc \in {"erase", "program"} /\ info' = info
        \/ pc = "ota_end" /\ app' = app
    BY <1>9 DEF PowerCut
  <2>7. QED
    BY <2>3, <2>4, <2>5, <2>6
<1>10. CASE ZipHeadError
  BY <1>s, <1>10 DEF ZipHeadError
<1>11. CASE UNCHANGED vars
  BY <1>r, <1>11
     DEF vars, Progress, Restarts, Whole, AllOld, AllNew, Busy
<1>12. QED
  BY <1>1, <1>2, <1>3, <1>4, <1>5, <1>6, <1>7, <1>8, <1>9, <1>10, <1>11
     DEF Next, Boots, Remote_Upgrade

(* As long as the flash holds what it is given, packages are compressed    *)
(* throughout and no host wipes an announcement, an application that is    *)
(* half new is always covered by an announced, good package.               *)
THEOREM Covered == Spec => []Inv
  BY InitInv, NextInv, PTL DEF Spec

(* ... and what the bootloader jumps into is a whole application.          *)
THEOREM WholeOrNothing == Spec => []RunsWhole
<1>1. Inv => RunsWhole
  BY DEF Inv, Progress, RunsWhole
<1> QED
  BY <1>1, InitInv, NextInv, PTL DEF Spec

-----------------------------------------------------------------------------
(***************************************************************************)
(* The whole bootloader.                                                   *)
(***************************************************************************)
(* What a step of Local_Upgrade, or a power failure in it, may do to what  *)
(* the two halves share.                                                   *)
HostStep ==
  /\ pc = "local" /\ pc' \in {"local", "remote"}
  /\ UNCHANGED <<package, s, b, upgrades>>
  /\ cuts' \in 0..MaxCuts
  /\ app' \in [Cells -> Contents]
  /\ info' \in {info, "none", "torn"}
  /\ \/ faults' = {} /\ app' = [c \in Cells |-> "old"]
     \/ faults' = faults \union {"host"}
     \/ /\ faults' = faults /\ app' = app
        /\ info' = info \/ AllOld \/ AllNew

LEMMA LocalIsHostStep ==
  ASSUME NEW ACTION A, TypeOK, Local(A) PROVE HostStep
<1>1. /\ pc = "local" /\ UNCHANGED <<pc, package, s, b, cuts, upgrades>>
      /\ info' \in {info, "none"} /\ HostPrograms
  BY DEF Local
<1>2. cuts' \in 0..MaxCuts
  BY <1>1 DEF TypeOK
<1>3. CASE result' = "ok" /\ result # "ok"
  <2>1. app' = [c \in Cells |-> "old"] /\ faults' = {}
    BY <1>1, <1>3 DEF HostPrograms
  <2>2. app' \in [Cells -> Contents]
    BY <2>1 DEF Contents
  <2>3. QED
    BY <1>1, <1>2, <2>1, <2>2 DEF HostStep
<1>4. CASE ~(result' = "ok" /\ result # "ok")
  <2>1. /\ app' = [c \in Cells |->
                     IF flash'[Number(c)] # flash[Number(c)] THEN "wrong"
                     ELSE app[c]]
        /\ IF app' # app \/ (info' # info /\ ~(AllOld \/ AllNew))
           THEN Fault("host")
           ELSE UNCHANGED faults
    BY <1>1, <1>4 DEF HostPrograms
  <2>2. app' \in [Cells -> Contents]
    BY <2>1 DEF TypeOK, Contents
  <2>3. QED
    BY <1>1, <1>2, <2>1, <2>2 DEF HostStep, Fault
<1>5. QED
  BY <1>3, <1>4

LEMMA OutIsHostStep ==
  ASSUME TypeOK, LocalOut PROVE HostStep
  BY DEF TypeOK, LocalOut, HostStep, Goto

LEMMA CutIsHostStep ==
  ASSUME TypeOK, CutLocal PROVE HostStep
<1>1. /\ pc = "local" /\ UNCHANGED <<pc, package, s, b, upgrades>>
      /\ cuts < MaxCuts /\ cuts' = cuts + 1
  BY DEF CutLocal
<1>2. cuts' \in 0..MaxCuts
  BY <1>1, BlAssumption DEF TypeOK, BlAssumption
<1>3. CASE UNCHANGED <<app, info, flash, faults>>
  BY <1>1, <1>2, <1>3 DEF HostStep, TypeOK
<1>4. ASSUME NEW x \in {"erased", "wrong"},
             app' = [app EXCEPT ![Cell(FinishLen + 1)] = x],
             Fault("host"), UNCHANGED info
      PROVE  HostStep
  <2>1. app' \in [Cells -> Contents]
    BY <1>4 DEF TypeOK, Contents
  <2>2. QED
    BY <1>1, <1>2, <1>4, <2>1 DEF HostStep, Fault
<1>5. CASE /\ info' \in {"none", "torn"}
           /\ IF AllOld \/ AllNew THEN UNCHANGED faults ELSE Fault("host")
           /\ UNCHANGED <<app, flash>>
  BY <1>1, <1>2, <1>5 DEF HostStep, TypeOK, Fault
<1>6. QED
  BY <1>3, <1>4, <1>5 DEF CutLocal

(* Such a step keeps what is true of the bootloader.                       *)
LEMMA HostStepInv == Inv /\ HostStep => Inv'
<1> SUFFICES ASSUME Inv, HostStep PROVE Inv'
  OBVIOUS
<1>1. TypeOK /\ pc' \notin Busy \union {"check", "ota_end", "boot", "run", "spin"}
  BY DEF Inv, HostStep, Busy
<1>2. TypeOK'
  <2>1. faults' \subseteq Faults
    BY <1>1 DEF HostStep, TypeOK, Faults
  <2>2. QED
    BY <1>1, <2>1 DEF HostStep, TypeOK
<1>3. Announced' /\ Progress'
  BY <1>1 DEF Announced, Progress, Busy
<1>4. DamageIsCovered'
  <2>1. CASE faults' = {} /\ app' = [c \in Cells |-> "old"]
    BY <2>1 DEF DamageIsCovered, Whole, AllOld
  <2>2. CASE faults' = faults \union {"host"}
    BY <2>2 DEF DamageIsCovered
  <2>3. CASE faults' = faults /\ app' = app /\ (info' = info \/ AllOld \/ AllNew)
    BY <2>3 DEF Inv, DamageIsCovered, HostStep, Whole, AllOld, AllNew, Restarts
  <2>4. QED
    BY <2>1, <2>2, <2>3 DEF HostStep
<1>5. QED
  BY <1>2, <1>3, <1>4 DEF Inv

LEMMA MainStep ==
  ASSUME TypeOK, [MainNext]_mainVars
  PROVE  HostStep \/ (Next /\ pc # "local") \/ UNCHANGED vars
<1>1. CASE Download \/ HostCommands \/ HostElse
  BY <1>1, LocalIsHostStep DEF Download, HostCommands, HostElse
<1>2. CASE LocalOut \/ CutLocal
  BY <1>2, OutIsHostStep, CutIsHostStep
<1>3. CASE Upgrades \/ AppAnnounces \/ CutRemote
  BY <1>3 DEF Upgrades, AppAnnounces, CutRemote, Remote, Next, Boots
<1>4. CASE UNCHANGED mainVars
  BY <1>4 DEF mainVars
<1>5. QED
  BY <1>1, <1>2, <1>3, <1>4 DEF MainNext

LEMMA MainNextInv == Inv /\ [MainNext]_mainVars => Inv'
<1> SUFFICES ASSUME Inv, [MainNext]_mainVars PROVE Inv'
  OBVIOUS
<1>1. TypeOK
  BY DEF Inv
<1>2. CASE HostStep
  BY <1>2, HostStepInv
<1>3. CASE [Next]_vars
  BY <1>3, NextInv
<1>4. QED
  BY <1>1, <1>2, <1>3, MainStep

(* An application that is half new is always covered by an announced, good *)
(* package, however often the power fails, in the host's download too,     *)
(* unless the flash is bad or a host broke its download off or took the    *)
(* announcement away; a download that is complete makes up for it.         *)
THEOREM MainCovered == MainSpec => []Inv
<1>1. MainInit => Inv
  BY InitInv DEF MainInit
<1> QED
  BY <1>1, MainNextInv, PTL DEF MainSpec

(* What the bootloader jumps into is then a whole application.             *)
THEOREM MainRunsWhole == MainSpec => []RunsWhole
<1>1. Inv => RunsWhole
  BY DEF Inv, Progress, RunsWhole
<1> QED
  BY <1>1, MainCovered, PTL

(* Whatever a host does and however bad the flash, Remote_Upgrade erases   *)
(* or programs nothing for a package that was not announced or is damaged. *)
THEOREM MainHarmless == MainSpec => BadPackageHarmless
<1>1. Inv /\ [MainNext]_mainVars =>
        [app' = app \/ pc \in {"run", "local"} \/ Restarts]_vars
  <2> SUFFICES ASSUME Inv, [MainNext]_mainVars, app' # app,
                      pc \notin {"run", "local"}
               PROVE  Restarts
    BY DEF vars
  <2>1. TypeInv /\ Next
    BY MainStep DEF Inv, TypeInv, HostStep, vars
  <2>2. [app' = app \/ pc \in {"run", "local"} \/ Restarts]_vars
    BY <2>1, BadPackageStep
  <2>3. QED
    BY <2>2 DEF vars
<1>2. MainInit => Inv
  BY InitInv DEF MainInit
<1>3. QED
  BY <1>1, <1>2, MainNextInv, PTL DEF MainSpec, BadPackageHarmless
-----------------------------------------------------------------------------
(***************************************************************************)
(* Local_Upgrade: what the host is told.  A block goes from the buffer of  *)
(* the interrupt to the slot, from there to one of the two caches and to   *)
(* the flash.  What is on that way are the blocks of the image in their    *)
(* order, so that their number says which one is where; the host, with     *)
(* answers lost, is at most a packet behind.                               *)
(***************************************************************************)
Over == State = "IDLE" \/ at = "answered"
Starting == State = "START" \/ at = "started"
Loading == ~Over /\ ~Starting

(* The buffer holds the first packets of block m.                          *)
Pieces(m) == FWDataBuffer = [i \in 1..NextLzmaAddress |-> <<d, m, i>>]

(* The blocks that left the slot for the cache in use, that left the slot, *)
(* and that left the buffer.                                               *)
InWork == at \in {"block", "erase", "take ahead", "done"}
Taken == FinishLen + (IF InWork THEN 1 ELSE 0)
Unpacked == Taken + (IF other # <<>> THEN 1 ELSE 0)
Handed == Unpacked + (IF NextLzmaData # <<>> THEN 1 ELSE 0)

LocalTypes ==
  /\ State \in {"IDLE", "START", "RUN", "WAIT_END"}
  /\ NextLzmaAddress \in 0..Packets
  /\ at \in {"loop", "started", "take", "take ahead", "block", "erase", "done",
             "check", "answered", "test", "out"}
  /\ FinishLen \in Nat
  /\ flash = [i \in 1..ImageBlocks |-> flash[i]]
  /\ host \in {"start", "data", "end", "wait", "gone"}
  /\ n \in 1..ImageBlocks /\ k \in 0..Packets

(* No download goes on.                                                    *)
Quiet ==
  Over =>
    /\ FWDataBuffer = <<>> /\ NextLzmaAddress = 0
    /\ NextLzmaData = <<>> /\ other = <<>>
    /\ at \in IF State = "IDLE" THEN {"loop", "test", "out"} ELSE {"answered"}
    /\ State # "START"
    /\ State # "IDLE" => result # "none"
    /\ host = "data" => k = Packets /\ n = ImageBlocks

InStep(m) == n = m /\ NextLzmaAddress \in {k, k + 1}

(* The host has begun one, the main loop has not.                          *)
Begun ==
  Starting =>
    /\ result = "none"
    /\ NextLzmaData = <<>> /\ other = <<>>
    /\ at \in IF State = "RUN" THEN {"started"} ELSE {"loop", "test", "out"}
    /\ State # "WAIT_END"
    /\ Pieces(1)
    /\ host \in {"start", "data", "gone"}
    /\ host = "start" => NextLzmaAddress = 0
    /\ host = "data" => InStep(1)

(* What has come of it.                                                    *)
Caches ==
  /\ \A i \in 1..FinishLen : flash[i] = L!Block(d, i)
  /\ InWork => cur = L!Block(d, Taken)
  /\ at = "done" => flash[Taken] = cur
  /\ other # <<>> => other = L!Block(d, Unpacked)
  /\ NextLzmaData # <<>> => NextLzmaData = L!Block(d, Handed)
  /\ at \in {"take", "take ahead"} =>
       taken = NextLzmaData /\ NextLzmaData # <<>> /\ other = <<>>

Buffered ==
  /\ Handed <= ImageBlocks
  /\ Pieces(Handed + 1)
  /\ NextLzmaAddress > 0 => Handed < ImageBlocks

Way == Caches /\ Buffered

(* How far the host is.                                                    *)
Far ==
  /\ host = "start" => NextLzmaAddress = 0
  /\ host = "data" => \/ InStep(Handed + 1)
                      \/ n = Handed /\ k = Packets /\ NextLzmaAddress = 0
  /\ host \in {"end", "wait"} => Handed = ImageBlocks

LocalInv ==
  /\ LocalTypes
  /\ pc # "local" => State = "IDLE"
  /\ result # "bad"
  /\ Quiet /\ Begun
  /\ Loading => result = "none" /\ Way /\ Far

LEMMA Counts == ImageBlocks \in Nat \ {0} /\ Packets \in Nat \ {0}
<1>1. Sectors \in Nat \ {0} /\ Blocks \in Nat \ {0}
  BY BlAssumption DEF BlAssumption
<1>2. Sectors * Blocks \in Nat
  BY <1>1
<1>3. Sectors * Blocks >= Sectors
  BY <1>1, SMT
<1> QED
  BY <1>1, <1>2, <1>3, LocalAssumption DEF LocalAssumption, ImageBlocks

LEMMA InitLocalInv == MainInit => LocalInv
<1> SUFFICES ASSUME MainInit PROVE LocalInv
  OBVIOUS
<1>1. /\ State = "IDLE" /\ FWDataBuffer = <<>> /\ NextLzmaAddress = 0
      /\ NextLzmaData = <<>> /\ other = <<>> /\ at = "loop" /\ FinishLen = 0
      /\ host = "start" /\ n = 1 /\ k = 0 /\ result = "none"
      /\ flash = [i \in 1..ImageBlocks |-> L!Blank]
  BY DEF MainInit, L!PowerOn, L!None
<1>2. LocalTypes
  BY <1>1, Counts DEF LocalTypes
<1> QED
  BY <1>1, <1>2 DEF LocalInv, Over, Starting, Loading, Quiet, Begun

(* What a packet makes of the buffer.                                      *)
LEMMA PiecesGrow ==
  ASSUME NextLzmaAddress \in Nat, NEW m, Pieces(m)
  PROVE  /\ Len(FWDataBuffer) = NextLzmaAddress
         /\ FWDataBuffer = <<>> <=> NextLzmaAddress = 0
         /\ Append(FWDataBuffer, <<d, m, NextLzmaAddress + 1>>)
              = [i \in 1..(NextLzmaAddress + 1) |-> <<d, m, i>>]
<1> DEFINE a == NextLzmaAddress
           s0 == [i \in 1..a |-> <<d, m, i>>]
           S == {<<d, m, i>> : i \in 1..(a + 1)}
<1>1. s0 \in Seq(S) /\ Len(s0) = a
  <2>1. s0 \in [1..a -> S]
    OBVIOUS
  <2> QED
    BY <2>1
<1>2. FWDataBuffer = s0
  BY DEF Pieces
<1>3. FWDataBuffer = <<>> <=> NextLzmaAddress = 0
  BY <1>1, <1>2
<1>4. <<d, m, a + 1>> \in S
  OBVIOUS
<1>5. DOMAIN Append(s0, <<d, m, a + 1>>) = 1..(a + 1)
  BY <1>1, <1>4
<1>6. \A i \in 1..(a + 1) : Append(s0, <<d, m, a + 1>>)[i] = <<d, m, i>>
  <2> TAKE i \in 1..(a + 1)
  <2>1. CASE i = a + 1
    BY <1>1, <1>4, <2>1
  <2>2. CASE i \in 1..a
    BY <1>1, <1>4, <2>2
  <2> QED
    BY <2>1, <2>2
<1>7. Append(s0, <<d, m, a + 1>>) \in Seq(S)
  BY <1>1, <1>4
<1>8. Append(s0, <<d, m, a + 1>>) = [i \in 1..(a + 1) |-> <<d, m, i>>]
  <2> HIDE DEF s0
  <2>1. Append(s0, <<d, m, a + 1>>)
          = [i \in 1..(a + 1) |-> Append(s0, <<d, m, a + 1>>)[i]]
    BY <1>5, <1>7
  <2> QED
    BY <1>6, <2>1
<1> QED
  BY <1>1, <1>2, <1>3, <1>8

LEMMA LocalNumbers ==
  ASSUME LocalTypes
  PROVE  /\ n \in Nat /\ 1 <= n /\ n <= ImageBlocks
         /\ k \in Nat /\ k <= Packets
         /\ NextLzmaAddress \in Nat /\ NextLzmaAddress <= Packets
         /\ FinishLen \in Nat
<1>1. /\ n \in 1..ImageBlocks /\ k \in 0..Packets
      /\ NextLzmaAddress \in 0..Packets /\ FinishLen \in Nat
  BY Zenon DEF LocalTypes
<1> QED
  BY <1>1, Counts

(* Handed over and unpacked, by where the main loop is.                    *)
LEMMA CountsOnTheWay ==
  ASSUME LocalTypes
  PROVE  /\ Taken \in Nat /\ Unpacked \in Nat /\ Handed \in Nat
         /\ FinishLen <= Taken /\ Taken <= Unpacked /\ Unpacked <= Handed
         /\ other = <<>> => Unpacked = Taken
         /\ NextLzmaData = <<>> => Handed = Unpacked
         /\ NextLzmaData # <<>> => Handed = Unpacked + 1
<1>1. FinishLen \in Nat
  BY DEF LocalTypes
<1>2. Taken = FinishLen \/ Taken = FinishLen + 1
  BY <1>1 DEF Taken
<1>3. Taken \in Nat /\ FinishLen <= Taken
  BY <1>1, <1>2
<1>4. /\ other = <<>> => Unpacked = Taken + 0
      /\ other # <<>> => Unpacked = Taken + 1
  BY DEF Unpacked
<1>5. Unpacked \in Nat /\ Taken <= Unpacked
  BY <1>3, <1>4
<1>6. /\ NextLzmaData = <<>> => Handed = Unpacked + 0
      /\ NextLzmaData # <<>> => Handed = Unpacked + 1
  BY DEF Handed
<1> QED
  BY <1>3, <1>4, <1>5, <1>6

(* A step that leaves where Local_Upgrade is.                              *)
LEMMA SamePlaces ==
  ASSUME UNCHANGED <<State, at, cur, other, FinishLen, flash, taken>>
  PROVE  /\ Over' = Over /\ Starting' = Starting /\ Loading' = Loading
         /\ InWork' = InWork /\ Taken' = Taken /\ Unpacked' = Unpacked
  BY DEF Over, Starting, Loading, InWork, Taken, Unpacked

(* A step that changes nothing the invariant is about.                     *)
LEMMA SameLocal ==
  ASSUME LocalInv,
         pc' = "local" \/ pc' = pc \/ State = "IDLE",
         UNCHANGED <<State, FWDataBuffer, NextLzmaAddress, NextLzmaData, at, cur,
                     other, taken, FinishLen, flash, host, n, k, d, result>>
  PROVE  LocalInv'
<1>1. Over' = Over /\ Starting' = Starting /\ Loading' = Loading
  BY SamePlaces
<1>2. Pieces(1)' = Pieces(1) /\ Pieces(Handed + 1)' = Pieces(Handed + 1)
  BY DEF Pieces, Handed, Unpacked, Taken, InWork
<1>3. Way' = Way /\ Far' = Far
  <2>1. /\ InWork' = InWork /\ Taken' = Taken /\ Unpacked' = Unpacked
        /\ Handed' = Handed
    BY SamePlaces DEF Handed
  <2>2. Caches' = Caches
    BY <2>1 DEF Caches, L!Block
  <2>3. Buffered' = Buffered
    BY <1>2, <2>1 DEF Buffered
  <2>4. Far' = Far
    BY <2>1 DEF Far, InStep
  <2> QED
    BY <2>2, <2>3, <2>4 DEF Way
<1>4. LocalTypes' = LocalTypes
  BY DEF LocalTypes
<1>5. Quiet' = Quiet /\ Begun' = Begun
  BY <1>1, <1>2 DEF Quiet, Begun, InStep
<1> QED
  BY <1>1, <1>3, <1>4, <1>5 DEF LocalInv

(* The host has the answer or not.                                         *)
LEMMA StartKeeps ==
  ASSUME LocalInv, pc = "local", pc' = pc, L!BL_StartNewDownload
  PROVE  LocalInv'
<1>1. CASE State # "IDLE"
  <2>1. UNCHANGED <<State, FWDataBuffer, NextLzmaAddress, NextLzmaData, at,
                    cur, other, taken, FinishLen, flash, host, n, k, d, result>>
    BY <1>1 DEF L!BL_StartNewDownload, L!shared, L!loop
  <2> QED
    BY <2>1, SameLocal
<1>2. CASE State = "IDLE"
  <2>1. /\ State' = "START" /\ NextLzmaAddress' = 0 /\ result' = "none"
        /\ UNCHANGED <<FWDataBuffer, NextLzmaData, at, other, FinishLen, flash>>
        /\ \/ host' = "data" /\ n' = 1 /\ k' = 0
           \/ UNCHANGED <<host, n, k>>
        /\ host = "start" /\ at # "out"
    BY <1>2 DEF L!BL_StartNewDownload, L!Answered, L!loop
  <2>2. /\ FWDataBuffer = <<>> /\ NextLzmaData = <<>> /\ other = <<>>
        /\ at \in {"loop", "test"}
    BY <1>2, <2>1 DEF LocalInv, Quiet, Over
  <2>3. Starting' /\ ~Over' /\ ~Loading'
    BY <2>1, <2>2 DEF Starting, Over, Loading
  <2>4. LocalTypes'
    <3>1. 1 \in 1..ImageBlocks /\ 0 \in 0..Packets
      BY Counts
    <3>2. n' \in 1..ImageBlocks /\ k' \in 0..Packets /\ host' \in {"start", "data"}
      BY <2>1, <3>1 DEF LocalInv, LocalTypes
    <3>3. flash' = [i \in 1..ImageBlocks |-> flash'[i]]
      BY <2>1 DEF LocalInv, LocalTypes
    <3> QED
      BY <2>1, <3>1, <3>2, <3>3 DEF LocalInv, LocalTypes
  <2>5. Begun'
    BY <2>1, <2>2 DEF Begun, Pieces, InStep
  <2> QED
    BY <2>1, <2>3, <2>4, <2>5 DEF LocalInv, Quiet
<1> QED
  BY <1>1, <1>2

LEMMA AddDataKeeps ==
  ASSUME LocalInv, pc = "local", pc' = pc, L!BL_DownloadAddData
  PROVE  LocalInv'
<1>1. /\ host = "data" /\ k < Packets /\ host' = "data" /\ n' = n
      /\ UNCHANGED <<State, NextLzmaData, at, cur, other, taken, FinishLen, flash, d,
                     result>>
      /\ \/ /\ NextLzmaAddress # k /\ k' \in {k, NextLzmaAddress}
            /\ UNCHANGED <<FWDataBuffer, NextLzmaAddress>>
         \/ /\ NextLzmaAddress = k /\ k' \in {k, k + 1}
            /\ NextLzmaAddress' = k + 1
            /\ FWDataBuffer' = IF Len(FWDataBuffer) < Packets
                               THEN Append(FWDataBuffer, <<d, n, k + 1>>)
                               ELSE FWDataBuffer
  BY DEF L!BL_DownloadAddData, L!Answered, L!shared, L!loop
<1>2. /\ Over' = Over /\ Starting' = Starting /\ Loading' = Loading
      /\ InWork' = InWork /\ Taken' = Taken /\ Unpacked' = Unpacked
      /\ Handed' = Handed
  BY <1>1, SamePlaces DEF Handed
<1>3. /\ LocalTypes /\ NextLzmaAddress \in 0..Packets /\ k \in 0..Packets
      /\ Packets \in Nat
  BY Counts DEF LocalInv, LocalTypes
<1>4. ~Over
  BY <1>1, <1>3 DEF LocalInv, Quiet
<1>5. Handed \in Nat
  BY <1>3, CountsOnTheWay
<1> DEFINE m == IF Starting THEN 1 ELSE Handed + 1
<1>6. InStep(m) /\ Pieces(m) /\ NextLzmaAddress \in {k, k + 1}
  <2>1. CASE Starting
    BY <1>1, <2>1 DEF LocalInv, Begun, InStep
  <2>2. CASE ~Starting
    <3>1. Way /\ Far
      BY <1>4, <2>2 DEF LocalInv, Loading
    <3>2. m = Handed + 1
      BY <2>2
    <3>3. Pieces(Handed + 1)
      BY <3>1, Zenon DEF Way, Caches, Buffered
    <3>4. k # Packets
      BY <1>1, <1>3
    <3>5. InStep(Handed + 1)
      BY <1>1, <3>1, <3>4, Zenon DEF Far
    <3> HIDE DEF m
    <3> QED
      BY <3>2, <3>3, <3>5 DEF InStep
  <2> QED
    BY <2>1, <2>2
<1>7. n = m
  BY <1>6 DEF InStep
<1> HIDE DEF m
<1>8. /\ Pieces(m)' /\ NextLzmaAddress' \in 0..Packets /\ k' \in 0..Packets
      /\ NextLzmaAddress' \in {k', k' + 1}
  <2>1. CASE NextLzmaAddress # k
    <3>1. k' \in {k, NextLzmaAddress} /\ UNCHANGED <<FWDataBuffer, NextLzmaAddress, d>>
      BY <1>1, <2>1
    <3>2. Pieces(m)'
      BY <1>2, <1>6, <3>1 DEF Pieces, m
    <3> QED
      BY <1>3, <1>6, <3>1, <3>2
  <2>2. CASE NextLzmaAddress = k
    <3>1. Len(FWDataBuffer) = k
      BY <1>3, <1>6, <2>2, PiecesGrow, LocalNumbers
    <3>2. /\ FWDataBuffer' = Append(FWDataBuffer, <<d, n, k + 1>>)
          /\ NextLzmaAddress' = k + 1 /\ d' = d /\ k' \in {k, k + 1}
      BY <1>1, <2>2, <3>1
    <3>3. FWDataBuffer' = [i \in 1..(k + 1) |-> <<d, m, i>>]
      BY <1>3, <1>6, <1>7, <2>2, <3>2, PiecesGrow, LocalNumbers
    <3>4. Pieces(m)'
      BY <1>2, <3>2, <3>3 DEF Pieces, m
    <3>5. k \in Nat /\ k + 1 <= Packets
      BY <1>1, <1>3, LocalNumbers
    <3>6. NextLzmaAddress' \in 0..Packets /\ k' \in 0..Packets
      BY <1>3, <3>2, <3>5
    <3> QED
      BY <3>2, <3>4, <3>5, <3>6
  <2> QED
    BY <2>1, <2>2
<1>9. LocalTypes'
  BY <1>1, <1>3, <1>8 DEF LocalTypes
<1>10. InStep(m)'
  BY <1>1, <1>2, <1>7, <1>8 DEF InStep, m
<1>11. CASE Starting
  <2>1. Begun'
    BY <1>1, <1>2, <1>8, <1>10, <1>11 DEF LocalInv, Begun, m
  <2> QED
    BY <1>1, <1>2, <1>4, <1>9, <1>11, <2>1 DEF LocalInv, Quiet, Loading
<1>12. CASE ~Starting
  <2>1. Way /\ Far /\ result = "none"
    BY <1>4, <1>12 DEF LocalInv, Loading
  <2>2. Handed + 1 <= ImageBlocks
    BY <1>3, <1>7, <1>12, LocalNumbers DEF m
  <2>3. Way'
    <3>1. Pieces(Handed + 1)'
      BY <1>2, <1>8, <1>12 DEF m
    <3>2. Handed' < ImageBlocks
      BY <1>2, <1>5, <2>2, Counts
    <3> QED
      BY <1>1, <1>2, <2>1, <3>1, <3>2 DEF Way, Caches, Buffered, L!Block
  <2>4. Far'
    BY <1>1, <1>2, <1>10, <1>12 DEF Far, m
  <2> QED
    BY <1>1, <1>2, <1>4, <1>9, <1>12, <2>1, <2>3, <2>4 DEF LocalInv, Quiet, Begun
<1> QED
  BY <1>11, <1>12

LEMMA RunBlockKeeps ==
  ASSUME Prompt, LocalInv, pc = "local", pc' = pc, L!BL_RunLzmaBlock
  PROVE  LocalInv'
<1>0. /\ host = "data" /\ k = Packets /\ State # "START" /\ at # "started"
      /\ UNCHANGED <<State, at, cur, other, taken, FinishLen, flash, d, result>>
  BY DEF L!BL_RunLzmaBlock, L!shared, L!loop
<1>1. /\ Over' = Over /\ Starting' = Starting /\ Loading' = Loading
      /\ InWork' = InWork /\ Taken' = Taken /\ Unpacked' = Unpacked
      /\ ~Starting
  BY <1>0, SamePlaces DEF Starting
<1>2. /\ LocalTypes /\ Handed \in Nat /\ ImageBlocks \in Nat /\ Packets \in Nat \ {0}
  BY Counts, CountsOnTheWay DEF LocalInv
<1>a. ASSUME L!AfterBlock
      PROVE  \/ n < ImageBlocks /\ host' = "data" /\ n' = n + 1 /\ k' = 0
             \/ n >= ImageBlocks /\ host' = "end" /\ n' = n /\ k' = k
             \/ UNCHANGED <<host, n, k>>
  <2>1. ImageBlocks \in Nat /\ n \in Nat
    BY <1>2, LocalNumbers
  <2> QED
    BY <1>a, <2>1 DEF L!AfterBlock, L!Answered
<1>b. L!AfterBlock => /\ n' \in 1..ImageBlocks /\ k' \in 0..Packets
                      /\ host' \in {"data", "end"}
  <2>1. /\ n \in Nat /\ 1 <= n /\ n <= ImageBlocks
        /\ k \in Nat /\ k <= Packets
    BY <1>2, LocalNumbers
  <2> QED
    BY <1>0, <1>2, <1>a, <2>1
<1>3. CASE UNCHANGED <<FWDataBuffer, NextLzmaAddress, NextLzmaData, host, n, k>>
  BY <1>0, <1>3, SameLocal
<1>4. CASE FWDataBuffer = <<>> /\ L!AfterBlock
             /\ UNCHANGED <<FWDataBuffer, NextLzmaAddress, NextLzmaData>>
  <2>1. LocalTypes'
    BY <1>0, <1>2, <1>4, <1>b DEF LocalTypes
  <2>2. Handed' = Handed
    BY <1>1, <1>4 DEF Handed
  <2>3. CASE Over
    <3>1. n = ImageBlocks
      BY <1>0, <2>3 DEF LocalInv, Quiet
    <3>2. Quiet'
      BY <1>0, <1>1, <1>2, <1>4, <1>a, <2>3, <3>1 DEF LocalInv, Quiet
    <3> QED
      BY <1>0, <1>1, <2>1, <2>3, <3>2 DEF LocalInv, Begun, Loading
  <2>4. CASE Loading
    <3>1. Way /\ Far /\ result = "none"
      BY <2>4 DEF LocalInv
    <3>2. NextLzmaAddress = 0
      BY <1>2, <1>4, <3>1, PiecesGrow, LocalNumbers DEF Way, Caches, Buffered
    <3>3. n = Handed
      BY <1>0, <1>2, <3>1, <3>2 DEF Far, InStep
    <3>4. Way'
      BY <1>0, <1>1, <1>4, <2>2, <3>1 DEF Way, Caches, Buffered, Pieces, L!Block
    <3>5. Far'
      <4>1. n \in Nat /\ n <= ImageBlocks
        BY <1>2, LocalNumbers
      <4> QED
        BY <1>0, <1>2, <1>4, <1>a, <2>2, <3>2, <3>3, <4>1 DEF Far, InStep
    <3> QED
      BY <1>0, <1>1, <2>1, <2>4, <3>1, <3>4, <3>5 DEF LocalInv, Quiet, Begun, Loading
  <2> QED
    BY <1>1, <2>3, <2>4 DEF Loading
<1>5. CASE /\ FWDataBuffer # <<>> /\ NextLzmaData = <<>>
           /\ NextLzmaData' = FWDataBuffer
           /\ FWDataBuffer' = <<>> /\ NextLzmaAddress' = 0
           /\ L!AfterBlock
  <2>1. Loading
    BY <1>1, <1>5 DEF Loading, LocalInv, Quiet
  <2>2. Way /\ Far /\ result = "none"
    BY <2>1 DEF LocalInv
  <2>3. NextLzmaAddress \in 1..Packets
    <3>1. Pieces(Handed + 1)
      BY <2>2, Zenon DEF Way, Caches, Buffered
    <3>2. NextLzmaAddress # 0
      BY <1>2, <1>5, <3>1, PiecesGrow, LocalNumbers
    <3> QED
      BY <1>2, <3>2, LocalNumbers
  <2>4. NextLzmaAddress = Packets /\ n = Handed + 1 /\ Handed < ImageBlocks
    <3>1. NextLzmaAddress > 0 /\ NextLzmaAddress # 0
      BY <1>2, <2>3
    <3>2. Handed < ImageBlocks
      BY <2>2, <3>1, Zenon DEF Way, Caches, Buffered
    <3>3. InStep(Handed + 1)
      BY <1>0, <2>2, <3>1, Zenon DEF Far
    <3> QED
      BY <1>0, <1>2, <2>3, <3>2, <3>3 DEF InStep
  <2>5. FWDataBuffer = L!Block(d, Handed + 1)
    BY <2>2, <2>4 DEF Way, Caches, Buffered, Pieces, L!Block
  <2>6. Handed = Unpacked /\ Handed' = Handed + 1
    BY <1>1, <1>2, <1>5, CountsOnTheWay DEF Handed
  <2>7. LocalTypes'
    <3>1. 0 \in 0..Packets
      BY <1>2
    <3> QED
      BY <1>0, <1>2, <1>5, <1>b, <3>1 DEF LocalTypes
  <2>8. Way'
    <3>1. at \notin {"take", "take ahead"}
      BY <1>5, <2>2 DEF Way, Caches, Buffered
    <3>2. Pieces(Handed + 1)'
      BY <1>5 DEF Pieces
    <3>3. NextLzmaData' = L!Block(d, Handed)'
      BY <1>0, <1>5, <2>5, <2>6 DEF L!Block
    <3> QED
      <4>1. NextLzmaAddress' = 0 /\ ~(NextLzmaAddress' > 0) /\ Handed' <= ImageBlocks
        BY <1>2, <1>5, <2>4, <2>6
      <4>2. at' \notin {"take", "take ahead"}
        BY <1>0, <3>1
      <4> QED
        BY <1>0, <1>1, <2>2, <3>2, <3>3, <4>1, <4>2 DEF Way, Caches, Buffered, L!Block
  <2>9. Far'
    BY <1>0, <1>2, <1>5, <1>a, <2>4, <2>6 DEF Far, InStep
  <2> QED
    BY <1>0, <1>1, <2>1, <2>2, <2>7, <2>8, <2>9 DEF LocalInv, Quiet, Begun, Loading
<1> QED
  BY <1>3, <1>4, <1>5 DEF L!BL_RunLzmaBlock, L!shared, L!None

LEMMA EndKeeps ==
  ASSUME LocalInv, pc = "local", pc' = pc, L!BL_DownloadEnd
  PROVE  LocalInv'
<1>1. /\ host = "end" /\ host' \in {"wait", "end"}
      /\ State' = IF State = "RUN" THEN "WAIT_END" ELSE State
      /\ UNCHANGED <<FWDataBuffer, NextLzmaAddress, NextLzmaData, at, cur, other,
                     taken, FinishLen, flash, n, k, d, result>>
  BY DEF L!BL_DownloadEnd, L!Answered, L!loop
<1>2. ~Starting
  BY <1>1 DEF LocalInv, Begun
<1>3. Over' = Over /\ ~Starting' /\ Loading' = Loading
  BY <1>1, <1>2 DEF Over, Starting, Loading
<1>4. /\ InWork' = InWork /\ Taken' = Taken /\ Unpacked' = Unpacked
      /\ Handed' = Handed
  BY <1>1 DEF InWork, Taken, Unpacked, Handed
<1>5. LocalTypes'
  BY <1>1 DEF LocalInv, LocalTypes
<1>6. Quiet'
  BY <1>1, <1>3 DEF LocalInv, Quiet
<1>7. Loading => Way' /\ Far'
  <2>1. Pieces(Handed + 1)' = Pieces(Handed + 1)
    BY <1>1, <1>4 DEF Pieces
  <2> QED
    BY <1>1, <1>4, <2>1 DEF LocalInv, Way, Caches, Buffered, Far, L!Block
<1> QED
  BY <1>1, <1>3, <1>5, <1>6, <1>7 DEF LocalInv, Begun

-----------------------------------------------------------------------------
(* The main loop moves the blocks on their way, and nothing else.          *)
LEMMA OnTheWay ==
  ASSUME LocalInv, Loading, pc = "local", pc' = pc,
         UNCHANGED <<State, FWDataBuffer, NextLzmaAddress, host, n, k, d, result>>,
         at' \in {"loop", "take", "take ahead", "block", "erase", "done", "check",
                  "test"},
         FinishLen' \in Nat, flash' = [i \in 1..ImageBlocks |-> flash'[i]],
         Handed' = Handed, Caches'
  PROVE  LocalInv'
<1>1. Loading' /\ ~Over' /\ ~Starting'
  BY DEF Loading, Over, Starting
<1>2. LocalTypes'
  BY DEF LocalInv, LocalTypes
<1>3. Pieces(Handed + 1)' = Pieces(Handed + 1)
  BY DEF Pieces
<1>4. Way' /\ Far'
  BY <1>3 DEF LocalInv, Way, Buffered, Far, InStep
<1> QED
  BY <1>1, <1>2, <1>4 DEF LocalInv, Quiet, Begun

LEMMA BeginsKeep ==
  ASSUME LocalInv, pc = "local", pc' = pc, L!Start \/ L!Started
  PROVE  LocalInv'
<1>1. CASE L!Start
  <2>1. /\ State' = "RUN" /\ at' = "started" /\ at = "loop" /\ State = "START"
        /\ UNCHANGED <<FWDataBuffer, NextLzmaAddress, NextLzmaData, other,
                       FinishLen, flash, host, n, k, d, result>>
    BY <1>1 DEF L!Start, L!pc
  <2>2. Starting /\ Starting' /\ ~Over' /\ ~Loading'
    BY <2>1 DEF Starting, Over, Loading
  <2>3. LocalTypes'
    BY <2>1 DEF LocalInv, LocalTypes
  <2>4. Begun'
    BY <2>1, <2>2 DEF LocalInv, Begun, Pieces, InStep
  <2> QED
    BY <2>1, <2>2, <2>3, <2>4 DEF LocalInv, Quiet
<1>2. CASE L!Started
  <2>1. /\ at = "started" /\ at' = "loop" /\ NextLzmaData' = <<>> /\ FinishLen' = 0
        /\ UNCHANGED <<State, FWDataBuffer, NextLzmaAddress, cur, other, taken,
                       flash, host, n, k, d, result>>
    BY <1>2 DEF L!Started, L!pc, L!None
  <2>2. Starting
    BY <2>1 DEF Starting
  <2>3. Begun /\ State = "RUN"
    BY <2>1, <2>2 DEF LocalInv, Begun
  <2>4. Loading' /\ ~Starting' /\ ~Over'
    BY <2>1, <2>3 DEF Starting, Over, Loading
  <2>5. LocalTypes'
    BY <2>1 DEF LocalInv, LocalTypes
  <2>6. other = <<>> /\ Pieces(1) /\ result = "none"
    BY <2>2, <2>3, Zenon DEF Begun
  <2>7. /\ ~InWork' /\ Handed' = 0
    BY <2>1, <2>6 DEF InWork, Taken, Unpacked, Handed
  <2>8. Pieces(Handed + 1)'
    BY <2>1, <2>6, <2>7 DEF Pieces
  <2>9. Way'
    BY <2>1, <2>6, <2>7, <2>8, Counts DEF Way, Caches, Buffered
  <2>10. Far'
    BY <2>1, <2>2, <2>3, <2>7 DEF Begun, Far, InStep
  <2> QED
    BY <2>1, <2>4, <2>5, <2>6, <2>9, <2>10 DEF LocalInv, Quiet, Begun
<1> QED
  BY <1>1, <1>2

(* A block is taken from the slot or, unpacked ahead, from the other cache.*)
LEMMA TakesKeep ==
  ASSUME LocalInv, pc = "local", pc' = pc,
         L!DBuffer_SwapCache \/ L!Look \/ L!Take \/ L!Nothing
  PROVE  LocalInv'
<1>0. /\ LocalTypes /\ FinishLen \in Nat
      /\ Taken \in Nat /\ Unpacked \in Nat /\ Handed \in Nat
      /\ flash = [i \in 1..ImageBlocks |-> flash[i]]
  BY CountsOnTheWay, Zenon DEF LocalInv, LocalTypes
<1>1. CASE L!DBuffer_SwapCache
  <2>1. /\ at = "loop" /\ State \in {"RUN", "WAIT_END"} /\ other # <<>>
        /\ cur' = other /\ other' = <<>> /\ at' = "block"
        /\ UNCHANGED <<State, FWDataBuffer, NextLzmaAddress, NextLzmaData, taken,
                       FinishLen, flash, host, n, k, d, result>>
    BY <1>1 DEF L!DBuffer_SwapCache, L!pc, L!shared, L!None
  <2>2. Loading
    BY <2>1 DEF Loading, Over, Starting
  <2>3. ~InWork /\ InWork'
    BY <2>1 DEF InWork
  <2>4. Taken' = Unpacked /\ Unpacked' = Unpacked
    BY <1>0, <2>1, <2>3 DEF Taken, Unpacked
  <2>5. Handed' = Handed
    BY <2>1, <2>4 DEF Handed
  <2>6. Caches'
    BY <2>1, <2>2, <2>4, <2>5 DEF LocalInv, Way, Caches, L!Block
  <2> QED
    BY <1>0, <2>1, <2>2, <2>5, <2>6, OnTheWay
<1>2. CASE L!Look
  <2>1. /\ NextLzmaData # <<>> /\ other = <<>> /\ taken' = NextLzmaData
        /\ \/ /\ at = "loop" /\ State \in {"RUN", "WAIT_END"} /\ at' = "take"
           \/ at = "erase" /\ at' = "take ahead"
        /\ UNCHANGED <<State, FWDataBuffer, NextLzmaAddress, NextLzmaData, cur,
                       other, FinishLen, flash, host, n, k, d, result>>
    BY <1>2 DEF L!Look, L!pc, L!shared, L!None
  <2>2. Loading
    BY <2>1 DEF Loading, LocalInv, Quiet, Begun, Over, Starting
  <2>3. InWork' <=> InWork
    <3>1. CASE at = "loop" /\ at' = "take"
      BY <3>1 DEF InWork
    <3>2. CASE at = "erase" /\ at' = "take ahead"
      BY <3>2 DEF InWork
    <3> QED
      BY <2>1, <3>1, <3>2
  <2>4. Taken' = Taken /\ Unpacked' = Unpacked /\ Handed' = Handed
    BY <2>1, <2>3 DEF Taken, Unpacked, Handed
  <2>5. Caches'
    BY <2>1, <2>2, <2>3, <2>4 DEF LocalInv, Way, Caches, L!Block
  <2> QED
    BY <1>0, <2>1, <2>2, <2>4, <2>5, OnTheWay
<1>3. CASE L!Take
  <2>1. /\ \/ /\ at = "take" /\ cur' = taken /\ at' = "block" /\ other' = other
           \/ /\ at = "take ahead" /\ other' = taken /\ at' = "erase" /\ cur' = cur
        /\ NextLzmaData' = <<>>
        /\ UNCHANGED <<State, FWDataBuffer, NextLzmaAddress, FinishLen, flash,
                       host, n, k, d, result>>
    BY <1>3 DEF L!Take, L!pc, L!None
  <2>2. Loading
    BY <2>1 DEF Loading, LocalInv, Quiet, Begun, Over, Starting
  <2>3. /\ Caches /\ taken = NextLzmaData /\ NextLzmaData # <<>> /\ other = <<>>
        /\ taken = L!Block(d, Handed)
    BY <2>1, <2>2 DEF LocalInv, Way, Caches
  <2>4. Unpacked = Taken /\ Handed = Taken + 1
    BY <1>0, <2>3, CountsOnTheWay
  <2>5. CASE at = "take"
    <3>1. ~InWork /\ InWork'
      BY <2>1, <2>5 DEF InWork
    <3>2. Taken' = Taken + 1 /\ Unpacked' = Taken' /\ Handed' = Unpacked'
      BY <1>0, <2>1, <2>3, <2>5, <3>1 DEF Taken, Unpacked, Handed
    <3>3. Caches'
      BY <2>1, <2>3, <2>4, <2>5, <3>1, <3>2 DEF Caches, L!Block
    <3> QED
      BY <1>0, <2>1, <2>2, <2>4, <3>2, <3>3, OnTheWay
  <2>6. CASE at = "take ahead"
    <3>1. InWork /\ InWork'
      BY <2>1, <2>6 DEF InWork
    <3>2. Taken' = Taken /\ Unpacked' = Taken + 1 /\ Handed' = Unpacked'
      <4>1. Taken' = Taken
        BY <2>1, <3>1 DEF Taken
      <4>2. other' # <<>> /\ NextLzmaData' = <<>>
        BY <2>1, <2>3, <2>6
      <4>3. Unpacked' = Taken + 1
        BY <4>1, <4>2 DEF Unpacked
      <4>4. Handed' = Unpacked'
        BY <1>0, <4>2, <4>3 DEF Handed
      <4> QED
        BY <4>1, <4>3, <4>4
    <3>3. Caches'
      BY <2>1, <2>3, <2>4, <2>6, <3>1, <3>2 DEF Caches, L!Block
    <3> QED
      BY <1>0, <2>1, <2>2, <2>4, <3>2, <3>3, OnTheWay
  <2> QED
    BY <2>1, <2>5, <2>6
<1>4. CASE L!Nothing
  <2>1. /\ at = "loop" /\ State \in {"RUN", "WAIT_END"} /\ at' \in {"check", "test"}
        /\ UNCHANGED <<State, FWDataBuffer, NextLzmaAddress, NextLzmaData, cur,
                       other, taken, FinishLen, flash, host, n, k, d, result>>
    BY <1>4 DEF L!Nothing, L!pc, L!shared
  <2>2. Loading
    BY <2>1 DEF Loading, Over, Starting
  <2>3. ~InWork /\ ~InWork'
    BY <2>1 DEF InWork
  <2>4. Taken' = Taken /\ Unpacked' = Unpacked /\ Handed' = Handed
    BY <2>1, <2>3 DEF Taken, Unpacked, Handed
  <2>5. Caches'
    BY <2>1, <2>2, <2>3, <2>4 DEF LocalInv, Way, Caches, L!Block
  <2> QED
    BY <1>0, <2>1, <2>2, <2>4, <2>5, OnTheWay
<1> QED
  BY <1>1, <1>2, <1>3, <1>4

LEMMA ProgramsKeep ==
  ASSUME LocalInv, pc = "local", pc' = pc,
         L!EraseStart \/ L!Program \/ L!BlockDone
  PROVE  LocalInv'
<1>0. /\ LocalTypes /\ FinishLen \in Nat
      /\ Taken \in Nat /\ Unpacked \in Nat /\ Handed \in Nat
      /\ FinishLen <= Taken /\ Taken <= Handed
      /\ flash = [i \in 1..ImageBlocks |-> flash[i]] /\ ImageBlocks \in Nat
  <2>1. LocalTypes /\ FinishLen \in Nat /\ flash = [i \in 1..ImageBlocks |-> flash[i]]
    BY Zenon DEF LocalInv, LocalTypes
  <2> QED
    BY <2>1, CountsOnTheWay, Counts
<1>1. at \in {"block", "erase", "done"}
  BY DEF L!EraseStart, L!Program, L!BlockDone
<1>2. Loading /\ InWork
  BY <1>1 DEF Loading, LocalInv, Quiet, Begun, Over, Starting, InWork
<1>3. /\ Caches /\ Handed <= ImageBlocks /\ Taken = FinishLen + 1
      /\ cur = L!Block(d, Taken)
  BY <1>2 DEF LocalInv, Way, Caches, Buffered, Taken
<1>4. FinishLen < ImageBlocks
  BY <1>0, <1>3
<1>5. CASE L!EraseStart
  <2>1. /\ at = "block" /\ at' \in {"done", "erase"}
        /\ at' = "done" => flash[FinishLen + 1] = cur
        /\ UNCHANGED <<State, FWDataBuffer, NextLzmaAddress, NextLzmaData, cur,
                       other, taken, FinishLen, flash, host, n, k, d, result>>
    BY <1>5 DEF L!EraseStart, L!pc, L!shared
  <2>2. InWork'
    BY <2>1 DEF InWork
  <2>3. Taken' = Taken /\ Unpacked' = Unpacked /\ Handed' = Handed
    BY <1>2, <2>1, <2>2 DEF Taken, Unpacked, Handed
  <2>4. Caches'
    BY <1>2, <1>3, <2>1, <2>2, <2>3 DEF Caches, L!Block
  <2> QED
    BY <1>0, <1>2, <2>1, <2>3, <2>4, OnTheWay
<1>6. CASE L!Program
  <2>1. /\ at = "erase" /\ at' = "done"
        /\ flash' = [i \in 1..ImageBlocks |->
                       IF i = FinishLen + 1 THEN cur ELSE flash[i]]
        /\ UNCHANGED <<State, FWDataBuffer, NextLzmaAddress, NextLzmaData, cur,
                       other, taken, FinishLen, host, n, k, d, result>>
    BY <1>6 DEF L!Program, L!pc, L!shared
  <2>2. InWork'
    BY <2>1 DEF InWork
  <2>3. Taken' = Taken /\ Unpacked' = Unpacked /\ Handed' = Handed
    BY <1>2, <2>1, <2>2 DEF Taken, Unpacked, Handed
  <2>4. /\ \A i \in 1..FinishLen : flash'[i] = flash[i]
        /\ flash'[Taken] = cur
    BY <1>0, <1>3, <1>4, <2>1
  <2>5. Caches'
    BY <1>2, <1>3, <2>1, <2>2, <2>3, <2>4 DEF Caches, L!Block
  <2>6. flash' = [i \in 1..ImageBlocks |-> flash'[i]]
    BY <2>1
  <2> QED
    BY <1>0, <1>2, <2>1, <2>3, <2>5, <2>6, OnTheWay
<1>7. CASE L!BlockDone
  <2>1. /\ at = "done" /\ at' = "check" /\ FinishLen' = FinishLen + 1
        /\ UNCHANGED <<State, FWDataBuffer, NextLzmaAddress, NextLzmaData, cur,
                       other, taken, flash, host, n, k, d, result>>
    BY <1>7 DEF L!BlockDone, L!pc, L!shared
  <2>2. ~InWork'
    BY <2>1 DEF InWork
  <2>3. Taken' = Taken
    BY <1>0, <1>3, <2>1, <2>2 DEF Taken
  <2>4. Unpacked' = Unpacked /\ Handed' = Handed
    BY <2>1, <2>3 DEF Unpacked, Handed
  <2>5. \A i \in 1..FinishLen' : flash'[i] = L!Block(d, i)
    <3>1. flash[FinishLen + 1] = L!Block(d, FinishLen + 1)
      BY <1>3, <2>1 DEF Caches
    <3>2. \A i \in 1..FinishLen : flash[i] = L!Block(d, i)
      BY <1>3 DEF Caches
    <3>3. \A i \in 1..(FinishLen + 1) : i \in 1..FinishLen \/ i = FinishLen + 1
      BY <1>0
    <3> QED
      BY <2>1, <3>1, <3>2, <3>3
  <2>6. Caches'
    BY <1>3, <2>1, <2>2, <2>3, <2>4, <2>5 DEF Caches, L!Block
  <2>7. FinishLen' \in Nat
    BY <1>0, <2>1
  <2> QED
    BY <1>0, <1>2, <2>1, <2>4, <2>6, <2>7, OnTheWay
<1> QED
  BY <1>5, <1>6, <1>7

(* When as many blocks are programmed as the image has, they are it, and   *)
(* nothing is left of it on the way.                                       *)
LEMMA ChecksKeep ==
  ASSUME LocalInv, pc = "local", pc' = pc, L!Check \/ L!Answer
  PROVE  LocalInv'
<1>0. /\ LocalTypes /\ FinishLen \in Nat
      /\ Taken \in Nat /\ Unpacked \in Nat /\ Handed \in Nat
      /\ FinishLen <= Taken /\ Taken <= Unpacked /\ Unpacked <= Handed
      /\ flash = [i \in 1..ImageBlocks |-> flash[i]] /\ ImageBlocks \in Nat
  <2>1. LocalTypes /\ FinishLen \in Nat /\ flash = [i \in 1..ImageBlocks |-> flash[i]]
    BY Zenon DEF LocalInv, LocalTypes
  <2> QED
    BY <2>1, CountsOnTheWay, Counts
<1>1. CASE L!Check /\ ~(FinishLen >= ImageBlocks)
  <2>1. /\ at = "check" /\ at' = "loop"
        /\ UNCHANGED <<State, FWDataBuffer, NextLzmaAddress, NextLzmaData, cur,
                       other, taken, FinishLen, flash, host, n, k, d, result>>
    BY <1>1 DEF L!Check, L!pc, L!shared
  <2>2. Loading /\ ~InWork /\ ~InWork'
    BY <2>1 DEF Loading, LocalInv, Quiet, Begun, Over, Starting, InWork
  <2>3. Taken' = Taken /\ Unpacked' = Unpacked /\ Handed' = Handed
    BY <2>1, <2>2 DEF Taken, Unpacked, Handed
  <2>4. Caches'
    BY <2>1, <2>2, <2>3 DEF LocalInv, Way, Caches, L!Block
  <2> QED
    BY <1>0, <2>1, <2>2, <2>3, <2>4, OnTheWay
<1>2. CASE L!Check /\ FinishLen >= ImageBlocks
  <2>1. /\ at = "check" /\ at' = "answered"
        /\ result' = IF flash = [i \in 1..ImageBlocks |-> L!Block(d, i)]
                     THEN "ok" ELSE "bad"
        /\ UNCHANGED <<State, FWDataBuffer, NextLzmaAddress, NextLzmaData, cur,
                       other, taken, FinishLen, flash, host, n, k, d>>
    BY <1>2 DEF L!Check, L!pc, L!shared
  <2>2. Loading /\ State \in {"RUN", "WAIT_END"}
    BY <2>1 DEF Loading, LocalInv, LocalTypes, Quiet, Begun, Over, Starting
  <2>3. Way /\ Far
    BY <2>2 DEF LocalInv
  <2>4. Handed = ImageBlocks /\ FinishLen = ImageBlocks /\ Unpacked = FinishLen
        /\ Handed = Unpacked /\ Unpacked = Taken
    BY <1>0, <1>2, <2>3 DEF Way, Buffered
  <2>5. other = <<>> /\ NextLzmaData = <<>>
    BY <1>0, <2>4 DEF Unpacked, Handed
  <2>6. NextLzmaAddress = 0 /\ FWDataBuffer = <<>>
    <3>1. ~(NextLzmaAddress > 0)
      BY <1>0, <2>3, <2>4 DEF Way, Buffered
    <3>2. Pieces(Handed + 1)
      BY <2>3, Zenon DEF Way, Buffered
    <3> QED
      <4>1. NextLzmaAddress = 0
        BY <1>0, <3>1, LocalNumbers
      <4> QED
        BY <3>2, <4>1, PiecesGrow
  <2>7. flash = [i \in 1..ImageBlocks |-> L!Block(d, i)]
    <3>1. \A i \in 1..ImageBlocks : flash[i] = L!Block(d, i)
      BY <2>3, <2>4 DEF Way, Caches
    <3> QED
      BY <1>0, <3>1
  <2>8. host = "data" => k = Packets /\ n = ImageBlocks
    BY <1>0, <2>3, <2>4, LocalNumbers DEF Far, InStep
  <2>9. Over' /\ ~Starting' /\ ~Loading'
    BY <2>1, <2>2 DEF Over, Starting, Loading
  <2>10. LocalTypes'
    BY <1>0, <2>1 DEF LocalTypes
  <2>11. Quiet'
    BY <2>1, <2>2, <2>5, <2>6, <2>7, <2>8 DEF Quiet
  <2> QED
    BY <2>1, <2>7, <2>9, <2>10, <2>11 DEF LocalInv, Begun
<1>3. CASE L!Answer
  <2>1. /\ at = "answered" /\ State' = "IDLE" /\ at' = "loop"
        /\ UNCHANGED <<FWDataBuffer, NextLzmaAddress, NextLzmaData, cur, other,
                       taken, FinishLen, flash, host, n, k, d, result>>
    BY <1>3 DEF L!Answer, L!pc
  <2>2. Over /\ Over' /\ ~Starting' /\ ~Loading'
    BY <2>1 DEF Over, Starting, Loading
  <2>3. LocalTypes'
    BY <1>0, <2>1 DEF LocalTypes
  <2>4. Quiet'
    BY <2>1, <2>2 DEF LocalInv, Quiet
  <2> QED
    BY <2>1, <2>2, <2>3, <2>4 DEF LocalInv, Begun
<1> QED
  BY <1>1, <1>2, <1>3 DEF L!Check, L!Answer

(* The end of Local_Upgrade, and the host's comings and goings.            *)
LEMMA LeavesKeep ==
  ASSUME LocalInv, pc = "local", pc' = pc,
         L!Idle \/ L!Turn \/ L!Timeout \/ L!Leave \/ L!HostGoesOn \/ L!HostLeaves \/ L!BL_RunAPP
  PROVE  LocalInv'
<1>1. CASE L!HostLeaves \/ L!BL_RunAPP
  <2>1. /\ host' = "gone"
        /\ UNCHANGED <<State, FWDataBuffer, NextLzmaAddress, NextLzmaData, at, cur,
                       other, taken, FinishLen, flash, n, k, d, result>>
    BY <1>1 DEF L!HostLeaves, L!BL_RunAPP, L!shared, L!loop
  <2>2. /\ Over' = Over /\ Starting' = Starting /\ Loading' = Loading
        /\ InWork' = InWork /\ Taken' = Taken /\ Unpacked' = Unpacked
        /\ Handed' = Handed
    BY <2>1, SamePlaces DEF Handed
  <2>3. Caches' = Caches
    BY <2>1, <2>2 DEF Caches, L!Block
  <2>4. Pieces(1)' = Pieces(1) /\ Pieces(Handed + 1)' = Pieces(Handed + 1)
    BY <2>1, <2>2 DEF Pieces
  <2>5. Buffered' = Buffered
    BY <2>1, <2>2, <2>4 DEF Buffered
  <2>6. LocalTypes'
    BY <2>1 DEF LocalInv, LocalTypes
  <2>7. Quiet' /\ Begun' /\ Far'
    BY <2>1, <2>2, <2>4 DEF LocalInv, Quiet, Begun, Far
  <2> QED
    BY <2>1, <2>2, <2>3, <2>5, <2>6, <2>7 DEF LocalInv, Way
<1>2. CASE L!HostGoesOn
  <2>1. /\ host = "wait" /\ result # "none" /\ host' = "start"
        /\ UNCHANGED <<State, FWDataBuffer, NextLzmaAddress, NextLzmaData, at, cur,
                       other, taken, FinishLen, flash, n, k, result>>
    BY <1>2 DEF L!HostGoesOn, L!shared, L!loop
  <2>2. Over /\ ~Starting
    BY <2>1 DEF LocalInv, Begun, Loading
  <2>3. Over' /\ ~Starting' /\ ~Loading'
    BY <2>1, <2>2 DEF Over, Starting, Loading
  <2>4. LocalTypes'
    BY <2>1 DEF LocalInv, LocalTypes
  <2>5. Quiet'
    BY <2>1, <2>2 DEF LocalInv, Quiet
  <2> QED
    BY <2>1, <2>3, <2>4, <2>5 DEF LocalInv, Begun
<1>3. CASE L!Idle \/ L!Turn \/ L!Timeout \/ L!Leave
  <2>1. /\ at \in {"loop", "test"} /\ at' \in {"loop", "test", "out"}
        /\ UNCHANGED <<State, FWDataBuffer, NextLzmaAddress, NextLzmaData, cur,
                       other, taken, FinishLen, flash, host, n, k, d, result>>
    BY <1>3 DEF L!Idle, L!Turn, L!Timeout, L!Leave, L!pc, L!shared
  <2>2. /\ Over' <=> Over
        /\ Starting' <=> Starting
        /\ Loading' <=> Loading
        /\ ~InWork /\ ~InWork'
    BY <2>1 DEF Over, Starting, Loading, InWork
  <2>3. Taken' = Taken /\ Unpacked' = Unpacked /\ Handed' = Handed
    BY <2>1, <2>2 DEF Taken, Unpacked, Handed
  <2>4. Pieces(1)' = Pieces(1) /\ Pieces(Handed + 1)' = Pieces(Handed + 1)
    BY <2>1, <2>3 DEF Pieces
  <2>5. LocalTypes'
    BY <2>1 DEF LocalInv, LocalTypes
  <2>6. Quiet' /\ Begun'
    BY <2>1, <2>2, <2>4 DEF LocalInv, Quiet, Begun, InStep
  <2>7. Loading => Caches' /\ Buffered' /\ Far'
    BY <2>1, <2>2, <2>3, <2>4 DEF LocalInv, Way, Caches, Buffered, Far, InStep, L!Block
  <2> QED
    BY <2>1, <2>2, <2>5, <2>6, <2>7 DEF LocalInv, Way
<1> QED
  BY <1>1, <1>2, <1>3

(* A reset, and the rest of main, which does not touch the RAM.            *)
LEMMA ResetKeeps ==
  ASSUME LocalInv, L!Reset, flash' = [i \in 1..ImageBlocks |-> flash'[i]]
  PROVE  LocalInv'
<1>1. /\ State' = "IDLE" /\ FWDataBuffer' = <<>> /\ NextLzmaAddress' = 0
      /\ NextLzmaData' = <<>> /\ other' = <<>> /\ at' = "loop" /\ FinishLen' = 0
      /\ host' = "start" /\ n' = 1 /\ k' = 0 /\ result' = "none"
  BY DEF L!Reset, L!None
<1>2. LocalTypes'
  BY <1>1, Counts DEF LocalTypes
<1> QED
  BY <1>1, <1>2 DEF LocalInv, Over, Starting, Loading, Quiet, Begun

LEMMA LocalNextInv ==
  ASSUME Prompt, LocalInv, [MainNext]_mainVars PROVE LocalInv'
<1>0. flash = [i \in 1..ImageBlocks |-> flash[i]]
  BY Zenon DEF LocalInv, LocalTypes
<1>1. CASE Download \/ HostCommands \/ HostElse
  <2>1. pc = "local" /\ pc' = pc
    BY <1>1 DEF Download, HostCommands, HostElse, Local
  <2>2. \/ L!Local_Upgrade \/ L!Command
        \/ L!HostGoesOn \/ L!HostLeaves \/ L!BL_RunAPP
    BY <1>1 DEF Download, HostCommands, HostElse, Local
  <2> QED
    BY <2>1, <2>2, StartKeeps, AddDataKeeps, RunBlockKeeps, EndKeeps, BeginsKeep,
       TakesKeep, ProgramsKeep, ChecksKeep, LeavesKeep
       DEF L!Local_Upgrade, L!Command
<1>2. CASE LocalOut
  <2>1. L!Reset /\ flash' = flash
    BY <1>2 DEF LocalOut
  <2> QED
    BY <1>0, <2>1, ResetKeeps
<1>3. CASE CutLocal
  <2>1. /\ L!Reset
        /\ \/ flash' = flash
           \/ flash' = [flash EXCEPT ![FinishLen + 1] = L!Blank]
    BY <1>3 DEF CutLocal
  <2>2. flash' = [i \in 1..ImageBlocks |-> flash'[i]]
    BY <1>0, <2>1
  <2> QED
    BY <2>1, <2>2, ResetKeeps
<1>4. CASE Upgrades \/ AppAnnounces \/ CutRemote
  <2>1. pc # "local" /\ UNCHANGED ram
        /\ \/ flash' = flash
           \/ flash' = [flash EXCEPT ![Number(At)] = L!Blank]
    BY <1>4 DEF Upgrades, AppAnnounces, CutRemote, Remote
  <2>2. flash' = [i \in 1..ImageBlocks |-> flash'[i]]
    BY <1>0, <2>1
  <2>3. /\ State = "IDLE" /\ Over /\ ~Loading /\ ~Starting
        /\ Over' = Over /\ Starting' = Starting /\ Loading' = Loading
    BY <2>1 DEF LocalInv, Over, Starting, Loading, Begun, ram
  <2>4. LocalTypes'
    BY <2>1, <2>2 DEF LocalInv, LocalTypes, ram
  <2>5. Quiet'
    BY <2>1, <2>3 DEF LocalInv, Quiet, ram
  <2> QED
    BY <2>1, <2>3, <2>4, <2>5 DEF LocalInv, Begun, ram
<1>5. CASE UNCHANGED mainVars
  BY <1>5, SameLocal DEF mainVars, vars, ram
<1> QED
  BY <1>1, <1>2, <1>3, <1>4, <1>5 DEF MainNext

(* If the main loop notices a new download before the host has sent a      *)
(* whole block of it, what is programmed is what the host sent, whole      *)
(* blocks in their order, and no host is told that its image is wrong:     *)
(* whatever answers are lost and commands repeated, and though the power   *)
(* failed in an earlier download or an upgrade.                            *)
THEOREM MainDownloads == ASSUME Prompt PROVE MainSpec => []Downloads
<1>1. LocalInv => Downloads
  <2> SUFFICES ASSUME LocalInv PROVE Downloads
    OBVIOUS
  <2>1. L!Running => Loading
    BY DEF L!Running, LocalInv, Quiet, Loading, Over, Starting
  <2>2. Loading => Caches
    BY DEF LocalInv, Way
  <2> QED
    BY <2>1, <2>2 DEF LocalInv, Caches, Downloads, L!ProgramsInOrder, L!NeverBad
<1>2. LocalInv /\ [MainNext]_mainVars => LocalInv'
  BY LocalNextInv
<1> QED
  BY <1>1, <1>2, InitLocalInv, PTL DEF MainSpec
=============================================================================

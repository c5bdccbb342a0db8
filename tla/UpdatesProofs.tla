----------------------------- MODULE UpdatesProofs -----------------------------
(***************************************************************************)
(* What the updater promises about the files it replaces and about what it *)
(* reports, for any releases, files, helpers and number of operations.     *)
(***************************************************************************)
EXTENDS Updates, WellFoundedInduction, TLAPS

-----------------------------------------------------------------------------
(* The least and the greatest element that the CHOOSEs of the model take.   *)
LEMMA HasLeast ==
  ASSUME NEW S \in SUBSET Nat, S # {}
  PROVE  \E x \in S : \A y \in S : x <= y
<1>1. PICK x \in S : \A y \in S : ~(<<y, x>> \in OpToRel(<, Nat))
  BY NatLessThanWellFounded, WFMin, Zenon
<1>2. \A y \in S : ~(y < x)
  BY <1>1 DEF OpToRel
<1> QED  BY <1>2

LEMMA HasGreatest ==
  ASSUME NEW n \in Nat, NEW S \in SUBSET (1..n), S # {}
  PROVE  \E x \in S : \A y \in S : y <= x
<1> DEFINE T == {t \in Nat : \E x \in S : t = n - x}
<1>1. \A x \in S : x \in Nat /\ x <= n /\ n - x \in Nat  OBVIOUS
<1>2. \A x \in S : n - x \in T  BY <1>1
<1>3. T \in SUBSET Nat /\ T # {}  BY <1>2
<1>4. PICK t \in T : \A u \in T : t <= u  BY <1>3, HasLeast
<1>5. PICK x \in S : t = n - x  BY <1>4
<1>6. \A y \in S : n - x <= n - y  BY <1>2, <1>4, <1>5
<1>7. \A y \in S : y <= x  BY <1>1, <1>6
<1> QED  BY <1>7

LEMMA LatestIsGreatest ==
  ASSUME NEW S \in SUBSET Versions, S # {}
  PROVE  Latest(S) \in S /\ \A v \in S : v <= Latest(S)
BY HelperAssumption, HasGreatest DEF Versions, Latest

-----------------------------------------------------------------------------
(* Where a helper can be, and what it then has.                             *)
Reading    == {"read", "verify", "saving"}
Replacing  == {"backing", "copy", "copying", "short", "remove", "rename", "confirm"}
Installing == Reading \cup {"check"} \cup Replacing \cup {"planning", "msi", "restart"}
Undoing    == {"undo", "undoing"}

Typed ==
    /\ TypeOK
    /\ origin \in [Versions -> [Plan -> Contents]]
    /\ runs \in [Versions -> Nat]
    /\ overlap \in BOOLEAN /\ disturbed \in BOOLEAN /\ writable \in BOOLEAN

PlaceOK(p) ==
    /\ IF p.pc = "unborn" THEN ~p.rollback /\ p.target = 0 ELSE p.target \in Versions
    /\ p.pc \in Replacing \cup {"undoing"} => p.entry \in Plan
    /\ p.pc \in Reading => p.kept = {}
    /\ p.pc \in {"read", "verify"} => p.entry = Exe
    /\ p.pc = "saving" => Runtime \in Plan /\ p.entry = IF p.exe THEN Exe ELSE Exe + 1
    /\ p.pc \in {"planning", "msi", "restart"} => p.entry = Entries + 1
    /\ p.pc = "msi" => ~p.exe
    /\ p.pc \in Installing => ~p.rollback /\ p.exe = writable
    /\ p.pc \in Undoing => p.rollback
    /\ ~writable =>           \* the executable is left to the MSI
          /\ Exe \notin p.kept
          /\ p.pc \in {"check"} \cup Replacing => p.entry > Exe

HelperPlaces == \A h \in Helpers : PlaceOK(helper[h])

ExeIsForMsi ==
    /\ writable => msi = 0
    /\ \A v \in Versions : Exe \in undo[v] => writable

OneWorks == ~overlap => \A h, g \in Helpers : Working(h) /\ Working(g) => h = g

OpPlaces ==
    /\ op.pc = "files" => candidate # 0
    /\ op.pc \in {"spawn", "spawned"} => staged # 0
    /\ op.kind = "cancel" => op.pc \in {"begin", "forget"}
    /\ op.pc = "forget" => op.kind = "cancel"

Shape == Typed /\ HelperPlaces /\ ExeIsForMsi /\ OneWorks /\ OpPlaces

(* Every version that is installed, saved or on its way is one of S.        *)
Within(S) ==
    /\ msi # 0 => msi \in S
    /\ \A e \in Plan : Complete(dest[e]) => dest[e] \in S
    /\ \A u \in Versions, e \in Plan : Complete(backup[u][e]) => backup[u][e] \in S
    /\ \A h \in Helpers : helper[h].pc \in Installing => helper[h].target \in S

(* What a helper has beside the file that it is about to replace.           *)
CopyOf(h) ==
    /\ helper[h].pc \in {"remove", "rename"} =>
          temp[helper[h].entry] \in {helper[h].target, Torn}
    /\ helper[h].pc = "undoing" => backup[helper[h].target][helper[h].entry] # Absent

(* Nothing but released versions; nothing newer than what is to come.       *)
Upwards ==
    /\ candidate # 0 => candidate \in published
    /\ staged # 0 => staged \in published
    /\ staged # 0 /\ candidate # 0 => staged <= candidate
    /\ ~overlap => /\ Within(published \cup {1})
                   /\ candidate # 0 => Within(1..candidate)
                   /\ staged # 0 => Within(1..staged)
                   /\ \A h \in Helpers : helper[h].pc \in Installing => Within(1..helper[h].target)
                   /\ \A h \in Helpers : CopyOf(h)

(* What is installed is the target, as far as the helper has come.          *)
InstalledUpTo(h) ==
    helper[h].pc \in {"check", "planning", "msi", "restart"} \cup Replacing =>
        \A e \in Plan : e < helper[h].entry =>
            dest[e] = helper[h].target \/ (e = Exe /\ ~helper[h].exe)

(* The files a helper has still to replace, and still to save.              *)
ToReplace(h, e) ==
    \/ e > helper[h].entry
    \/ e = helper[h].entry /\ helper[h].pc \notin {"rename", "confirm"}
ToSave(h, e) ==
    \/ e > helper[h].entry
    \/ e = helper[h].entry /\ helper[h].pc \notin Replacing

(* Only a version that a helper has started on can be rolled back.          *)
RunsCounted ==
    \A v \in Versions : runs[v] = 0 =>
        undo[v] = {} /\ \A h \in Helpers : helper[h].pc \in Installing => helper[h].target # v

(* The backups of a version that was installed once are what it replaced.   *)
UndoKept == \A v \in Versions : runs[v] = 1 => \A e \in undo[v] : backup[v][e] = origin[v][e]
KeptBy(h) ==
    LET v == helper[h].target IN
    helper[h].pc \in Installing /\ runs[v] = 1 =>
        /\ \A e \in helper[h].kept : backup[v][e] = origin[v][e]
        /\ helper[h].pc \notin {"msi", "restart"} => undo[v] = {}
        /\ \A e \in Plan : ToReplace(h, e) /\ (e > Exe \/ writable) => dest[e] = origin[v][e]
        /\ \A e \in Plan : ToSave(h, e) => e \notin helper[h].kept

RestoredBy(h) ==
    LET v == helper[h].target IN
    helper[h].pc \in Undoing /\ runs[v] = 1 =>
        \A e \in undo[v] : e < helper[h].entry => dest[e] = origin[v][e]

Progress ==
    /\ RunsCounted
    /\ ~overlap => /\ UndoKept
                   /\ \A h \in Helpers : InstalledUpTo(h) /\ KeptBy(h) /\ RestoredBy(h)

(* Before its first file is saved, a version has no backup.                 *)
NotYetSaved(h) ==
    LET v == helper[h].target IN
    helper[h].pc \in Installing /\ runs[v] = 1 =>
        \A e \in Plan : ToSave(h, e) => backup[v][e] = Absent

(* The staged file does not go away while it is copied.                     *)
StagedFor(h) ==
    /\ helper[h].pc \in {"backing", "copy"} => IsStaged(helper[h].target, helper[h].entry)
    /\ helper[h].pc # "short"
    /\ helper[h].pc \in {"remove", "rename"} => temp[helper[h].entry] = helper[h].target

Fresh ==
    /\ \A v \in Versions : runs[v] = 0 => \A e \in Plan : backup[v][e] = Absent
    /\ ~overlap => \A h \in Helpers : NotYetSaved(h) /\ (~disturbed => StagedFor(h))

(* Every file that was ever there is complete somewhere.                    *)
HasBackup(e) == \E v \in Versions : Complete(backup[v][e])
Present(e) == dest[e] # Absent \/ \E v \in Versions : runs[v] > 0 /\ origin[v][e] # Absent
InstalledOnce == \A v \in Versions : runs[v] <= 1
RolledBack == \E h \in Helpers : helper[h].rollback

SafeFor(h) ==
    LET e == helper[h].entry IN
    /\ helper[h].pc = "backing" =>
          /\ dest[e] # Absent /\ backup[helper[h].target][e] = Torn
          /\ Complete(dest[e]) \/ HasBackup(e)
    /\ helper[h].pc \in {"copy", "copying", "remove"} /\ dest[e] # Absent => HasBackup(e)
    /\ helper[h].pc = "undoing" => e \in undo[helper[h].target]
    /\ helper[h].pc \in Installing /\ InstalledOnce => \A f \in helper[h].kept : HasBackup(f)

AllSafe ==
    /\ \A e \in Plan : Present(e) => Complete(dest[e]) \/ HasBackup(e)
    /\ ~RolledBack => \A e \in Plan : dest[e] # Torn
    /\ InstalledOnce => \A v \in Versions : \A e \in undo[v] : HasBackup(e)
    /\ \A h \in Helpers : SafeFor(h)

Clean == ~overlap /\ ~disturbed /\ (RolledBack => InstalledOnce)
Recoverable == Clean => AllSafe

(* What the status says, and what it is going to say.                       *)
StatusKnown ==
    /\ StatusTells
    /\ op.pc = "files" => status = "Downloading"
    /\ op.pc = "spawned" => /\ staging[staged] = 2 * Updater
                            /\ \E h \in Helpers : helper[h].target = staged

IInv == /\ Shape /\ Upwards /\ Progress
        /\ Fresh /\ Recoverable /\ StatusKnown

-----------------------------------------------------------------------------
(* Shape.                                                                   *)
LEMMA Constants ==
  /\ MaxVersion \in Nat /\ 1 \in Versions /\ Torn \notin Versions /\ Torn \in Contents
  /\ Versions \subseteq Contents /\ 0 \in Contents /\ 0 \notin Versions
  /\ 0 \in 0..2 * Updater
  /\ Entries \in Nat /\ Exe \in Plan /\ Updater \in Nat /\ Versions \subseteq 1..MaxVersion
BY HelperAssumption DEF Versions, Torn, Contents, Plan, Exe, Updater

LEMMA InitShape == Init => Shape
<1> SUFFICES ASSUME Init PROVE Shape
  OBVIOUS
<1> USE Constants DEF Init, HelperInit, NewHelper
<1>1. TypeOK
  <2>1. helper \in [Helpers -> HelperType]
    BY DEF HelperType, PCs, Plan
  <2>2. dest \in [Plan -> Contents] /\ temp \in [Plan -> Contents]
    BY DEF Absent
  <2>3. backup \in [Versions -> [Plan -> Contents]] /\ node \in Contents
    BY DEF Absent
  <2> QED  BY <2>1, <2>2, <2>3 DEF TypeOK, OpType, NoOp, States
<1>2. Typed
  BY <1>1 DEF Typed, Absent
<1>3. HelperPlaces /\ ExeIsForMsi /\ OneWorks /\ OpPlaces
  BY DEF HelperPlaces, ExeIsForMsi, OneWorks, OpPlaces, NoOp, Working,
         Reading, Replacing, Installing, Undoing, PlaceOK
<1> QED  BY <1>2, <1>3 DEF Shape

(* The steps of the server's operations leave the helpers alone, but for    *)
(* the staging directories.                                                 *)
HelpersLeft == UNCHANGED <<dest, temp, backup, undo, node, msi, helper, origin, runs, overlap, writable>>

LEMMA ManagerShape ==
  ASSUME Shape, HelpersLeft, TypeOK',
         disturbed' \in BOOLEAN, OpPlaces'
  PROVE  Shape'
BY DEF Shape, HelpersLeft, Typed, HelperPlaces, PlaceOK, ExeIsForMsi, OneWorks, Working

ManagerStep ==
    \/ Publish \/ (\E kind \in Operations : Request(kind)) \/ RequestDropped
    \/ CheckBegins \/ CheckFinds \/ CheckFindsNothing \/ CheckFails
    \/ DownloadRefused \/ InstallBlocked \/ InstallRefused \/ InstallUsesStaged
    \/ StagingBegins \/ FileStaged \/ StagingFails \/ StagingCompletes
    \/ InstallAnswered \/ SpawnFails \/ CancelRemoves \/ CancelFails \/ CancelForgets
    \/ ServerExits \/ UserStartsServer

LEMMA ManagerLeavesHelpers == ManagerStep => HelpersLeft
BY DEF ManagerStep, HelpersLeft, Publish, Request, RequestDropped, CheckBegins, CheckFinds,
       CheckFindsNothing, CheckFails, DownloadRefused, InstallBlocked, InstallRefused,
       InstallUsesStaged, StagingBegins, FileStaged, StagingFails, StagingCompletes,
       InstallAnswered, SpawnFails,
       RemovesStaged, CancelUnchanged, CancelRemoves, CancelFails, CancelForgets, ServerExits,
       UserStartsServer,
       OpUnchanged, helperVars, files, managerVars

LEMMA ManagerKeepsShape == ASSUME Shape, ManagerStep PROVE Shape'
<1> USE Constants
<1>1. HelpersLeft  BY ManagerLeavesHelpers
<1>2. TypeOK /\ OpPlaces /\ disturbed \in BOOLEAN
  BY DEF Shape, Typed
<1> SUFFICES TypeOK' /\ OpPlaces' /\ disturbed' \in BOOLEAN
  BY <1>1, ManagerShape
<1> USE <1>2 DEF TypeOK, OpPlaces, States, Operations, OpType, NoOp, OpGoto, OpUnchanged,
                 helperVars, files, managerVars
<1>3. CASE Publish             BY <1>3 DEF Publish
<1>4. CASE \E kind \in Operations : Request(kind)
  BY <1>4 DEF Request
<1>5. CASE RequestDropped      BY <1>5 DEF RequestDropped
<1>6. CASE CheckBegins         BY <1>6 DEF CheckBegins
<1>7. CASE CheckFinds
  <2>1. Usable \in SUBSET Versions  BY DEF Usable
  <2>2. candidate' \in Versions  BY <1>7, <2>1, LatestIsGreatest DEF CheckFinds
  <2> QED  BY <1>7, <2>2 DEF CheckFinds, Versions
<1>8. CASE CheckFindsNothing   BY <1>8 DEF CheckFindsNothing
<1>9. CASE CheckFails          BY <1>9 DEF CheckFails
<1>10. CASE DownloadRefused    BY <1>10 DEF DownloadRefused
<1>11. CASE InstallBlocked     BY <1>11 DEF InstallBlocked
<1>12. CASE InstallRefused     BY <1>12 DEF InstallRefused, MayInstall
<1>13. CASE InstallUsesStaged  BY <1>13 DEF InstallUsesStaged, MayInstall
<1>14. CASE StagingBegins
  <2>1. disturbed' \in BOOLEAN  BY <1>14 DEF StagingBegins
  <2>2. staging' \in [Versions -> 0..2 * Updater] /\ planFile' \in [Versions -> BOOLEAN]
    <3>1. staging \in [Versions -> 0..2 * Updater] /\ planFile \in [Versions -> BOOLEAN]
      BY <1>2 DEF TypeOK
    <3> HIDE <1>2 DEF TypeOK
    <3> QED  BY <1>14, <3>1 DEF StagingBegins
  <2>4. TypeOK'  BY <1>14, <2>2 DEF StagingBegins, MayInstall
  <2>3. OpPlaces'  BY <1>14 DEF StagingBegins, MayInstall
  <2> QED  BY <2>1, <2>3, <2>4
<1>15. CASE FileStaged
  <2>1. staging' \in [Versions -> 0..2 * Updater]
    BY <1>15 DEF FileStaged, Versions
  <2> QED  BY <1>15, <2>1 DEF FileStaged
<1>16. CASE StagingFails       BY <1>16 DEF StagingFails
<1>17. CASE StagingCompletes   BY <1>17 DEF StagingCompletes
<1>18. CASE SpawnFails         BY <1>18 DEF SpawnFails
<1>19. CASE CancelRemoves
  <2>1. disturbed' \in BOOLEAN  BY <1>19 DEF CancelRemoves, RemovesStaged
  <2>2. staging' \in [Versions -> 0..2 * Updater] /\ planFile' \in [Versions -> BOOLEAN]
    <3>1. staging \in [Versions -> 0..2 * Updater] /\ planFile \in [Versions -> BOOLEAN]
      BY <1>2 DEF TypeOK
    <3> HIDE <1>2 DEF TypeOK
    <3> QED  BY <1>19, <3>1 DEF CancelRemoves, RemovesStaged
  <2>4. TypeOK'  BY <1>19, <2>2 DEF CancelRemoves, CancelUnchanged
  <2>3. OpPlaces'  BY <1>19 DEF CancelRemoves, CancelUnchanged
  <2> QED  BY <2>1, <2>3, <2>4
<1>20. CASE CancelForgets      BY <1>20 DEF CancelForgets
<1>21. CASE ServerExits        BY <1>21 DEF ServerExits, Stopped
<1>22. CASE UserStartsServer
  BY <1>22 DEF UserStartsServer, StartServer, Complete, Versions
<1>23. CASE InstallAnswered    BY <1>23 DEF InstallAnswered
<1>24. CASE CancelFails
  <2>1. disturbed' \in BOOLEAN  BY <1>24 DEF CancelFails, RemovesStaged
  <2>2. staging' \in [Versions -> 0..2 * Updater] /\ planFile' \in [Versions -> BOOLEAN]
    <3>1. staging \in [Versions -> 0..2 * Updater] /\ planFile \in [Versions -> BOOLEAN]
      BY <1>2 DEF TypeOK
    <3>2. PICK left \in 0..Updater : RemovesStaged(2 * left)  BY <1>24 DEF CancelFails
    <3>3. 2 * left \in 0..2 * Updater  OBVIOUS
    <3> HIDE <1>2 DEF TypeOK
    <3> QED  BY <3>1, <3>2, <3>3 DEF RemovesStaged
  <2>4. TypeOK'  BY <1>24, <2>2 DEF CancelFails, CancelUnchanged
  <2>3. OpPlaces'  BY <1>24 DEF CancelFails, CancelUnchanged
  <2> QED  BY <2>1, <2>3, <2>4
<1> QED
  BY <1>3, <1>4, <1>5, <1>6, <1>7, <1>8, <1>9, <1>10, <1>11, <1>12, <1>13, <1>14,
     <1>15, <1>16, <1>17, <1>18, <1>19, <1>20, <1>21, <1>22, <1>23, <1>24 DEF ManagerStep

(* A step of one helper: what it was and what it becomes.                   *)
FilesTyped ==
    /\ dest \in [Plan -> Contents] /\ temp \in [Plan -> Contents]
    /\ backup \in [Versions -> [Plan -> Contents]]
    /\ undo \in [Versions -> SUBSET Plan]
    /\ node \in Contents /\ msi \in 0..MaxVersion

LEMMA HelperMoves ==
  ASSUME Shape, NEW h \in Helpers, NEW q \in HelperType, Working(h),
         helper' = [helper EXCEPT ![h] = q], PlaceOK(q), FilesTyped', ExeIsForMsi',
         UNCHANGED <<managerVars, origin, runs, overlap, staging, planFile>>
  PROVE  Shape'
<1> USE DEF Shape, managerVars
<1>1. Typed'  BY DEF Typed, TypeOK, FilesTyped
<1>2. HelperPlaces'
  <2>1. \A g \in Helpers : helper'[g] = helper[g] \/ (g = h /\ helper'[g] = q)
    BY DEF Typed, TypeOK
  <2> QED  BY <2>1 DEF HelperPlaces, PlaceOK
<1>3. OneWorks'  BY DEF OneWorks, Working, Typed, TypeOK
<1>4. OpPlaces'  BY DEF OpPlaces
<1> QED  BY <1>1, <1>2, <1>3, <1>4

LEMMA ShapeOf ==
  ASSUME Shape, NEW h \in Helpers
  PROVE  /\ helper[h] \in HelperType /\ PlaceOK(helper[h]) /\ FilesTyped /\ ExeIsForMsi
         /\ helper[h].pc # "unborn" => helper[h].target \in Versions
BY DEF Shape, Typed, TypeOK, HelperPlaces, FilesTyped, PlaceOK

(* A process that ended.                                                    *)
LEMMA EndedShape ==
  ASSUME NEW p \in HelperType, PlaceOK(p), p.pc # "unborn", NEW pc \in {"done", "stopped"}
  PROVE  LET q == [p EXCEPT !.pc = pc, !.entry = 1, !.kept = {}]
         IN  q \in HelperType /\ PlaceOK(q)
<1> DEFINE q == [p EXCEPT !.pc = pc, !.entry = 1, !.kept = {}]
<1>1. /\ q.pc = pc /\ q.entry = 1 /\ q.kept = {} /\ q.target = p.target
      /\ q.exe = p.exe /\ q.rollback = p.rollback /\ q \in HelperType
  <2>1. 1 \in 1..Entries + 1  BY Constants
  <2> QED  BY <2>1 DEF HelperType, PCs
<1> HIDE DEF q
<1>2. PlaceOK(q)
  BY <1>1 DEF PlaceOK, Reading, Replacing, Installing, Undoing
<1> QED  BY <1>1, <1>2 DEF q

LEMMA HelperKeepsShape ==
  ASSUME Shape, NEW h \in Helpers, HelperStep(h) \/ HelperStops(h),
         UNCHANGED managerVars
  PROVE  Shape'
<1> DEFINE p == helper[h]
<1>a. p \in HelperType /\ PlaceOK(p) /\ FilesTyped /\ ExeIsForMsi  BY ShapeOf
<1>b. helper \in [Helpers -> HelperType]  BY DEF Shape, Typed, TypeOK
<1> USE Constants
<1>1. CASE ReadPlan(h)
  <2> DEFINE q == [p EXCEPT !.pc = "verify"]
  <2>1. q \in HelperType /\ PlaceOK(q)
    BY <1>1, <1>a DEF ReadPlan, HelperType, PCs, PlaceOK, Reading, Replacing, Installing, Undoing, Plan
  <2>2. helper' = [helper EXCEPT ![h] = q]
    BY <1>1, <1>b DEF ReadPlan, Goto
  <2> HIDE DEF q
  <2>5. FilesTyped' /\ ExeIsForMsi'
    BY <1>1, <1>a DEF ReadPlan, FilesTyped, ExeIsForMsi, PlaceOK, HelperType, Replacing, Installing, Reading, files, managerVars
  <2> QED
    BY <1>1, <2>1, <2>2, <2>5, HelperMoves DEF ReadPlan, Working, Undoing, files, managerVars
<1>2. CASE VerifyAssets(h)
  <2> DEFINE q == [p EXCEPT !.pc = IF KeepsRuntime THEN "saving" ELSE "check",
                            !.entry = IF p.exe THEN Exe ELSE Exe + 1]
  <2>6. Exe \in 1..Entries + 1 /\ Exe + 1 \in 1..Entries + 1 /\ Exe + 1 > Exe
    BY HelperAssumption DEF Exe
  <2>3. p.pc = "verify" /\ p.kept = {}
    BY <1>2, <1>a DEF VerifyAssets, PlaceOK, Reading
  <2>4. /\ q.pc = IF KeepsRuntime THEN "saving" ELSE "check"
        /\ q.entry = IF p.exe THEN Exe ELSE Exe + 1
        /\ q.target = p.target /\ q.kept = p.kept /\ q.exe = p.exe /\ q.rollback = p.rollback
        /\ q \in HelperType
    BY <1>a, <2>6 DEF HelperType, PCs
  <2>1. q \in HelperType /\ PlaceOK(q)
    <3> HIDE DEF q
    <3> QED  BY <2>3, <2>4, <2>6, <1>a DEF KeepsRuntime, PlaceOK, Reading, Replacing, Installing, Undoing
  <2>2. helper' = [helper EXCEPT ![h] = q]
    BY <1>2, <1>b DEF VerifyAssets, KeepsRuntime
  <2> HIDE DEF q
  <2>5. FilesTyped' /\ ExeIsForMsi'
    BY <1>2, <1>a DEF VerifyAssets, FilesTyped, ExeIsForMsi, PlaceOK, HelperType, Replacing, Installing, Reading, files, managerVars
  <2> QED
    BY <1>2, <2>1, <2>2, <2>5, HelperMoves DEF VerifyAssets, Working, Undoing, files, managerVars
<1>3. CASE EndRuntimeBackup(h)
  <2> DEFINE q == [p EXCEPT !.pc = "check"]
  <2>1. q \in HelperType /\ PlaceOK(q)
    BY <1>3, <1>a DEF EndRuntimeBackup, HelperType, PCs, PlaceOK, Reading, Replacing, Installing, Undoing, Plan
  <2>2. helper' = [helper EXCEPT ![h] = q]
    BY <1>3, <1>b DEF EndRuntimeBackup, Goto
  <2> HIDE DEF q
  <2>5. FilesTyped' /\ ExeIsForMsi'
    BY <1>3, <1>a DEF EndRuntimeBackup, FilesTyped, ExeIsForMsi, PlaceOK, HelperType, Replacing, Installing, Reading, files, managerVars
  <2> QED
    BY <1>3, <2>1, <2>2, <2>5, HelperMoves DEF EndRuntimeBackup, Working, Undoing, files, managerVars
<1>4. CASE BeginReplace(h)
  <2> DEFINE q == [p EXCEPT !.pc = IF dest[p.entry] = Absent THEN "copy" ELSE "backing"]
  <2>1. q \in HelperType /\ PlaceOK(q)
    BY <1>4, <1>a DEF BeginReplace, HelperType, PCs, PlaceOK, Reading, Replacing, Installing, Undoing, Plan
  <2>2. helper' = [helper EXCEPT ![h] = q]
    BY <1>4, <1>b DEF BeginReplace, Goto
  <2> HIDE DEF q
  <2>5. FilesTyped' /\ ExeIsForMsi'
    BY <1>4, <1>a DEF BeginReplace, FilesTyped, ExeIsForMsi, PlaceOK, HelperType, Replacing, Installing, Reading, files, managerVars
  <2> QED
    BY <1>4, <2>1, <2>2, <2>5, HelperMoves DEF BeginReplace, Working, Undoing, files, managerVars
<1>5. CASE EndBackup(h)
  <2> DEFINE q == [p EXCEPT !.pc = "copy", !.kept = @ \cup {p.entry}]
  <2>3. p.pc = "backing" /\ p.entry \in Plan /\ p.kept \cup {p.entry} \in SUBSET Plan
    BY <1>5, <1>a DEF EndBackup, PlaceOK, Replacing, HelperType
  <2>4. /\ q.pc = "copy" /\ q.entry = p.entry /\ q.target = p.target
        /\ q.kept = p.kept \cup {p.entry} /\ q.exe = p.exe /\ q.rollback = p.rollback
        /\ q \in HelperType
    BY <1>a, <2>3 DEF HelperType, PCs
  <2>1. q \in HelperType /\ PlaceOK(q)
    <3> HIDE DEF q
    <3> QED  BY <2>3, <2>4, <1>a DEF PlaceOK, Reading, Replacing, Installing, Undoing, Plan, Exe
  <2>2. helper' = [helper EXCEPT ![h] = q]
    BY <1>5, <1>b DEF EndBackup
  <2> HIDE DEF q
  <2>5. FilesTyped' /\ ExeIsForMsi'
    BY <1>5, <1>a DEF EndBackup, FilesTyped, ExeIsForMsi, PlaceOK, HelperType, Replacing, Installing, Reading, files, managerVars
  <2> QED
    BY <1>5, <2>1, <2>2, <2>5, HelperMoves DEF EndBackup, Working, Undoing, files, managerVars
<1>6. CASE BeginCopy(h)
  <2> DEFINE q == [p EXCEPT !.pc = IF IsStaged(p.target, p.entry) THEN "copying" ELSE "short"]
  <2>1. q \in HelperType /\ PlaceOK(q)
    BY <1>6, <1>a DEF BeginCopy, HelperType, PCs, PlaceOK, Reading, Replacing, Installing, Undoing, Plan
  <2>2. helper' = [helper EXCEPT ![h] = q]
    BY <1>6, <1>b DEF BeginCopy, Goto
  <2> HIDE DEF q
  <2>5. FilesTyped' /\ ExeIsForMsi'
    BY <1>6, <1>a DEF BeginCopy, FilesTyped, ExeIsForMsi, PlaceOK, HelperType, Replacing, Installing, Reading, files, managerVars
  <2> QED
    BY <1>6, <2>1, <2>2, <2>5, HelperMoves DEF BeginCopy, Working, Undoing, files, managerVars
<1>7. CASE EndCopy(h)
  <2> DEFINE q == [p EXCEPT !.pc = "remove"]
  <2>1. q \in HelperType /\ PlaceOK(q)
    BY <1>7, <1>a DEF EndCopy, HelperType, PCs, PlaceOK, Reading, Replacing, Installing, Undoing, Plan
  <2>2. helper' = [helper EXCEPT ![h] = q]
    BY <1>7, <1>b DEF EndCopy, Goto
  <2> HIDE DEF q
  <2>5. FilesTyped' /\ ExeIsForMsi'
    BY <1>7, <1>a DEF EndCopy, FilesTyped, ExeIsForMsi, PlaceOK, HelperType, Replacing, Installing, Reading, files, managerVars
  <2> QED
    BY <1>7, <2>1, <2>2, <2>5, HelperMoves DEF EndCopy, Working, Undoing, files, managerVars
<1>8. CASE RemoveInstalled(h)
  <2> DEFINE q == [p EXCEPT !.pc = "rename"]
  <2>1. q \in HelperType /\ PlaceOK(q)
    BY <1>8, <1>a DEF RemoveInstalled, HelperType, PCs, PlaceOK, Reading, Replacing, Installing, Undoing, Plan, Absent
  <2>2. helper' = [helper EXCEPT ![h] = q]
    BY <1>8, <1>b DEF RemoveInstalled, Goto, Absent
  <2> HIDE DEF q
  <2>5. FilesTyped' /\ ExeIsForMsi'
    BY <1>8, <1>a DEF RemoveInstalled, Absent, FilesTyped, ExeIsForMsi, PlaceOK, HelperType, Replacing, Installing, Reading, files, managerVars
  <2> QED
    BY <1>8, <2>1, <2>2, <2>5, HelperMoves DEF RemoveInstalled, Working, Undoing, files, managerVars
<1>9. CASE RenameIntoPlace(h)
  <2> DEFINE q == [p EXCEPT !.pc = "confirm"]
  <2>1. q \in HelperType /\ PlaceOK(q)
    BY <1>9, <1>a DEF RenameIntoPlace, HelperType, PCs, PlaceOK, Reading, Replacing, Installing, Undoing, Plan, Absent
  <2>2. helper' = [helper EXCEPT ![h] = q]
    BY <1>9, <1>b DEF RenameIntoPlace, Goto, Absent
  <2> HIDE DEF q
  <2>5. FilesTyped' /\ ExeIsForMsi'
    BY <1>9, <1>a DEF RenameIntoPlace, Absent, FilesTyped, ExeIsForMsi, PlaceOK, HelperType, Replacing, Installing, Reading, files, managerVars
  <2> QED
    BY <1>9, <2>1, <2>2, <2>5, HelperMoves DEF RenameIntoPlace, Working, Undoing, files, managerVars
<1>10. CASE ConfirmInstalled(h)
  <2> DEFINE q == [p EXCEPT !.pc = "check", !.entry = @ + 1]
  <2>3. p.entry \in Plan /\ p.entry + 1 \in 1..Entries + 1 /\ p.entry + 1 > Exe
    BY <1>10, <1>a DEF ConfirmInstalled, PlaceOK, Replacing, Plan, Exe
  <2>4. /\ q.pc = "check" /\ q.entry = p.entry + 1 /\ q.target = p.target
        /\ q.kept = p.kept /\ q.exe = p.exe /\ q.rollback = p.rollback /\ q \in HelperType
    BY <1>a, <2>3 DEF HelperType, PCs
  <2>1. q \in HelperType /\ PlaceOK(q)
    <3> HIDE DEF q
    <3> QED  BY <2>3, <2>4, <1>10, <1>a DEF ConfirmInstalled, PlaceOK, Reading, Replacing, Installing, Undoing
  <2>2. helper' = [helper EXCEPT ![h] = q]
    BY <1>10, <1>b DEF ConfirmInstalled
  <2> HIDE DEF q
  <2>5. FilesTyped' /\ ExeIsForMsi'
    BY <1>10, <1>a DEF ConfirmInstalled, FilesTyped, ExeIsForMsi, PlaceOK, HelperType, Replacing, Installing, Reading, files, managerVars
  <2> QED
    BY <1>10, <2>1, <2>2, <2>5, HelperMoves DEF ConfirmInstalled, Working, Undoing, files, managerVars
<1>11. CASE BeginRollbackPlan(h)
  <2> DEFINE q == [p EXCEPT !.pc = "planning"]
  <2>1. q \in HelperType /\ PlaceOK(q)
    BY <1>11, <1>a DEF BeginRollbackPlan, HelperType, PCs, PlaceOK, Reading, Replacing, Installing, Undoing, Plan
  <2>2. helper' = [helper EXCEPT ![h] = q]
    BY <1>11, <1>b DEF BeginRollbackPlan, Goto
  <2> HIDE DEF q
  <2>5. FilesTyped' /\ ExeIsForMsi'
    BY <1>11, <1>a DEF BeginRollbackPlan, FilesTyped, ExeIsForMsi, PlaceOK, HelperType, Replacing, Installing, Reading, files, managerVars
  <2> QED
    BY <1>11, <2>1, <2>2, <2>5, HelperMoves DEF BeginRollbackPlan, Working, Undoing, files, managerVars
<1>12. CASE BeginUndo(h)
  <2> DEFINE todo == {e \in undo[p.target] : e >= p.entry}
             e == CHOOSE f \in todo : \A k \in todo : f <= k
             q == [p EXCEPT !.pc = "undoing", !.entry = e]
  <2>0. p.target \in Versions /\ undo[p.target] \in SUBSET Plan
    BY <1>12, ShapeOf DEF BeginUndo, FilesTyped
  <2>3. e \in todo
    <3>1. todo \in SUBSET Nat /\ todo # {}  BY <1>12, <2>0 DEF BeginUndo, Plan
    <3> QED  BY <3>1, HasLeast
  <2>4. e \in Plan  BY <2>0, <2>3
  <2>6. helper' = [helper EXCEPT ![h].pc = "undoing", ![h].entry = e] /\ p.pc = "undo"
    BY <1>12 DEF BeginUndo
  <2> HIDE DEF e
  <2>1. q \in HelperType /\ PlaceOK(q)
    <3>1. /\ q.pc = "undoing" /\ q.entry = e /\ q.target = p.target
          /\ q.kept = p.kept /\ q.exe = p.exe /\ q.rollback = p.rollback /\ q \in HelperType
      <4>1. e \in 1..Entries + 1  BY <2>4 DEF Plan
      <4> QED  BY <1>a, <4>1 DEF HelperType, PCs
    <3> HIDE DEF q
    <3> QED  BY <3>1, <2>4, <2>6, <1>a DEF PlaceOK, Reading, Replacing, Installing, Undoing
  <2>2. helper' = [helper EXCEPT ![h] = q]
    BY <2>6, <1>b
  <2> HIDE DEF q
  <2>5. FilesTyped' /\ ExeIsForMsi'
    BY <1>12, <1>a DEF BeginUndo, FilesTyped, ExeIsForMsi, PlaceOK, HelperType, Replacing, Installing, Reading, files, managerVars
  <2> QED
    BY <1>12, <2>1, <2>2, <2>5, HelperMoves DEF BeginUndo, Working, Undoing, files, managerVars
<1>13. CASE EndUndo(h)
  <2> DEFINE q == [p EXCEPT !.pc = "undo", !.entry = @ + 1]
  <2>3. p.entry \in Plan /\ p.entry + 1 \in 1..Entries + 1 /\ p.entry + 1 > Exe
    BY <1>13, <1>a DEF EndUndo, PlaceOK, Replacing, Plan, Exe
  <2>4. /\ q.pc = "undo" /\ q.entry = p.entry + 1 /\ q.target = p.target
        /\ q.kept = p.kept /\ q.exe = p.exe /\ q.rollback = p.rollback /\ q \in HelperType
    BY <1>a, <2>3 DEF HelperType, PCs
  <2>1. q \in HelperType /\ PlaceOK(q)
    <3> HIDE DEF q
    <3> QED  BY <2>3, <2>4, <1>13, <1>a DEF EndUndo, PlaceOK, Reading, Replacing, Installing, Undoing
  <2>2. helper' = [helper EXCEPT ![h] = q]
    BY <1>13, <1>b DEF EndUndo
  <2> HIDE DEF q
  <2>5. FilesTyped' /\ ExeIsForMsi'
    BY <1>13, <1>a DEF EndUndo, FilesTyped, ExeIsForMsi, PlaceOK, HelperType, Replacing, Installing, Reading, files, managerVars
  <2> QED
    BY <1>13, <2>1, <2>2, <2>5, HelperMoves DEF EndUndo, Working, Undoing, files, managerVars
<1>14. CASE UndoCompleted(h)
  <2> DEFINE q == [p EXCEPT !.pc = "done", !.entry = 1, !.kept = {}]
  <2>1. q \in HelperType /\ PlaceOK(q)
    BY <1>14, <1>a, EndedShape DEF UndoCompleted
  <2>2. helper' = [helper EXCEPT ![h] = q]
    BY <1>14, <1>b DEF UndoCompleted, Exits
  <2> HIDE DEF q
  <2>5. FilesTyped' /\ ExeIsForMsi'
    BY <1>14, <1>a DEF UndoCompleted, FilesTyped, ExeIsForMsi, PlaceOK, HelperType, Replacing, Installing, Reading, files, managerVars
  <2> QED
    BY <1>14, <2>1, <2>2, <2>5, HelperMoves DEF UndoCompleted, Working, Undoing, files, managerVars
<1>15. CASE HelperStops(h)
  <2> DEFINE q == [p EXCEPT !.pc = "stopped", !.entry = 1, !.kept = {}]
  <2>1. q \in HelperType /\ PlaceOK(q)
    BY <1>15, <1>a, EndedShape DEF HelperStops, Working
  <2>2. helper' = [helper EXCEPT ![h] = q]
    BY <1>15, <1>b DEF HelperStops, Exits
  <2> HIDE DEF q
  <2>5. FilesTyped' /\ ExeIsForMsi'
    BY <1>15, <1>a DEF HelperStops, FilesTyped, ExeIsForMsi, PlaceOK, HelperType, Replacing, Installing, Reading, files, managerVars
  <2> QED
    BY <1>15, <2>1, <2>2, <2>5, HelperMoves DEF HelperStops, Working, Undoing, files, managerVars
<1>16. CASE EndRollbackPlan(h)
  <2> DEFINE q == [p EXCEPT !.pc = IF p.exe THEN "restart" ELSE "msi"]
  <2>1. q \in HelperType /\ PlaceOK(q)
    BY <1>16, <1>a DEF EndRollbackPlan, HelperType, PCs, PlaceOK, Reading, Replacing, Installing, Undoing, Plan
  <2>2. helper' = [helper EXCEPT ![h] = q]
    BY <1>16, <1>b DEF EndRollbackPlan, Goto
  <2> HIDE DEF q
  <2>5. FilesTyped' /\ ExeIsForMsi'
    BY <1>16, <1>a DEF EndRollbackPlan, FilesTyped, ExeIsForMsi, PlaceOK, HelperType, Replacing, Installing, Reading, files, managerVars
  <2> QED
    BY <1>16, <2>1, <2>2, <2>5, HelperMoves DEF EndRollbackPlan, Working, Undoing, files, managerVars
<1>17. CASE LaunchMsi(h)
  <2> DEFINE q == [p EXCEPT !.pc = "restart"]
  <2>1. q \in HelperType /\ PlaceOK(q)
    BY <1>17, <1>a DEF LaunchMsi, HelperType, PCs, PlaceOK, Reading, Replacing, Installing, Undoing, Plan
  <2>2. helper' = [helper EXCEPT ![h] = q]
    BY <1>17, <1>b DEF LaunchMsi, Goto
  <2> HIDE DEF q
  <2>5. FilesTyped' /\ ExeIsForMsi'
    BY <1>17, <1>a DEF LaunchMsi, FilesTyped, ExeIsForMsi, PlaceOK, HelperType, Replacing, Installing, Reading, files, managerVars
  <2> QED
    BY <1>17, <2>1, <2>2, <2>5, HelperMoves DEF LaunchMsi, Working, Undoing, files, managerVars
<1> QED
  BY <1>1, <1>2, <1>3, <1>4, <1>5, <1>6, <1>7, <1>8,
     <1>9, <1>10, <1>11, <1>12, <1>13, <1>14, <1>15, <1>16, <1>17 DEF HelperStep

(* A helper that starts.                                                    *)
LEMMA StartKeepsShape ==
  ASSUME Shape, NEW h \in Helpers, NEW v \in Versions, NEW pc \in {"read", "undo"},
         NEW exe \in BOOLEAN, pc = "read" => exe = writable, StartHelper(h, v, pc, exe),
         UNCHANGED <<dest, temp, backup, undo, node, msi, writable>>, OpPlaces',
         staging' \in [Versions -> 0..2 * Updater], planFile' \in [Versions -> BOOLEAN],
         published' \subseteq Versions, server' \in 0..MaxVersion, status' \in States,
         candidate' \in 0..MaxVersion, staged' \in 0..MaxVersion, op' \in OpType,
         disturbed' \in BOOLEAN
  PROVE  Shape'
<1> DEFINE q == [NewHelper EXCEPT !.pc = pc, !.target = v, !.exe = exe,
                                  !.rollback = (pc = "undo")]
<1>1. /\ helper \in [Helpers -> HelperType] /\ HelperPlaces /\ ExeIsForMsi /\ OneWorks
      /\ FilesTyped /\ origin \in [Versions -> [Plan -> Contents]] /\ runs \in [Versions -> Nat]
      /\ overlap \in BOOLEAN /\ writable \in BOOLEAN
  BY DEF Shape, Typed, TypeOK, FilesTyped
<1>2. /\ q.pc = pc /\ q.target = v /\ q.entry = 1 /\ q.kept = {} /\ q.exe = exe
      /\ q.rollback = (pc = "undo") /\ q \in HelperType
  <2>1. 1 \in 1..Entries + 1 /\ v \in 0..MaxVersion /\ pc \in PCs
    BY Constants DEF PCs, Versions
  <2> QED  BY <2>1 DEF NewHelper, HelperType
<1>3. helper' = [helper EXCEPT ![h] = q] /\ helper[h].pc = "unborn"
  BY DEF StartHelper
<1> HIDE DEF q
<1>4. q \in HelperType /\ PlaceOK(q)
  <2>1. CASE pc = "read"
    BY <1>2, <2>1 DEF PlaceOK, Reading, Replacing, Installing, Undoing, Exe
  <2>2. CASE pc = "undo"
    BY <1>2, <2>2 DEF PlaceOK, Reading, Replacing, Installing, Undoing, Exe
  <2> QED  BY <1>2, <2>1, <2>2
<1>5. \A g \in Helpers : helper'[g] = IF g = h THEN q ELSE helper[g]
  BY <1>1, <1>3
<1>6. helper' \in [Helpers -> HelperType]  BY <1>1, <1>3, <1>4
<1>7. HelperPlaces'
  BY <1>1, <1>4, <1>5 DEF HelperPlaces, PlaceOK
<1>8. OneWorks'
  <2>1. overlap' = (overlap \/ \E g \in Helpers : Working(g))  BY DEF StartHelper
  <2>2. \A g \in Helpers : g # h => (Working(g)' <=> Working(g))  BY <1>5 DEF Working
  <2> QED  BY <2>1, <2>2 DEF OneWorks
<1>9. /\ runs' \in [Versions -> Nat] /\ origin' \in [Versions -> [Plan -> Contents]]
      /\ overlap' \in BOOLEAN
  BY <1>1 DEF StartHelper, FilesTyped
<1>10. Typed'
  BY <1>1, <1>6, <1>9 DEF Typed, TypeOK, FilesTyped
<1>11. ExeIsForMsi'  BY <1>1 DEF ExeIsForMsi
<1> QED  BY <1>7, <1>8, <1>10, <1>11 DEF Shape

LEMMA SpawnKeepsShape == ASSUME Shape, HelperSpawned PROVE Shape'
<1>1. TypeOK /\ OpPlaces /\ disturbed \in BOOLEAN /\ writable \in BOOLEAN
  BY DEF Shape, Typed
<1>2. staged \in Versions
  BY <1>1, Constants DEF TypeOK, OpPlaces, HelperSpawned, Versions
<1>3. PICK h \in Helpers : StartHelper(h, staged, "read", writable)
  BY DEF HelperSpawned
<1>4. staging \in [Versions -> 0..2 * Updater] /\ planFile \in [Versions -> BOOLEAN]
  BY <1>1 DEF TypeOK
<1>5. planFile' \in [Versions -> BOOLEAN]
  BY <1>4 DEF HelperSpawned
<1>6. OpPlaces' /\ op' \in OpType /\ status' \in States
  BY <1>1, <1>2, Constants DEF HelperSpawned, TypeOK, OpPlaces, OpGoto, OpType, NoOp
<1>7. /\ UNCHANGED <<dest, temp, backup, undo, node, msi, writable>>
      /\ UNCHANGED <<staging, published, server, candidate, staged, disturbed>>
  BY DEF HelperSpawned
<1>8. /\ staging' \in [Versions -> 0..2 * Updater] /\ published' \subseteq Versions
      /\ server' \in 0..MaxVersion /\ candidate' \in 0..MaxVersion
      /\ staged' \in 0..MaxVersion /\ disturbed' \in BOOLEAN
  BY <1>1, <1>7 DEF TypeOK
<1> QED  BY <1>1, <1>2, <1>3, <1>5, <1>6, <1>7, <1>8, StartKeepsShape

LEMMA UserRollsBackKeepsShape == ASSUME Shape, UserRollsBack PROVE Shape'
<1>1. TypeOK /\ OpPlaces /\ disturbed \in BOOLEAN
  BY DEF Shape, Typed
<1>2. PICK v \in Versions, h \in Helpers :
         StartHelper(h, v, "undo", TRUE) /\ UNCHANGED <<files, managerVars>>
  BY DEF UserRollsBack
<1>3. OpPlaces'  BY <1>1, <1>2 DEF OpPlaces, managerVars
<1>4. /\ UNCHANGED <<dest, temp, backup, undo, node, msi, writable>>
      /\ UNCHANGED <<staging, planFile, published, server, status, candidate, staged, op, disturbed>>
  BY <1>2 DEF files, managerVars
<1>5. /\ staging' \in [Versions -> 0..2 * Updater] /\ planFile' \in [Versions -> BOOLEAN]
      /\ published' \subseteq Versions /\ server' \in 0..MaxVersion /\ status' \in States
      /\ candidate' \in 0..MaxVersion /\ staged' \in 0..MaxVersion /\ op' \in OpType
      /\ disturbed' \in BOOLEAN
  BY <1>1, <1>4 DEF TypeOK
<1> QED  BY <1>2, <1>3, <1>4, <1>5, StartKeepsShape

LEMMA RestartKeepsShape ==
  ASSUME Shape, NEW h \in Helpers, HelperRestarts(h)
  PROVE  Shape'
<1> DEFINE p == helper[h]
           q == [p EXCEPT !.pc = "done", !.entry = 1, !.kept = {}]
<1>a. p \in HelperType /\ PlaceOK(p)  BY ShapeOf
<1>1. q \in HelperType /\ PlaceOK(q)
  BY <1>a, EndedShape DEF HelperRestarts
<1>2. helper \in [Helpers -> HelperType] /\ helper' = [helper EXCEPT ![h] = q]
  BY DEF HelperRestarts, Exits, Shape, Typed, TypeOK
<1> HIDE DEF q
<1>3. \A g \in Helpers : helper'[g] = IF g = h THEN q ELSE helper[g]  BY <1>2
<1>4. HelperPlaces'
  BY <1>1, <1>3 DEF HelperPlaces, PlaceOK, Shape, HelperRestarts
<1>5. OneWorks'
  <2>1. Working(h)  BY DEF HelperRestarts, Working
  <2> QED  BY <1>3, <2>1 DEF OneWorks, Working, Shape, HelperRestarts
<1>6. server' \in 0..MaxVersion
  BY Constants DEF HelperRestarts, StartServer, Complete, Shape, Typed, TypeOK, Versions
<1>7. Typed'
  BY <1>1, <1>2, <1>6 DEF Shape, Typed, TypeOK, HelperRestarts, files
<1> QED
  BY <1>4, <1>5, <1>7 DEF Shape, ExeIsForMsi, OpPlaces, HelperRestarts, files

LEMMA MsiKeepsShape ==
  ASSUME Shape, MsiInstalls, UNCHANGED managerVars
  PROVE  Shape'
<1>1. dest' \in [Plan -> Contents] /\ msi' \in 0..MaxVersion
  BY Constants DEF MsiInstalls, Shape, Typed, TypeOK, Contents, Plan
<1>2. Typed'  BY <1>1 DEF MsiInstalls, managerVars, Shape, Typed, TypeOK
<1>3. HelperPlaces' /\ OneWorks'
  BY DEF MsiInstalls, managerVars, Shape, HelperPlaces, PlaceOK, OneWorks, Working
<1> QED
  BY <1>2, <1>3 DEF MsiInstalls, managerVars, Shape, ExeIsForMsi, OpPlaces

(* Every step is one of the server's, or one of a helper.                   *)
LEMMA StepIs ==
  ASSUME Next
  PROVE  \/ ManagerStep \/ HelperSpawned \/ UserRollsBack
         \/ MsiInstalls /\ UNCHANGED managerVars
         \/ \E h \in Helpers : (HelperStep(h) \/ HelperStops(h)) /\ UNCHANGED managerVars
         \/ \E h \in Helpers : HelperRestarts(h)
BY DEF Next, ManagerStep, Operate, HelperWorks

LEMMA ShapeIsKept == Shape /\ [Next]_vars => Shape'
<1> SUFFICES ASSUME Shape, [Next]_vars PROVE Shape'  OBVIOUS
<1>1. CASE UNCHANGED vars
  <2>1. HelpersLeft /\ UNCHANGED <<staging, planFile, managerVars>>
    BY <1>1 DEF vars, helperVars, files, managerVars, HelpersLeft
  <2>2. TypeOK' /\ OpPlaces' /\ disturbed' \in BOOLEAN
    BY <2>1 DEF HelpersLeft, managerVars, Shape, Typed, TypeOK, OpPlaces
  <2> QED  BY <2>1, <2>2, ManagerShape
<1>2. CASE Next
  BY <1>2, StepIs, ManagerKeepsShape, SpawnKeepsShape, UserRollsBackKeepsShape,
     RestartKeepsShape, MsiKeepsShape, HelperKeepsShape
<1> QED  BY <1>1, <1>2

-----------------------------------------------------------------------------
(* What each step of a helper writes, file by file.                         *)
Becomes(h, pc, entry, kept) ==
    /\ helper'[h].pc = pc /\ helper'[h].entry = entry /\ helper'[h].kept = kept
    /\ helper'[h].target = helper[h].target /\ helper'[h].exe = helper[h].exe
    /\ helper'[h].rollback = helper[h].rollback
    /\ \A g \in Helpers : g # h => helper'[g] = helper[g]
    /\ UNCHANGED <<staging, planFile, origin, runs, overlap>>

DestBecomes(e, content) == \A f \in Plan : dest'[f] = IF f = e THEN content ELSE dest[f]
TempBecomes(e, content) == \A f \in Plan : temp'[f] = IF f = e THEN content ELSE temp[f]
BackupBecomes(v, e, content) ==
    \A u \in Versions, f \in Plan :
        backup'[u][f] = IF u = v /\ f = e THEN content ELSE backup[u][f]

LEMMA TypesOf ==
  ASSUME Shape, NEW h \in Helpers
  PROVE  /\ helper \in [Helpers -> HelperType] /\ helper[h] \in HelperType
         /\ helper[h].pc \in PCs /\ helper[h].entry \in 1..Entries + 1
         /\ helper[h].kept \in SUBSET Plan
         /\ helper[h].exe \in BOOLEAN /\ helper[h].rollback \in BOOLEAN
         /\ dest \in [Plan -> Contents] /\ temp \in [Plan -> Contents]
         /\ backup \in [Versions -> [Plan -> Contents]]
         /\ undo \in [Versions -> SUBSET Plan] /\ msi \in 0..MaxVersion
BY DEF Shape, Typed, TypeOK, HelperType

LEMMA ReadPlanDoes ==
  ASSUME Shape, NEW h \in Helpers, ReadPlan(h)
  PROVE  /\ helper[h].pc = "read"
         /\ Becomes(h, "verify", helper[h].entry, helper[h].kept)
         /\ UNCHANGED <<dest, temp, backup, undo, msi>>
<1>1. Becomes(h, "verify", helper[h].entry, helper[h].kept)
  BY TypesOf DEF Becomes, HelperType, ReadPlan, Goto, files
<1> QED  BY <1>1, TypesOf, ShapeOf DEF ReadPlan, Goto, files

LEMMA VerifyAssetsDoes ==
  ASSUME Shape, NEW h \in Helpers, VerifyAssets(h)
  PROVE  /\ helper[h].pc = "verify"
         /\ Becomes(h, IF KeepsRuntime THEN "saving" ELSE "check",
                    IF helper[h].exe THEN Exe ELSE Exe + 1, helper[h].kept)
         /\ UNCHANGED <<dest, temp, backup, undo, msi>>
<1>1. Becomes(h, IF KeepsRuntime THEN "saving" ELSE "check",
          IF helper[h].exe THEN Exe ELSE Exe + 1, helper[h].kept)
  BY TypesOf DEF Becomes, HelperType, VerifyAssets
<1> QED  BY <1>1, TypesOf, ShapeOf DEF VerifyAssets

LEMMA EndRuntimeBackupDoes ==
  ASSUME Shape, NEW h \in Helpers, EndRuntimeBackup(h)
  PROVE  /\ helper[h].pc = "saving"
         /\ Becomes(h, "check", helper[h].entry, helper[h].kept)
         /\ UNCHANGED <<dest, temp, backup, undo, msi>>
<1>1. Becomes(h, "check", helper[h].entry, helper[h].kept)
  BY TypesOf DEF Becomes, HelperType, EndRuntimeBackup, Goto
<1> QED  BY <1>1, TypesOf, ShapeOf DEF EndRuntimeBackup, Goto

LEMMA BeginReplaceDoes ==
  ASSUME Shape, NEW h \in Helpers, BeginReplace(h)
  PROVE  /\ helper[h].pc = "check"
         /\ helper[h].entry \in Plan /\ IsStaged(helper[h].target, helper[h].entry)
         /\ Becomes(h, IF dest[helper[h].entry] = Absent THEN "copy" ELSE "backing",
                    helper[h].entry, helper[h].kept)
         /\ dest[helper[h].entry] = Absent => UNCHANGED backup
         /\ dest[helper[h].entry] # Absent => BackupBecomes(helper[h].target, helper[h].entry, Torn)
         /\ UNCHANGED <<dest, temp, undo, msi>>
<1>1. Becomes(h, IF dest[helper[h].entry] = Absent THEN "copy" ELSE "backing",
          helper[h].entry, helper[h].kept)
  BY TypesOf DEF Becomes, HelperType, BeginReplace, Goto
<1> QED  BY <1>1, TypesOf, ShapeOf DEF BeginReplace, Goto, BackupBecomes

LEMMA EndBackupDoes ==
  ASSUME Shape, NEW h \in Helpers, EndBackup(h)
  PROVE  /\ helper[h].pc = "backing"
         /\ Becomes(h, "copy", helper[h].entry, helper[h].kept \cup {helper[h].entry})
         /\ BackupBecomes(helper[h].target, helper[h].entry, dest[helper[h].entry])
         /\ UNCHANGED <<dest, temp, undo, msi>>
<1>1. Becomes(h, "copy", helper[h].entry, helper[h].kept \cup {helper[h].entry})
  BY TypesOf DEF Becomes, HelperType, EndBackup
<1> QED  BY <1>1, TypesOf, ShapeOf DEF EndBackup, BackupBecomes

LEMMA BeginCopyDoes ==
  ASSUME Shape, NEW h \in Helpers, BeginCopy(h)
  PROVE  /\ helper[h].pc = "copy"
         /\ Becomes(h, IF IsStaged(helper[h].target, helper[h].entry) THEN "copying" ELSE "short",
                    helper[h].entry, helper[h].kept)
         /\ TempBecomes(helper[h].entry, Torn)
         /\ UNCHANGED <<dest, backup, undo, msi>>
<1>1. Becomes(h, IF IsStaged(helper[h].target, helper[h].entry) THEN "copying" ELSE "short",
          helper[h].entry, helper[h].kept)
  BY TypesOf DEF Becomes, HelperType, BeginCopy, Goto
<1> QED  BY <1>1, TypesOf, ShapeOf DEF BeginCopy, Goto, TempBecomes

LEMMA EndCopyDoes ==
  ASSUME Shape, NEW h \in Helpers, EndCopy(h)
  PROVE  /\ helper[h].pc \in {"copying", "short"}
         /\ Becomes(h, "remove", helper[h].entry, helper[h].kept)
         /\ TempBecomes(helper[h].entry, IF helper[h].pc = "copying" THEN helper[h].target ELSE Torn)
         /\ UNCHANGED <<dest, backup, undo, msi>>
<1>1. Becomes(h, "remove", helper[h].entry, helper[h].kept)
  BY TypesOf DEF Becomes, HelperType, EndCopy, Goto
<1> QED  BY <1>1, TypesOf, ShapeOf DEF EndCopy, Goto, TempBecomes

LEMMA RemoveInstalledDoes ==
  ASSUME Shape, NEW h \in Helpers, RemoveInstalled(h)
  PROVE  /\ helper[h].pc = "remove"
         /\ Becomes(h, "rename", helper[h].entry, helper[h].kept)
         /\ DestBecomes(helper[h].entry, Absent)
         /\ UNCHANGED <<temp, backup, undo, msi>>
<1>1. Becomes(h, "rename", helper[h].entry, helper[h].kept)
  BY TypesOf DEF Becomes, HelperType, RemoveInstalled, Goto
<1> QED  BY <1>1, TypesOf, ShapeOf DEF RemoveInstalled, Goto, DestBecomes

LEMMA RenameIntoPlaceDoes ==
  ASSUME Shape, NEW h \in Helpers, RenameIntoPlace(h)
  PROVE  /\ helper[h].pc = "rename"
         /\ temp[helper[h].entry] # Absent
         /\ Becomes(h, "confirm", helper[h].entry, helper[h].kept)
         /\ DestBecomes(helper[h].entry, temp[helper[h].entry])
         /\ TempBecomes(helper[h].entry, Absent)
         /\ UNCHANGED <<backup, undo, msi>>
<1>1. Becomes(h, "confirm", helper[h].entry, helper[h].kept)
  BY TypesOf DEF Becomes, HelperType, RenameIntoPlace, Goto
<1> QED  BY <1>1, TypesOf, ShapeOf DEF RenameIntoPlace, Goto, TempBecomes, DestBecomes

LEMMA ConfirmInstalledDoes ==
  ASSUME Shape, NEW h \in Helpers, ConfirmInstalled(h)
  PROVE  /\ helper[h].pc = "confirm"
         /\ dest[helper[h].entry] = helper[h].target
         /\ Becomes(h, "check", helper[h].entry + 1, helper[h].kept)
         /\ UNCHANGED <<dest, temp, backup, undo, msi>>
<1>1. Becomes(h, "check", helper[h].entry + 1, helper[h].kept)
  BY TypesOf DEF Becomes, HelperType, ConfirmInstalled, files
<1> QED  BY <1>1, TypesOf, ShapeOf DEF ConfirmInstalled, files

LEMMA BeginRollbackPlanDoes ==
  ASSUME Shape, NEW h \in Helpers, BeginRollbackPlan(h)
  PROVE  /\ helper[h].pc = "check"
         /\ helper[h].entry = Entries + 1
         /\ Becomes(h, "planning", helper[h].entry, helper[h].kept)
         /\ \A v \in Versions : undo'[v] = IF v = helper[h].target THEN {} ELSE undo[v]
         /\ UNCHANGED <<dest, temp, backup, msi>>
<1>1. Becomes(h, "planning", helper[h].entry, helper[h].kept)
  BY TypesOf DEF Becomes, HelperType, BeginRollbackPlan, Goto, Plan
<1> QED  BY <1>1, TypesOf, ShapeOf, HelperAssumption DEF BeginRollbackPlan, Goto, Plan

LEMMA EndRollbackPlanDoes ==
  ASSUME Shape, NEW h \in Helpers, EndRollbackPlan(h)
  PROVE  /\ helper[h].pc = "planning"
         /\ Becomes(h, IF helper[h].exe THEN "restart" ELSE "msi", helper[h].entry, helper[h].kept)
         /\ \A v \in Versions : undo'[v] = IF v = helper[h].target THEN helper[h].kept ELSE undo[v]
         /\ UNCHANGED <<dest, temp, backup, msi>>
<1>1. Becomes(h, IF helper[h].exe THEN "restart" ELSE "msi", helper[h].entry, helper[h].kept)
  BY TypesOf DEF Becomes, HelperType, EndRollbackPlan, Goto
<1> QED  BY <1>1, TypesOf, ShapeOf DEF EndRollbackPlan, Goto

LEMMA LaunchMsiDoes ==
  ASSUME Shape, NEW h \in Helpers, LaunchMsi(h)
  PROVE  /\ helper[h].pc = "msi"
         /\ Becomes(h, "restart", helper[h].entry, helper[h].kept)
         /\ msi' = helper[h].target
         /\ UNCHANGED <<dest, temp, backup, undo>>
<1>1. Becomes(h, "restart", helper[h].entry, helper[h].kept)
  BY TypesOf DEF Becomes, HelperType, LaunchMsi, Goto
<1> QED  BY <1>1, TypesOf, ShapeOf DEF LaunchMsi, Goto

LEMMA BeginUndoDoes ==
  ASSUME Shape, NEW h \in Helpers, BeginUndo(h)
  PROVE  \E e \in undo[helper[h].target] :
            /\ helper[h].pc = "undo" /\ e >= helper[h].entry /\ e \in Plan
            /\ \A f \in undo[helper[h].target] : f < e => f < helper[h].entry
            /\ backup[helper[h].target][e] # Absent
            /\ Becomes(h, "undoing", e, helper[h].kept)
            /\ DestBecomes(e, Torn)
            /\ UNCHANGED <<temp, backup, undo, msi>>
<1> DEFINE v == helper[h].target
           todo == {e \in undo[v] : e >= helper[h].entry}
           e == CHOOSE f \in todo : \A k \in todo : f <= k
<1>1. v \in Versions /\ undo[v] \in SUBSET Plan
  BY ShapeOf, TypesOf DEF BeginUndo
<1>2. e \in todo /\ \A k \in todo : e <= k
  <2>1. todo \in SUBSET Nat /\ todo # {}  BY <1>1 DEF BeginUndo, Plan
  <2> QED  BY <2>1, HasLeast
<1>3. /\ helper[h].pc = "undo" /\ backup[v][e] # Absent
      /\ dest' = [dest EXCEPT ![e] = Torn]
      /\ helper' = [helper EXCEPT ![h].pc = "undoing", ![h].entry = e]
      /\ UNCHANGED <<temp, backup, undo, staging, planFile, msi, origin, runs, overlap>>
  BY DEF BeginUndo
<1> HIDE DEF e
<1>4. \A f \in undo[v] : f < e => f < helper[h].entry
  BY <1>1, <1>2, TypesOf DEF Plan
<1>5. Becomes(h, "undoing", e, helper[h].kept)
  BY <1>3, TypesOf DEF Becomes, HelperType
<1>6. DestBecomes(e, Torn)
  BY <1>3, TypesOf DEF DestBecomes
<1>7. e \in undo[v] /\ e >= helper[h].entry /\ e \in Plan  BY <1>1, <1>2
<1> QED  BY <1>3, <1>4, <1>5, <1>6, <1>7

LEMMA EndUndoDoes ==
  ASSUME Shape, NEW h \in Helpers, EndUndo(h)
  PROVE  /\ helper[h].pc = "undoing"
         /\ Becomes(h, "undo", helper[h].entry + 1, helper[h].kept)
         /\ DestBecomes(helper[h].entry, backup[helper[h].target][helper[h].entry])
         /\ UNCHANGED <<temp, backup, undo, msi>>
<1>1. Becomes(h, "undo", helper[h].entry + 1, helper[h].kept)
  BY TypesOf DEF Becomes, HelperType, EndUndo
<1> QED  BY <1>1, TypesOf, ShapeOf DEF EndUndo, DestBecomes

LEMMA UndoCompletedDoes ==
  ASSUME Shape, NEW h \in Helpers, UndoCompleted(h)
  PROVE  /\ helper[h].pc = "undo"
         /\ Becomes(h, "done", 1, {})
         /\ UNCHANGED <<dest, temp, backup, undo, msi>>
<1>1. Becomes(h, "done", 1, {})
  BY TypesOf DEF Becomes, HelperType, UndoCompleted, Exits, files
<1> QED  BY <1>1, TypesOf, ShapeOf DEF UndoCompleted, files

LEMMA HelperStopsDoes ==
  ASSUME Shape, NEW h \in Helpers, HelperStops(h)
  PROVE  /\ helper[h].pc \notin {"unborn", "done", "stopped"}
         /\ Becomes(h, "stopped", 1, {})
         /\ UNCHANGED <<dest, temp, backup, undo, msi>>
<1>1. Becomes(h, "stopped", 1, {})
  BY TypesOf DEF Becomes, HelperType, HelperStops, Exits, files, Working
<1> QED  BY <1>1, TypesOf, ShapeOf DEF HelperStops, files, Working

LEMMA HelperRestartsDoes ==
  ASSUME Shape, NEW h \in Helpers, HelperRestarts(h)
  PROVE  /\ helper[h].pc = "restart"
         /\ Becomes(h, "done", 1, {})
         /\ UNCHANGED <<dest, temp, backup, undo, msi>>
         /\ UNCHANGED <<published, writable, status, candidate, staged, op, requested, disturbed,
                         halfCancelled>>
         /\ server' = IF server = Stopped THEN dest[Exe] ELSE server
<1>1. Becomes(h, "done", 1, {})
  BY TypesOf DEF Becomes, HelperType, HelperRestarts, Exits, files
<1> QED  BY <1>1 DEF HelperRestarts, files, StartServer

LEMMA StartHelperDoes ==
  ASSUME Shape, NEW h \in Helpers, NEW v \in Versions, NEW pc, NEW exe, StartHelper(h, v, pc, exe)
  PROVE  /\ helper[h].pc = "unborn"
         /\ helper'[h].pc = pc /\ helper'[h].target = v /\ helper'[h].entry = Exe
         /\ helper'[h].kept = {} /\ helper'[h].exe = exe
         /\ \A g \in Helpers : g # h => helper'[g] = helper[g]
         /\ ~overlap' => ~overlap /\ \A g \in Helpers : ~Working(g)
         /\ \A u \in Versions :
               /\ runs'[u] = IF u = v /\ pc = "read" THEN runs[u] + 1 ELSE runs[u]
               /\ origin'[u] = IF u = v /\ runs[v] = 0 THEN dest ELSE origin[u]
<1>1. helper \in [Helpers -> HelperType] /\ runs \in [Versions -> Nat]
      /\ origin \in [Versions -> [Plan -> Contents]]
  BY DEF Shape, Typed, TypeOK
<1> QED  BY <1>1 DEF StartHelper, NewHelper, Exe

LEMMA HelperStepDoes ==
  ASSUME Shape, NEW h \in Helpers, HelperStep(h) \/ HelperStops(h)
  PROVE  /\ Working(h) /\ helper[h].target \in Versions
         /\ helper'[h].target = helper[h].target /\ helper'[h].exe = helper[h].exe
         /\ helper'[h].rollback = helper[h].rollback
         /\ \A g \in Helpers : g # h => helper'[g] = helper[g]
         /\ UNCHANGED <<staging, planFile, origin, runs, overlap>>
         /\ ~overlap => \A g \in Helpers : g # h => helper'[g].pc \in {"unborn", "done", "stopped"}
         /\ helper'[h].pc \in Installing => helper[h].pc \in Installing
         /\ helper'[h].pc \in Undoing => helper[h].pc \in Undoing
<1>1. /\ Working(h)
      /\ \E pc, entry, kept : Becomes(h, pc, entry, kept)
      /\ helper'[h].pc \in Installing => helper[h].pc \in Installing
      /\ helper'[h].pc \in Undoing => helper[h].pc \in Undoing
  <2>1. CASE ReadPlan(h)  BY <2>1, ReadPlanDoes DEF Working, Becomes, Installing, Undoing, Reading, Replacing
  <2>2. CASE VerifyAssets(h)  BY <2>2, VerifyAssetsDoes DEF Working, Becomes, Installing, Undoing, Reading, Replacing
  <2>3. CASE EndRuntimeBackup(h)  BY <2>3, EndRuntimeBackupDoes DEF Working, Becomes, Installing, Undoing, Reading, Replacing
  <2>4. CASE BeginReplace(h)  BY <2>4, BeginReplaceDoes DEF Working, Becomes, Installing, Undoing, Reading, Replacing
  <2>5. CASE EndBackup(h)  BY <2>5, EndBackupDoes DEF Working, Becomes, Installing, Undoing, Reading, Replacing
  <2>6. CASE BeginCopy(h)  BY <2>6, BeginCopyDoes DEF Working, Becomes, Installing, Undoing, Reading, Replacing
  <2>7. CASE EndCopy(h)  BY <2>7, EndCopyDoes DEF Working, Becomes, Installing, Undoing, Reading, Replacing
  <2>8. CASE RemoveInstalled(h)  BY <2>8, RemoveInstalledDoes DEF Working, Becomes, Installing, Undoing, Reading, Replacing
  <2>9. CASE RenameIntoPlace(h)  BY <2>9, RenameIntoPlaceDoes DEF Working, Becomes, Installing, Undoing, Reading, Replacing
  <2>10. CASE ConfirmInstalled(h)  BY <2>10, ConfirmInstalledDoes DEF Working, Becomes, Installing, Undoing, Reading, Replacing
  <2>11. CASE BeginRollbackPlan(h)  BY <2>11, BeginRollbackPlanDoes DEF Working, Becomes, Installing, Undoing, Reading, Replacing
  <2>16. CASE EndRollbackPlan(h)  BY <2>16, EndRollbackPlanDoes DEF Working, Becomes, Installing, Undoing, Reading, Replacing
  <2>17. CASE LaunchMsi(h)  BY <2>17, LaunchMsiDoes DEF Working, Becomes, Installing, Undoing, Reading, Replacing
  <2>12. CASE BeginUndo(h)  BY <2>12, BeginUndoDoes DEF Working, Becomes, Installing, Undoing, Reading, Replacing
  <2>13. CASE EndUndo(h)  BY <2>13, EndUndoDoes DEF Working, Becomes, Installing, Undoing, Reading, Replacing
  <2>14. CASE UndoCompleted(h)  BY <2>14, UndoCompletedDoes DEF Working, Becomes, Installing, Undoing, Reading, Replacing
  <2>15. CASE HelperStops(h)  BY <2>15, HelperStopsDoes DEF Working, Becomes, Installing, Undoing, Reading, Replacing
  <2> QED  BY <2>1, <2>2, <2>3, <2>4, <2>5, <2>6, <2>7, <2>8, <2>9, <2>10, <2>11, <2>12, <2>13, <2>14, <2>15, <2>16, <2>17 DEF HelperStep
<1>2. helper[h].target \in Versions  BY <1>1, ShapeOf DEF Working
<1>3. ~overlap => \A g \in Helpers : g # h => helper[g].pc \in {"unborn", "done", "stopped"}
  BY <1>1 DEF Shape, OneWorks, Working
<1> QED  BY <1>1, <1>2, <1>3 DEF Becomes

-----------------------------------------------------------------------------
(* How far a helper has come.                                               *)
LEMMA InitProgress == Init => Progress
BY Constants DEF Init, HelperInit, NewHelper, Progress, RunsCounted, UndoKept, InstalledUpTo, KeptBy,
   RestoredBy, Installing, Undoing, Reading, Replacing

LEMMA HelperKeepsProgress ==
  ASSUME Shape, Progress, NEW h \in Helpers, HelperStep(h) \/ HelperStops(h),
         UNCHANGED managerVars
  PROVE  Progress'
<1> DEFINE v == helper[h].target
<1>a. /\ helper[h].entry \in 1..Entries + 1 /\ helper[h].kept \in SUBSET Plan /\ v \in Versions
      /\ \A u \in Versions : undo[u] \in SUBSET Plan
      /\ helper[h].pc \in Replacing \cup {"undoing"} => helper[h].entry \in Plan
  BY TypesOf, HelperStepDoes, ShapeOf DEF PlaceOK
<1>b. writable' = writable  BY DEF managerVars
<1>c. /\ RunsCounted
      /\ ~overlap => UndoKept /\ InstalledUpTo(h) /\ KeptBy(h) /\ RestoredBy(h)
      /\ helper[h].pc \in Installing => helper[h].exe = writable
                                        /\ (~writable => Exe \notin helper[h].kept)
      /\ helper[h].pc \in {"check"} \cup Replacing /\ ~writable => helper[h].entry > Exe
      /\ helper[h].pc = "verify" => helper[h].entry = Exe
      /\ helper[h].pc = "saving" => helper[h].entry = IF helper[h].exe THEN Exe ELSE Exe + 1
  BY ShapeOf DEF Progress, PlaceOK
<1>d. \A e \in Plan : e \in Nat /\ e >= Exe  BY DEF Plan, Exe
<1> DEFINE Goal == /\ \A u \in Versions : runs[u] = 0 => undo'[u] = {}
                   /\ ~overlap => UndoKept' /\ InstalledUpTo(h)' /\ KeptBy(h)' /\ RestoredBy(h)'
<1> SUFFICES Goal
  <2>1. UNCHANGED overlap  BY HelperStepDoes
  <2>2. ASSUME ~overlap, NEW g \in Helpers, g # h
        PROVE  InstalledUpTo(g)' /\ KeptBy(g)' /\ RestoredBy(g)'
    BY <2>2, HelperStepDoes DEF InstalledUpTo, KeptBy, RestoredBy, Installing, Undoing, Reading, Replacing
  <2>3. ASSUME Goal PROVE RunsCounted'
    BY <2>3, HelperStepDoes DEF Progress, RunsCounted
  <2> QED  BY <2>1, <2>2, <2>3 DEF Progress
<1>1. CASE ReadPlan(h)
  BY <1>1, <1>a, <1>b, <1>c, ReadPlanDoes DEF Becomes, RunsCounted, UndoKept, InstalledUpTo, KeptBy, RestoredBy,
     ToReplace, ToSave, Installing, Undoing, Reading, Replacing
<1>2. CASE VerifyAssets(h)
  <2> USE <1>2, <1>a, <1>b, <1>c, <1>d, VerifyAssetsDoes DEF Becomes
  <2>1. \A u \in Versions : runs[u] = 0 => undo'[u] = {}  BY DEF RunsCounted
  <2>2. ~overlap => UndoKept'  BY DEF UndoKept
  <2>3. ~overlap => InstalledUpTo(h)'  BY DEF InstalledUpTo, Replacing, Exe
  <2>4. ~overlap => KeptBy(h)'
    BY DEF KeptBy, ToReplace, ToSave, Installing, Reading, Replacing, Exe
  <2>5. ~overlap => RestoredBy(h)'  BY DEF RestoredBy, Undoing
  <2> QED  BY <2>1, <2>2, <2>3, <2>4, <2>5
<1>3. CASE EndRuntimeBackup(h)
  <2> USE <1>3, <1>a, <1>b, <1>c, <1>d, EndRuntimeBackupDoes DEF Becomes
  <2>1. \A u \in Versions : runs[u] = 0 => undo'[u] = {}  BY DEF RunsCounted
  <2>2. ~overlap => UndoKept'  BY DEF UndoKept
  <2>3. ~overlap => InstalledUpTo(h)'  BY DEF InstalledUpTo, Replacing, Exe
  <2>4. ~overlap => KeptBy(h)'
    BY DEF KeptBy, ToReplace, ToSave, Installing, Reading, Replacing, Exe
  <2>5. ~overlap => RestoredBy(h)'  BY DEF RestoredBy, Undoing
  <2> QED  BY <2>1, <2>2, <2>3, <2>4, <2>5
<1>4. CASE BeginReplace(h)
  BY <1>4, <1>a, <1>b, <1>c, BeginReplaceDoes DEF Becomes, RunsCounted, UndoKept, InstalledUpTo, KeptBy, RestoredBy,
     ToReplace, ToSave, Installing, Undoing, Reading, Replacing, BackupBecomes
<1>5. CASE EndBackup(h)
  BY <1>5, <1>a, <1>b, <1>c, EndBackupDoes DEF Becomes, RunsCounted, UndoKept, InstalledUpTo, KeptBy, RestoredBy,
     ToReplace, ToSave, Installing, Undoing, Reading, Replacing, BackupBecomes
<1>6. CASE BeginCopy(h)
  BY <1>6, <1>a, <1>b, <1>c, BeginCopyDoes DEF Becomes, RunsCounted, UndoKept, InstalledUpTo, KeptBy, RestoredBy,
     ToReplace, ToSave, Installing, Undoing, Reading, Replacing
<1>7. CASE EndCopy(h)
  BY <1>7, <1>a, <1>b, <1>c, EndCopyDoes DEF Becomes, RunsCounted, UndoKept, InstalledUpTo, KeptBy, RestoredBy,
     ToReplace, ToSave, Installing, Undoing, Reading, Replacing
<1>8. CASE RemoveInstalled(h)
  BY <1>8, <1>a, <1>b, <1>c, RemoveInstalledDoes DEF Becomes, RunsCounted, UndoKept, InstalledUpTo, KeptBy, RestoredBy,
     ToReplace, ToSave, Installing, Undoing, Reading, Replacing, DestBecomes
<1>9. CASE RenameIntoPlace(h)
  BY <1>9, <1>a, <1>b, <1>c, RenameIntoPlaceDoes DEF Becomes, RunsCounted, UndoKept, InstalledUpTo, KeptBy, RestoredBy,
     ToReplace, ToSave, Installing, Undoing, Reading, Replacing, DestBecomes
<1>10. CASE ConfirmInstalled(h)
  <2> USE <1>10, <1>a, <1>b, <1>c, <1>d, ConfirmInstalledDoes DEF Becomes
  <2>1. \A u \in Versions : runs[u] = 0 => undo'[u] = {}  BY DEF RunsCounted
  <2>2. ~overlap => UndoKept'  BY DEF UndoKept
  <2>3. ~overlap => InstalledUpTo(h)'  BY DEF InstalledUpTo, Replacing, Exe
  <2>4. ~overlap => KeptBy(h)'
    BY DEF KeptBy, ToReplace, ToSave, Installing, Reading, Replacing, Exe
  <2>5. ~overlap => RestoredBy(h)'  BY DEF RestoredBy, Undoing
  <2> QED  BY <2>1, <2>2, <2>3, <2>4, <2>5
<1>11. CASE BeginRollbackPlan(h)
  BY <1>11, <1>a, <1>b, <1>c, BeginRollbackPlanDoes DEF Becomes, RunsCounted, UndoKept, InstalledUpTo, KeptBy, RestoredBy,
     ToReplace, ToSave, Installing, Undoing, Reading, Replacing
<1>16. CASE EndRollbackPlan(h)
  BY <1>16, <1>a, <1>b, <1>c, EndRollbackPlanDoes DEF Becomes, RunsCounted, UndoKept, InstalledUpTo, KeptBy, RestoredBy,
     ToReplace, ToSave, Installing, Undoing, Reading, Replacing
<1>17. CASE LaunchMsi(h)
  BY <1>17, <1>a, <1>b, <1>c, LaunchMsiDoes DEF Becomes, RunsCounted, UndoKept, InstalledUpTo, KeptBy, RestoredBy,
     ToReplace, ToSave, Installing, Undoing, Reading, Replacing
<1>12. CASE BeginUndo(h)
  <2>1. PICK e \in undo[v] :
            /\ helper[h].pc = "undo" /\ e >= helper[h].entry /\ e \in Plan
            /\ \A f \in undo[v] : f < e => f < helper[h].entry
            /\ Becomes(h, "undoing", e, helper[h].kept)
            /\ DestBecomes(e, Torn)
            /\ UNCHANGED <<temp, backup, undo, msi>>
    BY <1>12, BeginUndoDoes
  <2>2. \A u \in Versions : runs[u] = 0 => undo'[u] = {}  BY <2>1, <1>c DEF RunsCounted
  <2>3. ~overlap => UndoKept'  BY <2>1, <1>c DEF UndoKept, Becomes
  <2>4. InstalledUpTo(h)' /\ KeptBy(h)'
    BY <2>1 DEF InstalledUpTo, KeptBy, Becomes, Installing, Reading, Replacing
  <2>5. ~overlap => RestoredBy(h)'
    <3>1. ASSUME ~overlap, runs[v] = 1, NEW f \in undo[v], f < e
          PROVE  dest'[f] = origin[v][f]
      <4>1. f < helper[h].entry /\ f # e /\ f \in Plan  BY <1>a, <1>d, <2>1, <3>1
      <4>2. dest[f] = origin[v][f]  BY <1>c, <2>1, <3>1, <4>1 DEF RestoredBy, Undoing
      <4> QED  BY <2>1, <4>1, <4>2 DEF DestBecomes
    <3> QED  BY <2>1, <3>1 DEF RestoredBy, Becomes
  <2> QED  BY <2>2, <2>3, <2>4, <2>5
<1>13. CASE EndUndo(h)
  <2>1. \A u \in Versions : runs[u] = 0 => undo'[u] = {}  BY <1>13, EndUndoDoes, <1>c DEF RunsCounted
  <2>2. ~overlap => UndoKept'  BY <1>13, EndUndoDoes, <1>c DEF UndoKept, Becomes
  <2>3. InstalledUpTo(h)' /\ KeptBy(h)'
    BY <1>13, EndUndoDoes DEF InstalledUpTo, KeptBy, Becomes, Installing, Reading, Replacing
  <2>4. ~overlap => RestoredBy(h)'
    <3>1. ASSUME ~overlap, runs[v] = 1, NEW f \in undo[v], f < helper[h].entry + 1
          PROVE  dest'[f] = origin[v][f]
      <4>1. f \in Plan /\ (f = helper[h].entry \/ f < helper[h].entry)  BY <1>a, <1>d, <3>1
      <4>2. dest'[f] = IF f = helper[h].entry THEN backup[v][f] ELSE dest[f]
        BY <1>13, <4>1, EndUndoDoes DEF DestBecomes
      <4>3. backup[v][f] = origin[v][f]  BY <1>a, <1>c, <3>1 DEF UndoKept
      <4>4. f < helper[h].entry => dest[f] = origin[v][f]
        BY <1>13, <1>c, <3>1, EndUndoDoes DEF RestoredBy, Undoing
      <4> QED  BY <4>1, <4>2, <4>3, <4>4
    <3> QED  BY <1>13, <3>1, EndUndoDoes DEF RestoredBy, Becomes
  <2> QED  BY <2>1, <2>2, <2>3, <2>4
<1>14. CASE UndoCompleted(h)
  BY <1>14, <1>a, <1>b, <1>c, UndoCompletedDoes DEF Becomes, RunsCounted, UndoKept, InstalledUpTo, KeptBy, RestoredBy,
     ToReplace, ToSave, Installing, Undoing, Reading, Replacing
<1>15. CASE HelperStops(h)
  BY <1>15, <1>a, <1>b, <1>c, HelperStopsDoes DEF Becomes, RunsCounted, UndoKept, InstalledUpTo, KeptBy, RestoredBy,
     ToReplace, ToSave, Installing, Undoing, Reading, Replacing
<1> QED  BY <1>1, <1>2, <1>3, <1>4, <1>5, <1>6, <1>7, <1>8, <1>9, <1>10, <1>11, <1>12, <1>13, <1>14, <1>15, <1>16, <1>17 DEF HelperStep

(* Nothing happens to the files and the helpers.                            *)
LEMMA ManagerKeepsProgress ==
  ASSUME Shape, Progress, HelpersLeft
  PROVE  Progress'
BY DEF HelpersLeft, Progress, RunsCounted, UndoKept, InstalledUpTo, KeptBy, RestoredBy, ToReplace, ToSave

LEMMA StartKeepsProgress ==
  ASSUME Shape, Progress, NEW h \in Helpers, NEW v \in Versions, NEW pc \in {"read", "undo"},
         NEW exe \in BOOLEAN, StartHelper(h, v, pc, exe), pc = "undo" => undo[v] # {},
         UNCHANGED <<dest, backup, undo, writable>>
  PROVE  Progress'
<1>1. /\ helper'[h].pc = pc /\ helper'[h].target = v /\ helper'[h].entry = Exe
      /\ helper'[h].kept = {} /\ helper'[h].exe = exe
      /\ \A g \in Helpers : g # h => helper'[g] = helper[g]
      /\ ~overlap' => ~overlap /\ \A g \in Helpers : ~Working(g)
      /\ \A u \in Versions :
            /\ runs'[u] = IF u = v /\ pc = "read" THEN runs[u] + 1 ELSE runs[u]
            /\ origin'[u] = IF u = v /\ runs[v] = 0 THEN dest ELSE origin[u]
  BY StartHelperDoes
<1>2. \A u \in Versions : runs[u] \in Nat /\ undo[u] \in SUBSET Plan
  BY DEF Shape, Typed, TypeOK
<1>3. \A e \in Plan : e \in Nat /\ e >= Exe  BY DEF Plan, Exe
<1>4. RunsCounted  BY DEF Progress
<1>5. RunsCounted'
  BY <1>1, <1>2, <1>4 DEF RunsCounted, Installing, Reading, Replacing
<1>6. ASSUME ~overlap' PROVE UndoKept'
  <2>1. UndoKept  BY <1>1, <1>6 DEF Progress
  <2>2. \A u \in Versions : runs[u] = 0 => undo[u] = {}  BY <1>4 DEF RunsCounted
  <2>3. ASSUME NEW u \in Versions, runs'[u] = 1
        PROVE  undo[u] = {} \/ (runs[u] = 1 /\ origin'[u] = origin[u])
    <3>1. CASE u = v  BY <1>1, <1>2, <2>2, <2>3, <3>1
    <3>2. CASE u # v  BY <1>1, <2>3, <3>2
    <3> QED  BY <3>1, <3>2
  <2> QED  BY <2>1, <2>3 DEF UndoKept
<1>7. ASSUME ~overlap', NEW g \in Helpers
      PROVE  InstalledUpTo(g)' /\ KeptBy(g)' /\ RestoredBy(g)'
  <2>1. CASE g # h
    <3>1. helper'[g].pc \in {"unborn", "done", "stopped"}
      BY <1>1, <1>7, <2>1 DEF Working
    <3> QED  BY <3>1 DEF InstalledUpTo, KeptBy, RestoredBy, Installing, Undoing, Reading, Replacing
  <2>2. CASE g = h
    <3>1. InstalledUpTo(h)'  BY <1>1 DEF InstalledUpTo, Replacing
    <3>2. RestoredBy(h)'
      <4>1. \A e \in undo[v] : ~(e < Exe)  BY <1>2, <1>3 DEF Exe
      <4> QED  BY <1>1, <4>1 DEF RestoredBy
    <3>3. KeptBy(h)'
      <4>1. CASE pc = "undo"  BY <1>1, <4>1 DEF KeptBy, Installing, Reading, Replacing
      <4>2. CASE pc = "read"
        <5>1. runs'[v] = 1 => runs[v] = 0 /\ undo[v] = {} /\ origin'[v] = dest
          BY <1>1, <1>2, <1>4, <4>2 DEF RunsCounted
        <5> QED  BY <1>1, <4>2, <5>1 DEF KeptBy
      <4> QED  BY <4>1, <4>2
    <3> QED  BY <2>2, <3>1, <3>2, <3>3
  <2> QED  BY <2>1, <2>2
<1> QED  BY <1>5, <1>6, <1>7 DEF Progress

LEMMA RestartKeepsProgress ==
  ASSUME Shape, Progress, NEW h \in Helpers, HelperRestarts(h)
  PROVE  Progress'
<1>1. /\ Becomes(h, "done", 1, {})
      /\ UNCHANGED <<dest, temp, backup, undo, msi, writable>>
  BY HelperRestartsDoes
<1>2. \A g \in Helpers : g # h => helper'[g] = helper[g]  BY <1>1 DEF Becomes
<1>3. RunsCounted'
  BY <1>1, <1>2 DEF Progress, RunsCounted, Becomes, Installing, Reading, Replacing
<1>4. ~overlap => UndoKept'  BY <1>1 DEF Progress, UndoKept, Becomes
<1>5. ASSUME ~overlap, NEW g \in Helpers PROVE InstalledUpTo(g)' /\ KeptBy(g)' /\ RestoredBy(g)'
  BY <1>1, <1>2, <1>5 DEF Progress, InstalledUpTo, KeptBy, RestoredBy, ToReplace, ToSave, Becomes,
     Installing, Undoing, Reading, Replacing
<1> QED  BY <1>1, <1>3, <1>4, <1>5 DEF Progress, Becomes

(* The executable is the MSI's where the helper may not replace it.         *)
LEMMA MsiKeepsProgress ==
  ASSUME Shape, Progress, MsiInstalls, UNCHANGED managerVars
  PROVE  Progress'
<1>1. DestBecomes(Exe, msi)
  BY DEF MsiInstalls, Shape, Typed, TypeOK, DestBecomes
<1>2. ~writable /\ \A v \in Versions : Exe \notin undo[v]
  BY DEF MsiInstalls, Shape, ExeIsForMsi
<1>3. UNCHANGED <<backup, undo, helper, origin, runs, overlap, writable>>
  BY DEF MsiInstalls, managerVars
<1>4. RunsCounted' /\ (~overlap => UndoKept')
  BY <1>3 DEF Progress, RunsCounted, UndoKept
<1>5. ASSUME ~overlap, NEW h \in Helpers
      PROVE  InstalledUpTo(h)' /\ KeptBy(h)' /\ RestoredBy(h)'
  <2>1. InstalledUpTo(h) /\ KeptBy(h) /\ RestoredBy(h)  BY <1>5 DEF Progress
  <2>2. PlaceOK(helper[h]) /\ \A e \in Plan : e > Exe <=> e # Exe
    BY ShapeOf DEF Plan, Exe
  <2>3. helper[h].pc # "unborn" => helper[h].target \in Versions /\ undo[helper[h].target] \in SUBSET Plan
    BY ShapeOf DEF FilesTyped
  <2>4. InstalledUpTo(h)'
    BY <1>1, <1>2, <1>3, <2>1, <2>2 DEF InstalledUpTo, DestBecomes, PlaceOK, Installing, Reading, Replacing
  <2>5. KeptBy(h)'
    BY <1>1, <1>2, <1>3, <2>1, <2>2 DEF KeptBy, ToReplace, ToSave, DestBecomes
  <2>6. RestoredBy(h)'
    BY <1>1, <1>2, <1>3, <2>1, <2>3 DEF RestoredBy, DestBecomes, Undoing
  <2> QED  BY <2>4, <2>5, <2>6
<1> QED  BY <1>3, <1>4, <1>5 DEF Progress

LEMMA StutterLeaves == UNCHANGED vars => HelpersLeft /\ UNCHANGED <<staging, planFile, managerVars>>
BY DEF vars, helperVars, files, managerVars, HelpersLeft

LEMMA StartsAre ==
  ASSUME Shape, HelperSpawned \/ UserRollsBack
  PROVE  \E h \in Helpers, v \in Versions, pc \in {"read", "undo"}, exe \in BOOLEAN :
            /\ StartHelper(h, v, pc, exe)
            /\ pc = "read" => v = staged /\ op.pc = "spawn" /\ exe = writable /\ staging[v] = 2 * Updater
            /\ pc = "undo" => undo[v] # {}
            /\ UNCHANGED <<dest, temp, backup, undo, msi, staging, published, writable, server,
                           candidate, staged, disturbed>>
<1>1. CASE HelperSpawned
  <2>1. staged \in Versions /\ writable \in BOOLEAN
    BY <1>1 DEF HelperSpawned, Shape, Typed, TypeOK, OpPlaces, Versions
  <2> QED  BY <1>1, <2>1 DEF HelperSpawned
<1>2. CASE UserRollsBack
  BY <1>2 DEF UserRollsBack, files, managerVars
<1> QED  BY <1>1, <1>2

LEMMA ProgressIsKept == Shape /\ Progress /\ [Next]_vars => Progress'
<1> SUFFICES ASSUME Shape, Progress, [Next]_vars PROVE Progress'  OBVIOUS
<1>1. CASE UNCHANGED vars  BY <1>1, StutterLeaves, ManagerKeepsProgress
<1>2. CASE HelperSpawned \/ UserRollsBack
  <2>1. PICK h \in Helpers, v \in Versions, pc \in {"read", "undo"}, exe \in BOOLEAN :
            /\ StartHelper(h, v, pc, exe)
            /\ pc = "undo" => undo[v] # {}
            /\ UNCHANGED <<dest, backup, undo, writable>>
    BY <1>2, StartsAre
  <2> QED  BY <2>1, StartKeepsProgress
<1>3. CASE Next
  BY <1>2, <1>3, StepIs, ManagerLeavesHelpers, ManagerKeepsProgress, RestartKeepsProgress,
     MsiKeepsProgress, HelperKeepsProgress
<1> QED  BY <1>1, <1>3

-----------------------------------------------------------------------------
(* The status.                                                              *)
LEMMA InitStatus == Init => StatusKnown
BY DEF Init, NoOp, StatusKnown, StatusTells

(* A helper that has been started stays started for its version.            *)
LEMMA StartedStays ==
  ASSUME Shape, [Next]_vars, staged # 0, \E h \in Helpers : helper[h].target = staged
  PROVE  \E h \in Helpers : helper'[h].target = staged
<1>1. PICK h \in Helpers : helper[h].target = staged  OBVIOUS
<1>2. helper[h].pc # "unborn"  BY <1>1, ShapeOf DEF PlaceOK
<1>3. CASE HelperSpawned \/ UserRollsBack
  <2>1. PICK g \in Helpers, v \in Versions, pc \in {"read", "undo"}, exe \in BOOLEAN :
            StartHelper(g, v, pc, exe)
    BY <1>3, StartsAre
  <2>2. helper[g].pc = "unborn" /\ \A k \in Helpers : k # g => helper'[k] = helper[k]
    BY <2>1, StartHelperDoes
  <2> QED  BY <1>1, <1>2, <2>2
<1>4. ASSUME NEW g \in Helpers, HelperStep(g) \/ HelperStops(g)
      PROVE  helper'[h].target = helper[h].target
  BY <1>4, HelperStepDoes
<1>5. ASSUME NEW g \in Helpers, HelperRestarts(g)
      PROVE  helper'[h].target = helper[h].target
  BY <1>5, HelperRestartsDoes DEF Becomes
<1>6. CASE ManagerStep \/ UNCHANGED vars
  BY <1>1, <1>6, ManagerLeavesHelpers, StutterLeaves DEF HelpersLeft
<1>7. CASE MsiInstalls
  BY <1>1, <1>7 DEF MsiInstalls
<1> QED  BY <1>1, <1>3, <1>4, <1>5, <1>6, <1>7, StepIs

LEMMA StatusIsKept == Shape /\ StatusKnown /\ [Next]_vars => StatusKnown'
<1> SUFFICES ASSUME Shape, StatusKnown, [Next]_vars PROVE StatusKnown'  OBVIOUS
<1> DEFINE Started == \E h \in Helpers : helper[h].target = staged
<1>s. staged # 0 /\ staged' = staged /\ Started => Started'
  BY StartedStays
<1>o. OpPlaces /\ staging \in [Versions -> 0..2 * Updater] /\ candidate \in 0..MaxVersion
      /\ staged \in 0..MaxVersion
  BY DEF Shape, Typed, TypeOK
<1> HIDE DEF Started
<1>k. /\ status = "Available" => candidate # 0
      /\ status = "UpToDate" => candidate = 0
      /\ status \in {"Staged", "Installing"} =>
            staged # 0 /\ (staging[staged] = 2 * Updater \/ halfCancelled)
      /\ status = "Installing" => Started
      /\ op.pc = "files" => status = "Downloading"
      /\ op.pc = "spawned" => staging[staged] = 2 * Updater /\ Started
  BY DEF StatusKnown, StatusTells, Started
<1> DEFINE Known == /\ status = "Available" => candidate # 0
                    /\ status = "UpToDate" => candidate = 0
                    /\ status \in {"Staged", "Installing"} =>
                          staged # 0 /\ (staging[staged] = 2 * Updater \/ halfCancelled)
                    /\ status = "Installing" => Started
                    /\ op.pc = "files" => status = "Downloading"
                    /\ op.pc = "spawned" => staging[staged] = 2 * Updater /\ Started
<1>g. Known' => StatusKnown'  BY DEF StatusKnown, StatusTells, Started
<1> SUFFICES Known'  BY <1>g
<1>0. CASE UNCHANGED <<staging, managerVars>>
  BY <1>0, <1>o, <1>s, <1>k DEF managerVars, OpPlaces
<1>1. CASE ManagerStep
  <2>1. CASE CheckFinds
    <3>1. Usable \in SUBSET Versions  BY DEF Usable, Shape, Typed, TypeOK
    <3>2. candidate' \in Versions  BY <2>1, <3>1, LatestIsGreatest DEF CheckFinds
    <3> QED  BY <2>1, <3>2 DEF CheckFinds, NoOp, Versions
  <2>2. CASE StagingCompletes
    <3>1. /\ op.pc = "files" /\ staged' = candidate /\ UNCHANGED <<staging, candidate>>
          /\ staging[candidate] = 2 * Updater
          /\ \/ status' = "Staged" /\ op' = NoOp
             \/ status' = status /\ op' = [op EXCEPT !.pc = "spawn"]
      BY <2>2 DEF StagingCompletes, OpGoto, helperVars, files
    <3>2. candidate # 0 /\ status = "Downloading"  BY <1>o, <1>k, <3>1 DEF OpPlaces
    <3>3. CASE op' = NoOp  BY <3>1, <3>2, <3>3 DEF NoOp
    <3>4. CASE op' = [op EXCEPT !.pc = "spawn"]
      <4>1. op'.pc = "spawn"  BY <1>o, <3>1, <3>4 DEF Shape, Typed, TypeOK, OpType, NoOp
      <4> QED  BY <3>1, <3>2, <4>1, <3>4 DEF NoOp
    <3> QED  BY <3>1, <3>3, <3>4
  <2>3. CASE StagingBegins
    <3>1. op'.pc = "files"  BY <2>3 DEF StagingBegins, OpGoto, Shape, Typed, TypeOK, OpType, NoOp
    <3> QED  BY <2>3, <3>1 DEF StagingBegins
  <2>4. CASE FileStaged
    BY <2>4, <1>k DEF FileStaged, managerVars
  <2>5. CASE CancelRemoves
    <3>1. op'.pc = "forget"  BY <2>5 DEF CancelRemoves, OpGoto, Shape, Typed, TypeOK, OpType, NoOp
    <3>2. UNCHANGED <<helper, status, candidate, staged>>
      BY <2>5 DEF CancelRemoves, CancelUnchanged
    <3>3. staged # 0 => halfCancelled'  BY <2>5 DEF CancelRemoves, RemovesStaged
    <3> QED  BY <1>k, <1>s, <3>1, <3>2, <3>3
  <2>6. CASE CancelFails
    <3>2. UNCHANGED <<helper, status, candidate, staged>> /\ op' = NoOp /\ halfCancelled'
      BY <2>6 DEF CancelFails, CancelUnchanged, RemovesStaged
    <3> QED  BY <1>k, <1>s, <3>2 DEF NoOp
  <2>7. CASE InstallAnswered
    <3>1. /\ op.pc = "spawned" /\ status' = "Installing" /\ op' = NoOp
          /\ UNCHANGED <<staging, candidate, staged>>
      BY <2>7 DEF InstallAnswered, OpUnchanged, helperVars, files
    <3> QED  BY <1>k, <1>o, <1>s, <3>1 DEF OpPlaces, NoOp
  <2>8. CASE ServerExits \/ CancelForgets
    BY <2>8 DEF ServerExits, CancelForgets, NoOp
  <2>9. CASE \/ CheckBegins \/ (\E kind \in Operations : Request(kind))
             \/ InstallUsesStaged
    <3>1. /\ op'.pc \in {"fetch", "begin", "spawn"}
          /\ status' \in {status, "Checking"}
          /\ UNCHANGED <<staging, candidate, staged, halfCancelled>>
      BY <2>9 DEF CheckBegins, Request, InstallUsesStaged, MayInstall, OpGoto, OpUnchanged,
         helperVars, files, Shape, Typed, TypeOK, OpType, NoOp
    <3> QED  BY <1>k, <1>s, <3>1
  <2>10. CASE \/ CheckFindsNothing \/ CheckFails \/ DownloadRefused \/ InstallBlocked
              \/ InstallRefused \/ StagingFails \/ SpawnFails \/ RequestDropped
    <3>1. /\ op' = NoOp
          /\ \/ status' \in {"Failed", "WaitingForIdle"}
             \/ status' = "UpToDate" /\ candidate' = 0
             \/ status' = status /\ candidate' = candidate
          /\ UNCHANGED <<staging, staged, halfCancelled>>
      BY <2>10 DEF CheckFindsNothing, CheckFails, DownloadRefused, InstallBlocked,
         InstallRefused, StagingFails, SpawnFails, RequestDropped, OpUnchanged, helperVars, files
    <3> QED  BY <1>k, <1>s, <3>1 DEF NoOp
  <2>11. CASE Publish \/ UserStartsServer
    <3>1. UNCHANGED <<staging, status, candidate, staged, op, halfCancelled>>
      BY <2>11 DEF Publish, UserStartsServer, helperVars, files
    <3> QED  BY <1>k, <1>o, <1>s, <3>1 DEF OpPlaces
  <2> QED
    BY <1>1, <2>1, <2>2, <2>3, <2>4, <2>5, <2>6, <2>7, <2>8, <2>9, <2>10, <2>11 DEF ManagerStep
<1>2. CASE HelperSpawned
  <2>1. PICK h \in Helpers : StartHelper(h, staged, "read", writable)
    BY <1>2 DEF HelperSpawned
  <2>2. staged \in Versions  BY <1>2, <1>o, Constants DEF HelperSpawned, OpPlaces, Versions
  <2>3. helper'[h].target = staged  BY <2>1, <2>2, StartHelperDoes
  <2>4. UNCHANGED <<staging, status, candidate, staged, halfCancelled>>
        /\ staging[staged] = 2 * Updater /\ op'.pc = "spawned"
    BY <1>2 DEF HelperSpawned, OpGoto, Shape, Typed, TypeOK, OpType, NoOp
  <2>5. Started'  BY <2>3, <2>4 DEF Started
  <2> QED  BY <1>k, <2>4, <2>5
<1>3. CASE UserRollsBack
  BY <1>0, <1>3 DEF UserRollsBack, files
<1>4. CASE MsiInstalls /\ UNCHANGED managerVars
  BY <1>0, <1>4 DEF MsiInstalls
<1>5. ASSUME NEW h \in Helpers, HelperStep(h) \/ HelperStops(h), UNCHANGED managerVars
      PROVE  Known'
  BY <1>0, <1>5, HelperStepDoes
<1>6. ASSUME NEW h \in Helpers, HelperRestarts(h) PROVE Known'
  BY <1>k, <1>o, <1>s, <1>6, HelperRestartsDoes DEF Becomes, OpPlaces
<1>7. CASE UNCHANGED vars
  BY <1>0, <1>7 DEF vars, helperVars, files
<1> QED  BY <1>1, <1>2, <1>3, <1>4, <1>5, <1>6, <1>7, StepIs

-----------------------------------------------------------------------------
(* No file makes room for an older one.                                     *)
WithinNext(S) ==
    /\ msi' # 0 => msi' \in S
    /\ \A e \in Plan : Complete(dest'[e]) => dest'[e] \in S
    /\ \A u \in Versions, e \in Plan : Complete(backup'[u][e]) => backup'[u][e] \in S
    /\ \A h \in Helpers : helper'[h].pc \in Installing => helper'[h].target \in S

LEMMA HelperKeepsWithin ==
  ASSUME Shape, NEW S, Within(S), NEW h \in Helpers, HelperStep(h) \/ HelperStops(h),
         CopyOf(h)
  PROVE  WithinNext(S) /\ CopyOf(h)'
<1> DEFINE Files == /\ msi' # 0 => msi' \in S
                    /\ \A e \in Plan : Complete(dest'[e]) => dest'[e] \in S
                    /\ \A u \in Versions, e \in Plan : Complete(backup'[u][e]) => backup'[u][e] \in S
<1>a. \A g \in Helpers : helper'[g].pc \in Installing => helper'[g].target \in S
  BY HelperStepDoes DEF Within
<1>b. ~Complete(Torn) /\ ~Complete(Absent)  BY Constants DEF Complete, Absent
<1>c. helper[h].target \in Versions /\ (helper[h].pc \in Replacing \cup {"undoing"} => helper[h].entry \in Plan)
  BY ShapeOf, HelperStepDoes DEF PlaceOK
<1> SUFFICES Files /\ CopyOf(h)'  BY <1>a DEF WithinNext
<1> USE <1>b, <1>c
<1>1. CASE ReadPlan(h)
  BY <1>1, ReadPlanDoes DEF Becomes, Within, CopyOf, Installing, Reading, Replacing
<1>2. CASE VerifyAssets(h)
  BY <1>2, VerifyAssetsDoes DEF Becomes, Within, CopyOf, Installing, Reading, Replacing
<1>3. CASE EndRuntimeBackup(h)
  BY <1>3, EndRuntimeBackupDoes DEF Becomes, Within, CopyOf, Installing, Reading, Replacing
<1>4. CASE BeginReplace(h)
  BY <1>4, BeginReplaceDoes DEF Becomes, Within, CopyOf, Installing, Reading, Replacing, BackupBecomes
<1>5. CASE EndBackup(h)
  BY <1>5, EndBackupDoes DEF Becomes, Within, CopyOf, Installing, Reading, Replacing, BackupBecomes
<1>6. CASE BeginCopy(h)
  BY <1>6, BeginCopyDoes DEF Becomes, Within, CopyOf, Installing, Reading, Replacing
<1>7. CASE EndCopy(h)
  BY <1>7, EndCopyDoes DEF Becomes, Within, CopyOf, Installing, Reading, Replacing, TempBecomes
<1>8. CASE RemoveInstalled(h)
  BY <1>8, RemoveInstalledDoes DEF Becomes, Within, CopyOf, Installing, Reading, Replacing, DestBecomes
<1>9. CASE RenameIntoPlace(h)
  BY <1>9, RenameIntoPlaceDoes DEF Becomes, Within, CopyOf, Installing, Reading, Replacing, DestBecomes
<1>10. CASE ConfirmInstalled(h)
  BY <1>10, ConfirmInstalledDoes DEF Becomes, Within, CopyOf, Installing, Reading, Replacing
<1>11. CASE BeginRollbackPlan(h)
  BY <1>11, BeginRollbackPlanDoes DEF Becomes, Within, CopyOf, Installing, Reading, Replacing
<1>16. CASE EndRollbackPlan(h)
  BY <1>16, EndRollbackPlanDoes DEF Becomes, Within, CopyOf, Installing, Reading, Replacing
<1>17. CASE LaunchMsi(h)
  BY <1>17, LaunchMsiDoes DEF Becomes, Within, CopyOf, Installing, Reading, Replacing
<1>12. CASE BeginUndo(h)
  BY <1>12, BeginUndoDoes DEF Becomes, Within, CopyOf, Installing, Reading, Replacing, DestBecomes
<1>13. CASE EndUndo(h)
  BY <1>13, EndUndoDoes DEF Becomes, Within, CopyOf, Installing, Reading, Replacing, DestBecomes
<1>14. CASE UndoCompleted(h)
  BY <1>14, UndoCompletedDoes DEF Becomes, Within, CopyOf, Installing, Reading, Replacing
<1>15. CASE HelperStops(h)
  BY <1>15, HelperStopsDoes DEF Becomes, Within, CopyOf, Installing, Reading, Replacing
<1> QED  BY <1>1, <1>2, <1>3, <1>4, <1>5, <1>6, <1>7, <1>8, <1>9, <1>10, <1>11, <1>12, <1>13, <1>14, <1>15, <1>16, <1>17 DEF HelperStep

LEMMA InitUpwards == Init => Upwards
<1> SUFFICES ASSUME Init PROVE Upwards  OBVIOUS
<1>1. Within({1})
  BY Constants DEF Init, HelperInit, NewHelper, Within, Complete, Absent, Installing, Reading, Replacing
<1>2. \A h \in Helpers : helper[h].pc = "unborn"  BY DEF Init, HelperInit, NewHelper
<1> QED
  BY <1>1, <1>2 DEF Init, HelperInit, Upwards, CopyOf, Installing, Reading, Replacing

LEMMA HelperKeepsUpwards ==
  ASSUME Shape, Upwards, NEW h \in Helpers, HelperStep(h) \/ HelperStops(h),
         UNCHANGED managerVars
  PROVE  Upwards'
<1>1. UNCHANGED <<candidate, staged, published, overlap>>
  BY HelperStepDoes DEF managerVars
<1>2. ASSUME NEW S, Within(S), ~overlap
      PROVE  WithinNext(S)
  BY <1>2, HelperKeepsWithin DEF Upwards
<1>3. ASSUME ~overlap PROVE /\ Within(published \cup {1})'
                            /\ candidate # 0 => Within(1..candidate)'
                            /\ staged # 0 => Within(1..staged)'
  <2>1. Within(published \cup {1})'  BY <1>1, <1>2, <1>3 DEF Upwards, Within, WithinNext
  <2>2. candidate # 0 => Within(1..candidate)'  BY <1>1, <1>2, <1>3 DEF Upwards, Within, WithinNext
  <2>3. staged # 0 => Within(1..staged)'  BY <1>1, <1>2, <1>3 DEF Upwards, Within, WithinNext
  <2> QED  BY <2>1, <2>2, <2>3
<1>4. ASSUME ~overlap, NEW g \in Helpers
      PROVE  CopyOf(g)' /\ (helper'[g].pc \in Installing => Within(1..helper[g].target)')
  <2>1. CASE g = h
    <3>1. CopyOf(h)'  BY <1>4, HelperKeepsWithin DEF Upwards
    <3>2. helper'[h].pc \in Installing => Within(1..helper[h].target)'
      <4>1. helper'[h].pc \in Installing => helper[h].pc \in Installing /\ helper'[h].target = helper[h].target
        BY HelperStepDoes
      <4> QED  BY <4>1, <1>2, <1>4 DEF Upwards, Within, WithinNext
    <3> QED  BY <2>1, <3>1, <3>2
  <2>2. CASE g # h
    BY <1>4, <2>2, HelperStepDoes DEF CopyOf, Installing, Reading, Replacing
  <2> QED  BY <2>1, <2>2
<1>5. \A g \in Helpers : helper'[g].pc \in Installing => helper'[g].target = helper[g].target
  BY HelperStepDoes
<1> QED  BY <1>1, <1>3, <1>4, <1>5 DEF Upwards

(* The server's steps change what is to come, not what is there.            *)
LEMMA ManagerKeepsUpwards ==
  ASSUME Shape, Upwards, ManagerStep \/ UNCHANGED vars
  PROVE  Upwards'
<1>0. HelpersLeft  BY ManagerLeavesHelpers, StutterLeaves
<1>1. /\ \A S : Within(S) => WithinNext(S)
      /\ \A h \in Helpers : CopyOf(h) => CopyOf(h)'
  BY <1>0 DEF HelpersLeft, Within, WithinNext, CopyOf
<1>2. \A h \in Helpers : helper[h].pc \in Installing /\ Within(1..helper[h].target) =>
          Within(1..helper[h].target)'
  BY <1>0 DEF HelpersLeft, Within
<1>3. published \subseteq published' /\ published \subseteq Versions
  <2>1. CASE Publish  BY <2>1 DEF Publish, Shape, Typed, TypeOK
  <2>2. CASE ~Publish
    BY <2>2 DEF ManagerStep, Request, RequestDropped, CheckBegins, CheckFinds, CheckFindsNothing,
       CheckFails, DownloadRefused, InstallBlocked, InstallRefused, InstallUsesStaged,
       StagingBegins, FileStaged, StagingFails, StagingCompletes, InstallAnswered, SpawnFails,
       RemovesStaged, CancelUnchanged, CancelRemoves, CancelFails, CancelForgets, ServerExits,
       UserStartsServer, OpUnchanged, managerVars, vars,
       Shape, Typed, TypeOK
  <2> QED  BY <2>1, <2>2
<1>4. /\ staged' \in {0, staged} \/ (staged' = candidate /\ candidate # 0 /\ candidate' = candidate)
      /\ candidate' \in {0, candidate} \/ CheckFinds
      /\ CheckFinds => published' = published /\ staged' = staged
  <2>1. CASE CheckFinds  BY <2>1 DEF CheckFinds, OpUnchanged
  <2>2. CASE StagingCompletes
    BY <2>2 DEF StagingCompletes, OpUnchanged, Shape, OpPlaces, CheckFinds
  <2>3. CASE (ManagerStep \/ UNCHANGED vars) /\ ~CheckFinds /\ ~StagingCompletes
    BY <2>3 DEF ManagerStep, Publish, Request, RequestDropped, CheckBegins, CheckFindsNothing,
       CheckFails, DownloadRefused, InstallBlocked, InstallRefused, InstallUsesStaged,
       StagingBegins, FileStaged, StagingFails, InstallAnswered, SpawnFails,
       RemovesStaged, CancelUnchanged, CancelRemoves, CancelFails, CancelForgets, ServerExits,
       UserStartsServer, OpUnchanged, managerVars, vars
  <2> QED  BY <2>1, <2>2, <2>3
<1>5. CheckFinds => candidate' \in published /\ \A v \in published \cup {1} : v <= candidate'
  <2> SUFFICES ASSUME CheckFinds
               PROVE  candidate' \in published /\ \A v \in published \cup {1} : v <= candidate'
    OBVIOUS
  <2>1. /\ Usable # {} /\ Usable \in SUBSET Versions /\ Usable = {v \in published : v > server}
        /\ candidate' = Latest(Usable)
    BY <1>3 DEF CheckFinds, Usable
  <2>2. candidate' \in Usable /\ \A v \in Usable : v <= candidate'
    BY <2>1, LatestIsGreatest
  <2>3. server \in Nat /\ \A v \in published \cup {1} : v \in Nat /\ v >= 1
    BY <1>3, Constants DEF Shape, Typed, TypeOK, Versions
  <2> QED  BY <2>1, <2>2, <2>3
<1>6. UNCHANGED <<helper, overlap>>  BY <1>0 DEF HelpersLeft
<1>7. candidate \in Nat /\ staged \in Nat /\ candidate' \in Nat /\ staged' \in Nat
  <2>1. candidate \in Nat /\ staged \in Nat  BY DEF Shape, Typed, TypeOK
  <2>2. CheckFinds => candidate' \in Nat
    <3>1. CheckFinds => candidate' \in Versions  BY <1>3, <1>5
    <3> QED  BY <3>1, HelperAssumption DEF Versions
  <2> QED  BY <2>1, <2>2, <1>4
<1>8. /\ candidate' # 0 => candidate' \in published'
      /\ staged' # 0 => staged' \in published'
      /\ staged' # 0 /\ candidate' # 0 => staged' <= candidate'
  BY <1>3, <1>4, <1>5, <1>7 DEF Upwards
<1>9. ASSUME ~overlap
      PROVE  /\ Within(published \cup {1})'
             /\ (candidate # 0 => Within(1..candidate))'
             /\ (staged # 0 => Within(1..staged))'
  <2>1. Within(published \cup {1})  BY <1>9 DEF Upwards
  <2>2. WithinNext(published' \cup {1})
    <3>1. published \cup {1} \subseteq published' \cup {1}  BY <1>3
    <3>2. Within(published' \cup {1})  BY <2>1, <3>1 DEF Within
    <3> QED  BY <3>2, <1>1
  <2>3. candidate' # 0 => WithinNext(1..candidate')
    <3>1. CASE CheckFinds
      <4>1. published \cup {1} \subseteq 1..candidate'
        BY <1>3, <1>5, <1>7, <3>1 DEF Versions
      <4>2. Within(1..candidate')  BY <2>1, <4>1 DEF Within
      <4> QED  BY <4>2, <1>1
    <3>2. CASE ~CheckFinds
      BY <1>1, <1>4, <1>9, <3>2 DEF Upwards
    <3> QED  BY <3>1, <3>2
  <2>4. staged' # 0 => WithinNext(1..staged')
    BY <1>1, <1>4, <1>9 DEF Upwards
  <2> QED  BY <2>2, <2>3, <2>4 DEF Within, WithinNext
<1>10. ASSUME ~overlap, NEW h \in Helpers
       PROVE  CopyOf(h)' /\ (helper[h].pc \in Installing => Within(1..helper[h].target)')
  BY <1>1, <1>2, <1>10 DEF Upwards
<1> QED  BY <1>6, <1>8, <1>9, <1>10 DEF Upwards

LEMMA StartKeepsUpwards ==
  ASSUME Shape, Upwards, NEW h \in Helpers, NEW v \in Versions, NEW pc \in {"read", "undo"},
         NEW exe \in BOOLEAN, StartHelper(h, v, pc, exe), pc = "read" => v = staged,
         UNCHANGED <<dest, temp, backup, undo, msi, published, candidate, staged>>
  PROVE  Upwards'
<1>1. /\ helper'[h].pc = pc /\ helper'[h].target = v
      /\ \A g \in Helpers : g # h => helper'[g] = helper[g]
      /\ ~overlap' => ~overlap /\ \A g \in Helpers : ~Working(g)
  BY StartHelperDoes
<1>2. candidate \in Nat /\ v \in Nat /\ v # 0 /\ 0 \notin Versions
  BY Constants DEF Shape, Typed, TypeOK, Versions
<1>3. ASSUME ~overlap', NEW g \in Helpers, g # h
      PROVE  helper'[g].pc \in {"unborn", "done", "stopped"}
  BY <1>1, <1>3 DEF Working
<1>4. ASSUME ~overlap', NEW S, Within(S), pc = "read" => v \in S
      PROVE  /\ \A g \in Helpers : helper'[g].pc \in Installing => helper'[g].target \in S
             /\ msi' # 0 => msi' \in S
             /\ \A e \in Plan : Complete(dest'[e]) => dest'[e] \in S
             /\ \A u \in Versions, e \in Plan : Complete(backup'[u][e]) => backup'[u][e] \in S
  BY <1>1, <1>3, <1>4 DEF Within, WithinNext, Installing, Reading, Replacing
<1>5. ASSUME ~overlap' PROVE /\ Within(published \cup {1})'
                             /\ candidate # 0 => Within(1..candidate)'
                             /\ staged # 0 => Within(1..staged)'
                             /\ pc = "read" => Within(1..v)'
  <2>1. ~overlap  BY <1>1, <1>5
  <2>2. Within(published \cup {1})'
    BY <2>1, <1>4, <1>5, <1>2 DEF Upwards, Within, WithinNext
  <2>3. candidate # 0 => Within(1..candidate)'
    <3>1. candidate # 0 /\ pc = "read" => v \in 1..candidate  BY <1>2 DEF Upwards
    <3> QED  BY <2>1, <3>1, <1>4, <1>5 DEF Upwards, Within, WithinNext
  <2>4. staged # 0 => Within(1..staged)'
    <3>1. pc = "read" => v \in 1..staged  BY <1>2
    <3> QED  BY <2>1, <3>1, <1>4, <1>5 DEF Upwards, Within, WithinNext
  <2>5. pc = "read" => Within(1..v)'  BY <2>4, <1>2 DEF Within
  <2> QED  BY <2>2, <2>3, <2>4, <2>5
<1>6. ASSUME ~overlap', NEW g \in Helpers
      PROVE  CopyOf(g)' /\ (helper[g].pc \in Installing => Within(1..helper[g].target))'
  <2>1. CASE g = h
    <3>1. CopyOf(h)'  BY <1>1 DEF CopyOf
    <3>2. pc = "undo" => helper'[h].pc \notin Installing
      BY <1>1 DEF Installing, Reading, Replacing
    <3>3. pc = "read" => Within(1..helper[h].target)'
      BY <1>1, <1>5, <1>6 DEF Within
    <3> QED  BY <2>1, <3>1, <3>2, <3>3
  <2>2. CASE g # h
    BY <1>3, <1>6, <2>2 DEF CopyOf, Installing, Reading, Replacing
  <2> QED  BY <2>1, <2>2
<1>7. /\ candidate' # 0 => candidate' \in published'
      /\ staged' # 0 => staged' \in published'
      /\ staged' # 0 /\ candidate' # 0 => staged' <= candidate'
      /\ UNCHANGED <<published, candidate, staged>>
  BY DEF Upwards
<1> QED  BY <1>5, <1>6, <1>7 DEF Upwards

(* A restart and the MSI's installation move what is there already.         *)
LEMMA RestartKeepsUpwards ==
  ASSUME Shape, Upwards, NEW h \in Helpers, HelperRestarts(h)
  PROVE  Upwards'
<1>1. /\ helper'[h].pc = "done" /\ \A g \in Helpers : g # h => helper'[g] = helper[g]
      /\ UNCHANGED <<dest, temp, backup, msi, published, candidate, staged, overlap>>
  BY HelperRestartsDoes DEF Becomes
<1>2. \A S : Within(S) => WithinNext(S)
  BY <1>1 DEF Within, WithinNext, Installing, Reading, Replacing
<1>3. \A g \in Helpers : helper'[g].pc \in Installing => helper[g].pc \in Installing /\ helper'[g] = helper[g]
  BY <1>1 DEF Installing, Reading, Replacing
<1>4. \A g \in Helpers : CopyOf(g) => CopyOf(g)'
  BY <1>1 DEF CopyOf
<1>5. ASSUME ~overlap
      PROVE  /\ Within(published \cup {1})'
             /\ (candidate # 0 => Within(1..candidate))'
             /\ (staged # 0 => Within(1..staged))'
             /\ \A g \in Helpers : (helper[g].pc \in Installing => Within(1..helper[g].target))'
  <2>1. WithinNext(published \cup {1})  BY <1>2, <1>5 DEF Upwards
  <2>2. candidate # 0 => WithinNext(1..candidate)  BY <1>2, <1>5 DEF Upwards
  <2>3. staged # 0 => WithinNext(1..staged)  BY <1>2, <1>5 DEF Upwards
  <2>4. \A g \in Helpers : helper'[g].pc \in Installing => WithinNext(1..helper'[g].target)
    BY <1>2, <1>3, <1>5 DEF Upwards
  <2> QED  BY <1>1, <2>1, <2>2, <2>3, <2>4 DEF Within, WithinNext
<1> QED  BY <1>1, <1>4, <1>5 DEF Upwards

LEMMA MsiKeepsUpwards ==
  ASSUME Shape, Upwards, MsiInstalls, UNCHANGED managerVars
  PROVE  Upwards'
<1>1. /\ msi # 0 /\ msi' = 0 /\ DestBecomes(Exe, msi)
      /\ UNCHANGED <<temp, backup, helper, overlap, published, candidate, staged>>
  BY DEF MsiInstalls, managerVars, Shape, Typed, TypeOK, DestBecomes
<1>2. \A g \in Helpers : CopyOf(g) => CopyOf(g)'
  BY <1>1 DEF CopyOf
<1>3. \A S : Within(S) => WithinNext(S)
  BY <1>1 DEF Within, WithinNext, DestBecomes
<1>4. ASSUME ~overlap
      PROVE  /\ Within(published \cup {1})'
             /\ (candidate # 0 => Within(1..candidate))'
             /\ (staged # 0 => Within(1..staged))'
             /\ \A g \in Helpers : (helper[g].pc \in Installing => Within(1..helper[g].target))'
  <2>1. WithinNext(published \cup {1})  BY <1>3, <1>4 DEF Upwards
  <2>2. candidate # 0 => WithinNext(1..candidate)  BY <1>3, <1>4 DEF Upwards
  <2>3. staged # 0 => WithinNext(1..staged)  BY <1>3, <1>4 DEF Upwards
  <2>4. \A g \in Helpers : helper'[g].pc \in Installing => WithinNext(1..helper'[g].target)
    BY <1>1, <1>3, <1>4 DEF Upwards
  <2> QED  BY <1>1, <2>1, <2>2, <2>3, <2>4 DEF Within, WithinNext
<1> QED  BY <1>1, <1>2, <1>4 DEF Upwards

LEMMA UpwardsIsKept == Shape /\ Upwards /\ [Next]_vars => Upwards'
<1> SUFFICES ASSUME Shape, Upwards, [Next]_vars PROVE Upwards'  OBVIOUS
<1>1. CASE HelperSpawned \/ UserRollsBack
  <2>1. PICK h \in Helpers, v \in Versions, pc \in {"read", "undo"}, exe \in BOOLEAN :
            /\ StartHelper(h, v, pc, exe)
            /\ pc = "read" => v = staged
            /\ UNCHANGED <<dest, temp, backup, undo, msi, published, candidate, staged>>
    BY <1>1, StartsAre
  <2> QED  BY <2>1, StartKeepsUpwards
<1> QED
  BY <1>1, StepIs, ManagerKeepsUpwards, RestartKeepsUpwards, MsiKeepsUpwards, HelperKeepsUpwards

(* Only RemoveInstalled removes a file.                                     *)
LEMMA NothingNewerIsRemoved ==
  ASSUME Shape, Upwards, [Next]_vars, NEW e \in Plan,
         Complete(dest[e]), dest'[e] = Absent, ~overlap
  PROVE  temp[e] >= dest[e]
<1>1. ~Complete(Absent) /\ Torn # Absent  BY Constants DEF Complete, Absent, Torn
<1>2. dest'[e] # dest[e]  BY <1>1
<1>3. ASSUME NEW h \in Helpers, HelperStep(h) \/ HelperStops(h) PROVE temp[e] >= dest[e]
  <2>1. /\ helper[h].target \in Versions /\ CopyOf(h)
        /\ helper[h].pc \in Replacing \cup {"undoing"} => helper[h].entry \in Plan
    BY <1>3, HelperStepDoes, ShapeOf DEF PlaceOK, Upwards
  <2>2. CASE RemoveInstalled(h)
    <3>1. /\ helper[h].pc = "remove" /\ e = helper[h].entry
      BY <1>2, <2>2, RemoveInstalledDoes DEF DestBecomes
    <3>2. dest[e] \in 1..helper[h].target
      BY <3>1 DEF Upwards, Within, Installing, Replacing
    <3>3. temp[e] = helper[h].target \/ temp[e] = Torn
      BY <2>1, <3>1 DEF CopyOf
    <3>4. helper[h].target \in Nat /\ helper[h].target <= Torn /\ Torn \in Nat
      BY <2>1, HelperAssumption DEF Versions, Torn
    <3>5. dest[e] \in Nat /\ dest[e] <= helper[h].target  BY <3>2
    <3> QED  BY <3>3, <3>4, <3>5
  <2>3. CASE RenameIntoPlace(h)
    BY <1>2, <2>3, RenameIntoPlaceDoes DEF DestBecomes
  <2>4. CASE BeginUndo(h)
    BY <1>1, <1>2, <2>4, BeginUndoDoes DEF DestBecomes
  <2>5. CASE EndUndo(h)
    BY <1>2, <2>1, <2>5, EndUndoDoes DEF DestBecomes, CopyOf
  <2>6. CASE ~RemoveInstalled(h) /\ ~RenameIntoPlace(h) /\ ~BeginUndo(h) /\ ~EndUndo(h)
    <3>1. UNCHANGED dest
      BY <1>3, <2>6, ReadPlanDoes, VerifyAssetsDoes, EndRuntimeBackupDoes, BeginReplaceDoes,
         EndBackupDoes, BeginCopyDoes, EndCopyDoes, ConfirmInstalledDoes, BeginRollbackPlanDoes,
         EndRollbackPlanDoes, LaunchMsiDoes,
         UndoCompletedDoes, HelperStopsDoes DEF HelperStep
    <3> QED  BY <1>2, <3>1
  <2> QED  BY <2>2, <2>3, <2>4, <2>5, <2>6
<1>4. CASE MsiInstalls
  BY <1>2, <1>4 DEF MsiInstalls, Shape, Typed, TypeOK, Absent
<1>5. CASE ManagerStep \/ UNCHANGED vars
  BY <1>2, <1>5, ManagerLeavesHelpers, StutterLeaves DEF HelpersLeft
<1>6. CASE HelperSpawned \/ UserRollsBack
  BY <1>2, <1>6, StartsAre
<1>7. ASSUME NEW h \in Helpers, HelperRestarts(h) PROVE temp[e] >= dest[e]
  BY <1>2, <1>7, HelperRestartsDoes
<1> QED  BY <1>3, <1>4, <1>5, <1>6, <1>7, StepIs

-----------------------------------------------------------------------------
(* The first backups, and the staged files.                                 *)
LEMMA StagingStays ==
  ASSUME Shape, ManagerStep \/ UNCHANGED vars, ~disturbed'
  PROVE  /\ ~disturbed
         /\ \A h \in Helpers : Working(h) => staging'[helper[h].target] >= staging[helper[h].target]
<1>1. /\ \A v \in Versions : staging[v] \in Nat
      /\ \A h \in Helpers : Working(h) => helper[h].target \in Versions
      /\ staging \in [Versions -> 0..2 * Updater]
  <2>1. staging \in [Versions -> 0..2 * Updater]  BY DEF Shape, Typed, TypeOK
  <2> QED  BY <2>1, ShapeOf DEF Working
<1>2. CASE StagingBegins
  <2>1. ~disturbed /\ ~Disturbs(candidate) /\ staging' = [staging EXCEPT ![candidate] = 0]
    BY <1>2 DEF StagingBegins
  <2> QED  BY <1>1, <2>1 DEF Disturbs
<1>3. CASE CancelRemoves
  <2>1. \/ staging' = staging /\ disturbed' = disturbed
        \/ ~disturbed /\ ~Disturbs(staged) /\ staging' = [staging EXCEPT ![staged] = 0]
    BY <1>3 DEF CancelRemoves, RemovesStaged
  <2> QED  BY <1>1, <2>1 DEF Disturbs
<1>6. CASE CancelFails
  <2>1. PICK left \in 0..Updater :
            ~disturbed /\ ~Disturbs(staged) /\ staging' = [staging EXCEPT ![staged] = 2 * left]
    BY <1>6 DEF CancelFails, RemovesStaged
  <2> QED  BY <1>1, <2>1 DEF Disturbs
<1>4. CASE FileStaged
  <2>1. staging' = [staging EXCEPT ![candidate] = @ + 1] /\ UNCHANGED disturbed
    BY <1>4 DEF FileStaged, managerVars
  <2> QED  BY <1>1, <2>1
<1>5. CASE (ManagerStep \/ UNCHANGED vars) /\ ~StagingBegins /\ ~CancelRemoves
          /\ ~CancelFails /\ ~FileStaged
  <2>1. UNCHANGED <<staging, disturbed>>
    BY <1>5 DEF ManagerStep, Publish, Request, RequestDropped, CheckBegins, CheckFinds,
       CheckFindsNothing, CheckFails, DownloadRefused, InstallBlocked, InstallRefused,
       InstallUsesStaged, StagingFails, StagingCompletes, InstallAnswered, SpawnFails,
       CancelForgets, ServerExits, UserStartsServer, OpUnchanged, helperVars, files, managerVars, vars
  <2> QED  BY <1>1, <2>1
<1> QED  BY <1>2, <1>3, <1>4, <1>5, <1>6

LEMMA InitFresh == Init => Fresh
BY DEF Init, HelperInit, NewHelper, Fresh, NotYetSaved, StagedFor, Installing, Reading, Replacing

LEMMA ManagerKeepsFresh ==
  ASSUME Shape, Fresh, ManagerStep \/ UNCHANGED vars
  PROVE  Fresh'
<1>1. HelpersLeft  BY ManagerLeavesHelpers, StutterLeaves
<1>2. \A v \in Versions : runs[v] = 0 => \A e \in Plan : backup[v][e] = Absent
  BY DEF Fresh
<1>3. ASSUME ~overlap, NEW h \in Helpers PROVE NotYetSaved(h)'
  BY <1>1, <1>3 DEF HelpersLeft, Fresh, NotYetSaved, ToSave
<1>4. ASSUME ~overlap, NEW h \in Helpers, ~disturbed' PROVE StagedFor(h)'
  <2>1. StagedFor(h)  BY <1>4, StagingStays DEF Fresh
  <2>2. Working(h) => staging'[helper[h].target] >= staging[helper[h].target]
    BY <1>4, StagingStays
  <2>3. helper[h].pc \in {"backing", "copy"} => Working(h)  BY DEF Working
  <2>4. /\ Working(h) => staging[helper[h].target] \in Nat /\ staging'[helper[h].target] \in Nat
        /\ helper[h].entry \in Nat
    <3>1. staging \in [Versions -> 0..2 * Updater] /\ staging' \in [Versions -> 0..2 * Updater]
      <4>1. Shape'  BY ManagerKeepsShape, ShapeIsKept
      <4> QED  BY <4>1 DEF Shape, Typed, TypeOK
    <3>2. Updater \in Nat /\ Entries \in Nat  BY Constants
    <3> QED  BY <3>1, <3>2, ShapeOf, TypesOf DEF Working
  <2> QED  BY <1>1, <2>1, <2>2, <2>3, <2>4 DEF HelpersLeft, StagedFor, IsStaged
<1> QED  BY <1>1, <1>2, <1>3, <1>4 DEF HelpersLeft, Fresh

LEMMA HelperKeepsFresh ==
  ASSUME Shape, Progress, Fresh, NEW h \in Helpers, HelperStep(h) \/ HelperStops(h),
         UNCHANGED managerVars
  PROVE  Fresh'
<1> DEFINE v == helper[h].target
<1>a. /\ helper[h].entry \in 1..Entries + 1 /\ v \in Versions
      /\ helper[h].pc \in Replacing => helper[h].entry \in Plan
      /\ helper[h].pc \in Reading \ {"saving"} => helper[h].entry = Exe
      /\ helper[h].pc \in Installing => runs[v] # 0
  BY TypesOf, HelperStepDoes, ShapeOf DEF PlaceOK, Progress, RunsCounted, Reading
<1>b. \A e \in Plan : e \in Nat /\ e >= Exe  BY DEF Plan, Exe
<1>c. ~overlap => NotYetSaved(h) /\ (~disturbed => StagedFor(h))  BY DEF Fresh
<1>d. \A u \in Versions : runs[u] = 0 => \A e \in Plan : backup[u][e] = Absent  BY DEF Fresh
<1> DEFINE Goal == /\ \A u \in Versions : runs[u] = 0 => \A e \in Plan : backup'[u][e] = Absent
                   /\ ~overlap => NotYetSaved(h)' /\ (~disturbed => StagedFor(h)')
<1> SUFFICES Goal
  <2>1. UNCHANGED <<overlap, runs, disturbed>>  BY HelperStepDoes DEF managerVars
  <2>2. ASSUME ~overlap, NEW g \in Helpers, g # h
        PROVE  NotYetSaved(g)' /\ StagedFor(g)'
    BY <2>2, HelperStepDoes DEF NotYetSaved, StagedFor, Installing, Reading, Replacing
  <2> QED  BY <2>1, <2>2 DEF Fresh
<1>1. CASE ReadPlan(h)
  BY <1>1, <1>a, <1>b, <1>c, <1>d, ReadPlanDoes DEF Becomes, NotYetSaved, StagedFor, IsStaged, ToSave,
     Installing, Reading, Replacing
<1>2. CASE VerifyAssets(h)
  BY <1>2, <1>a, <1>b, <1>c, <1>d, VerifyAssetsDoes DEF Becomes, NotYetSaved, StagedFor, IsStaged, ToSave,
     Installing, Reading, Replacing, Exe
<1>3. CASE EndRuntimeBackup(h)
  BY <1>3, <1>a, <1>b, <1>c, <1>d, EndRuntimeBackupDoes DEF Becomes, NotYetSaved, StagedFor, IsStaged, ToSave,
     Installing, Reading, Replacing
<1>4. CASE BeginReplace(h)
  BY <1>4, <1>a, <1>b, <1>c, <1>d, BeginReplaceDoes DEF Becomes, NotYetSaved, StagedFor, IsStaged, ToSave,
     Installing, Reading, Replacing, BackupBecomes
<1>5. CASE EndBackup(h)
  BY <1>5, <1>a, <1>b, <1>c, <1>d, EndBackupDoes DEF Becomes, NotYetSaved, StagedFor, IsStaged, ToSave,
     Installing, Reading, Replacing, BackupBecomes
<1>6. CASE BeginCopy(h)
  BY <1>6, <1>a, <1>b, <1>c, <1>d, BeginCopyDoes DEF Becomes, NotYetSaved, StagedFor, IsStaged, ToSave,
     Installing, Reading, Replacing, TempBecomes
<1>7. CASE EndCopy(h)
  BY <1>7, <1>a, <1>b, <1>c, <1>d, EndCopyDoes DEF Becomes, NotYetSaved, StagedFor, IsStaged, ToSave,
     Installing, Reading, Replacing, TempBecomes
<1>8. CASE RemoveInstalled(h)
  BY <1>8, <1>a, <1>b, <1>c, <1>d, RemoveInstalledDoes DEF Becomes, NotYetSaved, StagedFor, IsStaged, ToSave,
     Installing, Reading, Replacing, DestBecomes
<1>9. CASE RenameIntoPlace(h)
  BY <1>9, <1>a, <1>b, <1>c, <1>d, RenameIntoPlaceDoes DEF Becomes, NotYetSaved, StagedFor, IsStaged, ToSave,
     Installing, Reading, Replacing, DestBecomes, TempBecomes
<1>10. CASE ConfirmInstalled(h)
  BY <1>10, <1>a, <1>b, <1>c, <1>d, ConfirmInstalledDoes DEF Becomes, NotYetSaved, StagedFor, IsStaged, ToSave,
     Installing, Reading, Replacing
<1>11. CASE BeginRollbackPlan(h)
  BY <1>11, <1>a, <1>b, <1>c, <1>d, BeginRollbackPlanDoes DEF Becomes, NotYetSaved, StagedFor, IsStaged, ToSave,
     Installing, Reading, Replacing
<1>16. CASE EndRollbackPlan(h)
  BY <1>16, <1>a, <1>b, <1>c, <1>d, EndRollbackPlanDoes DEF Becomes, NotYetSaved, StagedFor, IsStaged, ToSave,
     Installing, Reading, Replacing
<1>17. CASE LaunchMsi(h)
  BY <1>17, <1>a, <1>b, <1>c, <1>d, LaunchMsiDoes DEF Becomes, NotYetSaved, StagedFor, IsStaged, ToSave,
     Installing, Reading, Replacing
<1>12. CASE BeginUndo(h)
  BY <1>12, <1>a, <1>b, <1>c, <1>d, BeginUndoDoes DEF Becomes, NotYetSaved, StagedFor, IsStaged, ToSave,
     Installing, Reading, Replacing, DestBecomes
<1>13. CASE EndUndo(h)
  BY <1>13, <1>a, <1>b, <1>c, <1>d, EndUndoDoes DEF Becomes, NotYetSaved, StagedFor, IsStaged, ToSave,
     Installing, Reading, Replacing, DestBecomes
<1>14. CASE UndoCompleted(h)
  BY <1>14, <1>a, <1>b, <1>c, <1>d, UndoCompletedDoes DEF Becomes, NotYetSaved, StagedFor, IsStaged, ToSave,
     Installing, Reading, Replacing
<1>15. CASE HelperStops(h)
  BY <1>15, <1>a, <1>b, <1>c, <1>d, HelperStopsDoes DEF Becomes, NotYetSaved, StagedFor, IsStaged, ToSave,
     Installing, Reading, Replacing
<1> QED  BY <1>1, <1>2, <1>3, <1>4, <1>5, <1>6, <1>7, <1>8, <1>9, <1>10, <1>11, <1>12, <1>13, <1>14, <1>15, <1>16, <1>17 DEF HelperStep

LEMMA StartKeepsFresh ==
  ASSUME Shape, Fresh, NEW h \in Helpers, NEW v \in Versions, NEW pc \in {"read", "undo"},
         NEW exe \in BOOLEAN, StartHelper(h, v, pc, exe), UNCHANGED <<backup, disturbed>>
  PROVE  Fresh'
<1>1. /\ helper'[h].pc = pc /\ helper'[h].target = v
      /\ \A g \in Helpers : g # h => helper'[g] = helper[g]
      /\ ~overlap' => ~overlap /\ \A g \in Helpers : ~Working(g)
      /\ \A u \in Versions : runs'[u] = IF u = v /\ pc = "read" THEN runs[u] + 1 ELSE runs[u]
  BY StartHelperDoes
<1>2. \A u \in Versions : runs[u] \in Nat  BY DEF Shape, Typed
<1>3. \A u \in Versions : runs[u] = 0 => \A e \in Plan : backup[u][e] = Absent
  BY DEF Fresh
<1>4. \A u \in Versions : runs'[u] = 0 => \A e \in Plan : backup'[u][e] = Absent
  <2>1. \A u \in Versions : runs'[u] = 0 => runs[u] = 0  BY <1>1, <1>2
  <2> QED  BY <1>3, <2>1
<1>5. ASSUME ~overlap', NEW g \in Helpers PROVE NotYetSaved(g)' /\ StagedFor(g)'
  <2>1. CASE g # h
    <3>1. helper'[g].pc \in {"unborn", "done", "stopped"}
      BY <1>1, <1>5, <2>1 DEF Working
    <3> QED  BY <3>1 DEF NotYetSaved, StagedFor, Installing, Reading, Replacing
  <2>2. CASE g = h
    <3>1. StagedFor(h)'  BY <1>1 DEF StagedFor
    <3>2. CASE pc = "undo"  BY <1>1, <2>2, <3>1, <3>2 DEF NotYetSaved, Installing, Reading, Replacing
    <3>3. CASE pc = "read"
      <4>1. runs'[v] = 1 => runs[v] = 0  BY <1>1, <1>2, <3>3
      <4>2. runs'[v] = 1 => \A e \in Plan : backup'[v][e] = Absent  BY <1>3, <4>1
      <4>3. NotYetSaved(h)'  BY <1>1, <4>2 DEF NotYetSaved
      <4> QED  BY <2>2, <3>1, <4>3
    <3> QED  BY <3>2, <3>3
  <2> QED  BY <2>1, <2>2
<1> QED  BY <1>4, <1>5 DEF Fresh

LEMMA RestartKeepsFresh ==
  ASSUME Shape, Fresh, NEW h \in Helpers, HelperRestarts(h)
  PROVE  Fresh'
<1>1. /\ helper'[h].pc = "done" /\ \A g \in Helpers : g # h => helper'[g] = helper[g]
      /\ UNCHANGED <<temp, backup, runs, overlap, staging, disturbed>>
  BY HelperRestartsDoes DEF Becomes
<1>2. ASSUME ~overlap, NEW g \in Helpers PROVE NotYetSaved(g)' /\ (~disturbed => StagedFor(g)')
  <2>1. CASE g = h  BY <1>1, <2>1 DEF NotYetSaved, StagedFor, Installing, Reading, Replacing
  <2>2. CASE g # h  BY <1>1, <1>2, <2>2 DEF Fresh, NotYetSaved, StagedFor, IsStaged, ToSave
  <2> QED  BY <2>1, <2>2
<1> QED  BY <1>1, <1>2 DEF Fresh

LEMMA MsiKeepsFresh ==
  ASSUME Fresh, MsiInstalls, UNCHANGED managerVars
  PROVE  Fresh'
BY DEF MsiInstalls, managerVars, Fresh, NotYetSaved, StagedFor, IsStaged, ToSave

LEMMA FreshIsKept == Shape /\ Progress /\ Fresh /\ [Next]_vars => Fresh'
<1> SUFFICES ASSUME Shape, Progress, Fresh, [Next]_vars PROVE Fresh'  OBVIOUS
<1>1. CASE HelperSpawned \/ UserRollsBack
  <2>1. PICK h \in Helpers, v \in Versions, pc \in {"read", "undo"}, exe \in BOOLEAN :
            StartHelper(h, v, pc, exe) /\ UNCHANGED <<backup, disturbed>>
    BY <1>1, StartsAre
  <2> QED  BY <2>1, StartKeepsFresh
<1> QED
  BY <1>1, StepIs, ManagerKeepsFresh, RestartKeepsFresh, MsiKeepsFresh, HelperKeepsFresh

-----------------------------------------------------------------------------
(* Every file stays complete somewhere.                                     *)
LEMMA ContentIs ==
  ASSUME Shape, NEW e \in Plan
  PROVE  /\ Complete(dest[e]) \/ dest[e] = Absent \/ dest[e] = Torn
         /\ ~Complete(Absent) /\ ~Complete(Torn) /\ Torn # Absent
BY HelperAssumption DEF Shape, Typed, TypeOK, Contents, Complete, Versions, Absent, Torn

LEMMA InitRecoverable == Init => Recoverable
<1> SUFFICES ASSUME Init PROVE AllSafe  BY DEF Recoverable
<1>1. \A e \in Plan : dest[e] \in {Absent, 1}  BY DEF Init, HelperInit
<1>2. Complete(1) /\ Torn # Absent /\ Torn # 1
  BY HelperAssumption DEF Complete, Versions, Torn, Absent
<1>3. \A h \in Helpers : SafeFor(h)
  BY DEF Init, HelperInit, NewHelper, SafeFor, Installing, Reading, Replacing
<1> QED  BY <1>1, <1>2, <1>3 DEF Init, HelperInit, AllSafe, Present

LEMMA ManagerKeepsRecoverable ==
  ASSUME Shape, Recoverable, ManagerStep \/ UNCHANGED vars
  PROVE  Recoverable'
<1>1. HelpersLeft  BY ManagerLeavesHelpers, StutterLeaves
<1>2. AllSafe => AllSafe'
  BY <1>1 DEF HelpersLeft, AllSafe, Present, HasBackup, RolledBack, InstalledOnce, SafeFor
<1>3. Clean' => Clean
  BY <1>1, StagingStays DEF HelpersLeft, Clean, RolledBack, InstalledOnce
<1> QED  BY <1>2, <1>3 DEF Recoverable

LEMMA HelperKeepsRecoverable ==
  ASSUME Shape, Progress, Fresh, Recoverable, NEW h \in Helpers, HelperStep(h) \/ HelperStops(h),
         UNCHANGED managerVars
  PROVE  Recoverable'
<1> DEFINE v == helper[h].target
           e == helper[h].entry
<1>1. /\ v \in Versions /\ Working(h) /\ UNCHANGED <<overlap, disturbed, runs, origin>>
      /\ \A g \in Helpers : helper'[g].rollback = helper[g].rollback
      /\ helper'[h].pc \in Installing => helper[h].pc \in Installing
      /\ helper'[h].target = v
  BY HelperStepDoes DEF managerVars
<1>2. /\ Clean' <=> Clean
      /\ RolledBack' <=> RolledBack
      /\ InstalledOnce' <=> InstalledOnce
      /\ \A f \in Plan : Present(f)' <=> dest'[f] # Absent \/ \E u \in Versions : runs[u] > 0 /\ origin[u][f] # Absent
  BY <1>1 DEF Clean, RolledBack, InstalledOnce, Present
<1> SUFFICES ASSUME Clean PROVE AllSafe'
  BY <1>2 DEF Recoverable
<1>3. AllSafe /\ ~overlap /\ ~disturbed /\ (RolledBack => InstalledOnce)
  BY DEF Recoverable, Clean
<1>4. SafeFor(h) /\ StagedFor(h) /\ NotYetSaved(h)
  BY <1>3 DEF AllSafe, Fresh
<1>5. /\ helper[h].pc \in Replacing \cup {"undoing"} => e \in Plan
      /\ helper[h].pc \in Undoing => RolledBack
      /\ helper[h].pc \in Installing => runs[v] # 0 /\ runs[v] \in Nat
      /\ helper[h].kept \in SUBSET Plan
      /\ \A u \in Versions : undo[u] \in SUBSET Plan
      /\ \A f \in Plan : f \in Nat
  BY <1>1, ShapeOf, TypesOf DEF PlaceOK, RolledBack, Progress, RunsCounted, Shape, Typed, Plan
<1>6. \A f \in Plan : Complete(dest[f]) \/ dest[f] = Absent \/ dest[f] = Torn
  BY ContentIs
<1>7. ~Complete(Absent) /\ ~Complete(Torn) /\ Torn # Absent /\ Complete(v)
  BY <1>1, HelperAssumption DEF Complete, Versions, Absent, Torn
<1>8. ASSUME NEW g \in Helpers, g # h PROVE SafeFor(g)'
  BY <1>3, <1>8, HelperStepDoes DEF SafeFor, Installing, Reading, Replacing
<1> DEFINE Goal == /\ \A f \in Plan : (dest'[f] # Absent \/ \E u \in Versions : runs[u] > 0 /\ origin[u][f] # Absent)
                           => Complete(dest'[f]) \/ HasBackup(f)'
                   /\ ~RolledBack => \A f \in Plan : dest'[f] # Torn
                   /\ InstalledOnce => \A u \in Versions : \A f \in undo'[u] : HasBackup(f)'
                   /\ SafeFor(h)'
<1> SUFFICES Goal
  <2> HIDE DEF Goal
  <2> SUFFICES ASSUME Goal PROVE AllSafe'  OBVIOUS
  <2> USE DEF Goal
  <2>1. \A f \in Plan : Present(f)' => Complete(dest'[f]) \/ HasBackup(f)'  BY <1>2
  <2>2. (~RolledBack => \A f \in Plan : dest[f] # Torn)'  BY <1>2
  <2>3. (InstalledOnce => \A u \in Versions : \A f \in undo[u] : HasBackup(f))'  BY <1>2
  <2>4. \A g \in Helpers : SafeFor(g)'  BY <1>8
  <2> QED  BY <2>1, <2>2, <2>3, <2>4 DEF AllSafe
<1>9. ASSUME UNCHANGED backup PROVE \A f : HasBackup(f)' <=> HasBackup(f)
  BY <1>9 DEF HasBackup
<1>10. CASE ReadPlan(h)
  BY <1>10, <1>1, <1>2, <1>3, <1>4, <1>5, <1>6, <1>7, <1>9, ReadPlanDoes DEF Becomes, AllSafe, SafeFor, StagedFor, NotYetSaved, ToSave, Present,
     Installing, Undoing, Reading, Replacing
<1>11. CASE VerifyAssets(h)
  BY <1>11, <1>1, <1>2, <1>3, <1>4, <1>5, <1>6, <1>7, <1>9, VerifyAssetsDoes DEF Becomes, AllSafe, SafeFor, StagedFor, NotYetSaved, ToSave, Present,
     Installing, Undoing, Reading, Replacing
<1>12. CASE EndRuntimeBackup(h)
  BY <1>12, <1>1, <1>2, <1>3, <1>4, <1>5, <1>6, <1>7, <1>9, EndRuntimeBackupDoes DEF Becomes, AllSafe, SafeFor, StagedFor, NotYetSaved, ToSave, Present,
     Installing, Undoing, Reading, Replacing
<1>13. CASE BeginReplace(h)
  <2>1. /\ helper[h].pc = "check" /\ e \in Plan /\ UNCHANGED <<dest, undo>>
        /\ helper'[h].pc = (IF dest[e] = Absent THEN "copy" ELSE "backing")
        /\ helper'[h].entry = e /\ helper'[h].kept = helper[h].kept
        /\ dest[e] = Absent => UNCHANGED backup
        /\ dest[e] # Absent => BackupBecomes(v, e, Torn)
    BY <1>13, BeginReplaceDoes DEF Becomes
  <2>2. CASE dest[e] = Absent
    BY <1>1, <1>2, <1>3, <1>4, <1>9, <2>1, <2>2 DEF AllSafe, SafeFor, Present, Installing, Reading, Replacing
  <2>3. CASE dest[e] # Absent
    <3>1. \A f \in Plan : f # e => (HasBackup(f)' <=> HasBackup(f))
      BY <2>1, <2>3 DEF HasBackup, BackupBecomes
    <3>2. InstalledOnce => (HasBackup(e)' <=> HasBackup(e))
      <4>1. InstalledOnce => backup[v][e] = Absent
        BY <1>1, <1>4, <1>5, <2>1 DEF InstalledOnce, NotYetSaved, ToSave, Installing, Replacing
      <4> QED  BY <1>7, <2>1, <2>3, <4>1 DEF HasBackup, BackupBecomes
    <3>3. Complete(dest[e]) \/ HasBackup(e)'
      BY <1>3, <1>6, <2>1, <2>3, <3>2 DEF AllSafe, Present
    <3>4. \A f \in Plan : InstalledOnce => (HasBackup(f)' <=> HasBackup(f))  
      BY <2>1, <3>1, <3>2 DEF HasBackup
    <3>5. SafeFor(h)'
      BY <1>1, <1>2, <1>3, <1>4, <1>5, <2>1, <2>3, <3>3, <3>4 DEF SafeFor, BackupBecomes, Installing, Replacing
    <3>6. \A f \in Plan : Present(f) => Complete(dest'[f]) \/ HasBackup(f)'
      BY <1>3, <2>1, <3>1, <3>3 DEF AllSafe
    <3> QED  BY <1>3, <1>5, <2>1, <3>4, <3>5, <3>6 DEF AllSafe, Present
  <2> QED  BY <2>2, <2>3
<1>14. CASE EndBackup(h)
  <2>1. /\ helper[h].pc = "backing" /\ e \in Plan /\ UNCHANGED <<dest, undo>>
        /\ helper'[h].pc = "copy" /\ helper'[h].entry = e /\ helper'[h].kept = helper[h].kept \cup {e}
        /\ BackupBecomes(v, e, dest[e])
    BY <1>5, <1>14, EndBackupDoes DEF Becomes, Replacing
  <2>2. \A f \in Plan : HasBackup(f) => HasBackup(f)'
    <3>1. backup[v][e] = Torn  BY <1>4, <2>1 DEF SafeFor
    <3> QED  BY <1>7, <2>1, <3>1 DEF HasBackup, BackupBecomes
  <2>3. HasBackup(e)'
    <3>1. Complete(dest[e]) \/ HasBackup(e)  BY <1>4, <2>1 DEF SafeFor
    <3> QED  BY <1>1, <2>1, <2>2, <3>1 DEF HasBackup, BackupBecomes
  <2>4. SafeFor(h)'
    BY <1>1, <1>2, <1>4, <1>5, <2>1, <2>2, <2>3 DEF SafeFor, Installing, Replacing
  <2> QED  BY <1>3, <1>5, <2>1, <2>2, <2>4 DEF AllSafe, Present
<1>15. CASE BeginCopy(h)
  BY <1>15, <1>1, <1>2, <1>3, <1>4, <1>5, <1>6, <1>7, <1>9, BeginCopyDoes DEF Becomes, AllSafe, SafeFor, StagedFor, NotYetSaved, ToSave, Present,
     Installing, Undoing, Reading, Replacing
<1>16. CASE EndCopy(h)
  BY <1>16, <1>1, <1>2, <1>3, <1>4, <1>5, <1>6, <1>7, <1>9, EndCopyDoes DEF Becomes, AllSafe, SafeFor, StagedFor, NotYetSaved, ToSave, Present,
     Installing, Undoing, Reading, Replacing
<1>17. CASE RemoveInstalled(h)
  BY <1>17, <1>1, <1>2, <1>3, <1>4, <1>5, <1>6, <1>7, <1>9, RemoveInstalledDoes DEF Becomes, AllSafe, SafeFor, StagedFor, NotYetSaved, ToSave, Present,
     Installing, Undoing, Reading, Replacing, DestBecomes
<1>18. CASE RenameIntoPlace(h)
  BY <1>18, <1>1, <1>2, <1>3, <1>4, <1>5, <1>6, <1>7, <1>9, RenameIntoPlaceDoes DEF Becomes, AllSafe, SafeFor, StagedFor, NotYetSaved, ToSave, Present,
     Installing, Undoing, Reading, Replacing, DestBecomes, TempBecomes
<1>19. CASE ConfirmInstalled(h)
  BY <1>19, <1>1, <1>2, <1>3, <1>4, <1>5, <1>6, <1>7, <1>9, ConfirmInstalledDoes DEF Becomes, AllSafe, SafeFor, StagedFor, NotYetSaved, ToSave, Present,
     Installing, Undoing, Reading, Replacing
<1>20. CASE BeginRollbackPlan(h)
  BY <1>20, <1>1, <1>2, <1>3, <1>4, <1>5, <1>6, <1>7, <1>9, BeginRollbackPlanDoes DEF Becomes, AllSafe, SafeFor, StagedFor, NotYetSaved, ToSave, Present,
     Installing, Undoing, Reading, Replacing
<1>25. CASE EndRollbackPlan(h)
  BY <1>25, <1>1, <1>2, <1>3, <1>4, <1>5, <1>6, <1>7, <1>9, EndRollbackPlanDoes DEF Becomes, AllSafe, SafeFor, StagedFor, NotYetSaved, ToSave, Present,
     Installing, Undoing, Reading, Replacing
<1>26. CASE LaunchMsi(h)
  BY <1>26, <1>1, <1>2, <1>3, <1>4, <1>5, <1>6, <1>7, <1>9, LaunchMsiDoes DEF Becomes, AllSafe, SafeFor, StagedFor, NotYetSaved, ToSave, Present,
     Installing, Undoing, Reading, Replacing
<1>21. CASE BeginUndo(h)
  BY <1>21, <1>1, <1>2, <1>3, <1>4, <1>5, <1>6, <1>7, <1>9, BeginUndoDoes DEF Becomes, AllSafe, SafeFor, StagedFor, NotYetSaved, ToSave, Present,
     Installing, Undoing, Reading, Replacing, DestBecomes
<1>22. CASE EndUndo(h)
  BY <1>22, <1>1, <1>2, <1>3, <1>4, <1>5, <1>6, <1>7, <1>9, EndUndoDoes DEF Becomes, AllSafe, SafeFor, StagedFor, NotYetSaved, ToSave, Present,
     Installing, Undoing, Reading, Replacing, DestBecomes
<1>23. CASE UndoCompleted(h)
  BY <1>23, <1>1, <1>2, <1>3, <1>4, <1>5, <1>6, <1>7, <1>9, UndoCompletedDoes DEF Becomes, AllSafe, SafeFor, StagedFor, NotYetSaved, ToSave, Present,
     Installing, Undoing, Reading, Replacing
<1>24. CASE HelperStops(h)
  BY <1>24, <1>1, <1>2, <1>3, <1>4, <1>5, <1>6, <1>7, <1>9, HelperStopsDoes DEF Becomes, AllSafe, SafeFor, StagedFor, NotYetSaved, ToSave, Present,
     Installing, Undoing, Reading, Replacing
<1> QED  BY <1>10, <1>11, <1>12, <1>13, <1>14, <1>15, <1>16, <1>17, <1>18, <1>19, <1>20, <1>21, <1>22, <1>23, <1>24, <1>25, <1>26 DEF HelperStep

LEMMA StartKeepsRecoverable ==
  ASSUME Shape, Recoverable, NEW h \in Helpers, NEW v \in Versions, NEW pc \in {"read", "undo"},
         NEW exe \in BOOLEAN, StartHelper(h, v, pc, exe), UNCHANGED <<dest, backup, undo, disturbed>>
  PROVE  Recoverable'
<1>1. /\ helper'[h].pc = pc /\ helper'[h].target = v /\ helper'[h].kept = {}
      /\ helper'[h].rollback = (pc = "undo") /\ helper[h].pc = "unborn"
      /\ \A g \in Helpers : g # h => helper'[g] = helper[g]
      /\ ~overlap' => ~overlap
      /\ \A u \in Versions : /\ runs'[u] = IF u = v /\ pc = "read" THEN runs[u] + 1 ELSE runs[u]
                             /\ origin'[u] = IF u = v /\ runs[v] = 0 THEN dest ELSE origin[u]
  <2>1. helper'[h].rollback = (pc = "undo")  BY TypesOf DEF StartHelper, NewHelper
  <2> QED  BY <2>1, StartHelperDoes
<1>2. \A u \in Versions : runs[u] \in Nat  BY DEF Shape, Typed
<1>3. ~helper[h].rollback  BY <1>1, ShapeOf DEF PlaceOK
<1>4. /\ InstalledOnce' => InstalledOnce
      /\ RolledBack => RolledBack'
      /\ ~RolledBack' => ~RolledBack
      /\ \A e \in Plan : Present(e)' => Present(e)
      /\ \A e : HasBackup(e)' <=> HasBackup(e)
  <2>1. InstalledOnce' => InstalledOnce
    <3>1. \A u \in Versions : runs'[u] <= 1 => runs[u] <= 1  BY <1>1, <1>2
    <3> QED  BY <3>1 DEF InstalledOnce
  <2>2. RolledBack => RolledBack'  BY <1>1, <1>3 DEF RolledBack
  <2>3. \A e \in Plan : Present(e)' => Present(e)
    <3>1. ASSUME NEW e \in Plan, NEW u \in Versions, runs'[u] > 0, origin'[u][e] # Absent
          PROVE  Present(e)
      <4>1. CASE u = v /\ runs[v] = 0  BY <1>1, <3>1, <4>1 DEF Present
      <4>2. CASE ~(u = v /\ runs[v] = 0)
        <5>1. runs[u] > 0 /\ origin'[u] = origin[u]
          <6>1. CASE u = v  BY <1>1, <1>2, <4>2, <6>1
          <6>2. CASE u # v  BY <1>1, <3>1, <6>2
          <6> QED  BY <6>1, <6>2
        <5> QED  BY <3>1, <5>1 DEF Present
      <4> QED  BY <4>1, <4>2
    <3> QED  BY <3>1 DEF Present
  <2>4. \A e : HasBackup(e)' <=> HasBackup(e)  BY DEF HasBackup
  <2> QED  BY <2>1, <2>2, <2>3, <2>4
<1>5. Clean' => Clean
  BY <1>1, <1>4 DEF Clean
<1> SUFFICES ASSUME AllSafe PROVE AllSafe'
  BY <1>5 DEF Recoverable
<1>6. ASSUME NEW g \in Helpers PROVE SafeFor(g)'
  <2>1. CASE g = h  BY <1>1, <2>1 DEF SafeFor
  <2>2. CASE g # h
    <3>1. SafeFor(g) /\ helper'[g] = helper[g]  BY <1>1, <2>2 DEF AllSafe
    <3> QED  BY <1>4, <3>1 DEF SafeFor
  <2> QED  BY <2>1, <2>2
<1> QED  BY <1>4, <1>6 DEF AllSafe

LEMMA RestartKeepsRecoverable ==
  ASSUME Shape, Recoverable, NEW h \in Helpers, HelperRestarts(h)
  PROVE  Recoverable'
<1>1. /\ helper'[h].pc = "done" /\ \A g \in Helpers : g # h => helper'[g] = helper[g]
      /\ \A g \in Helpers : helper'[g].rollback = helper[g].rollback
      /\ UNCHANGED <<dest, temp, backup, undo, runs, origin, overlap, disturbed>>
  BY HelperRestartsDoes DEF Becomes
<1>2. /\ Clean' <=> Clean
      /\ RolledBack' <=> RolledBack
      /\ InstalledOnce' <=> InstalledOnce
      /\ \A e : HasBackup(e)' <=> HasBackup(e)
      /\ \A e \in Plan : Present(e)' <=> Present(e)
  BY <1>1 DEF Clean, RolledBack, InstalledOnce, HasBackup, Present
<1> SUFFICES ASSUME AllSafe PROVE AllSafe'
  BY <1>2 DEF Recoverable
<1>3. ASSUME NEW g \in Helpers PROVE SafeFor(g)'
  <2>1. CASE g = h  BY <1>1, <2>1 DEF SafeFor, Installing, Reading, Replacing
  <2>2. CASE g # h
    <3>1. SafeFor(g) /\ helper'[g] = helper[g]  BY <1>1, <2>2 DEF AllSafe
    <3> QED  BY <1>1, <1>2, <3>1 DEF SafeFor
  <2> QED  BY <2>1, <2>2
<1> QED  BY <1>1, <1>2, <1>3 DEF AllSafe

LEMMA MsiKeepsRecoverable ==
  ASSUME Shape, Recoverable, MsiInstalls, UNCHANGED managerVars
  PROVE  Recoverable'
<1>1. /\ msi \in Versions /\ DestBecomes(Exe, msi) /\ ~writable
      /\ UNCHANGED <<backup, undo, helper, runs, origin, overlap, disturbed>>
  BY Constants DEF MsiInstalls, managerVars, Shape, ExeIsForMsi, Typed, TypeOK, DestBecomes, Versions
<1>2. /\ Clean' <=> Clean
      /\ RolledBack' <=> RolledBack
      /\ InstalledOnce' <=> InstalledOnce
      /\ \A e : HasBackup(e)' <=> HasBackup(e)
  BY <1>1 DEF Clean, RolledBack, InstalledOnce, HasBackup
<1> SUFFICES ASSUME AllSafe PROVE AllSafe'
  BY <1>2 DEF Recoverable
<1>3. Complete(msi) /\ Torn # msi  BY <1>1, Constants DEF Complete
<1>4. \A e \in Plan : Present(e)' => Complete(dest'[e]) \/ HasBackup(e)'
  BY <1>1, <1>2, <1>3 DEF AllSafe, Present, DestBecomes
<1>5. ~RolledBack => \A e \in Plan : dest'[e] # Torn
  BY <1>1, <1>3 DEF AllSafe, DestBecomes
<1>6. ASSUME NEW g \in Helpers PROVE SafeFor(g)'
  <2>1. SafeFor(g) /\ PlaceOK(helper[g])  BY ShapeOf DEF AllSafe
  <2>2. /\ helper[g].pc \in Replacing => helper[g].entry \in Plan /\ helper[g].entry # Exe
    BY <1>1, <2>1 DEF PlaceOK, Exe
  <2> QED  BY <1>1, <1>2, <2>1, <2>2 DEF SafeFor, DestBecomes, Replacing
<1>7. InstalledOnce => \A v \in Versions : \A e \in undo'[v] : HasBackup(e)'
  BY <1>1, <1>2 DEF AllSafe
<1> QED  BY <1>2, <1>4, <1>5, <1>6, <1>7 DEF AllSafe

LEMMA RecoverableIsKept == Shape /\ Progress /\ Fresh /\ Recoverable /\ [Next]_vars => Recoverable'
<1> SUFFICES ASSUME Shape, Progress, Fresh, Recoverable, [Next]_vars PROVE Recoverable'  OBVIOUS
<1>1. CASE HelperSpawned \/ UserRollsBack
  <2>1. PICK h \in Helpers, v \in Versions, pc \in {"read", "undo"}, exe \in BOOLEAN :
            StartHelper(h, v, pc, exe) /\ UNCHANGED <<dest, backup, undo, disturbed>>
    BY <1>1, StartsAre
  <2> QED  BY <2>1, StartKeepsRecoverable
<1> QED
  BY <1>1, StepIs, ManagerKeepsRecoverable, RestartKeepsRecoverable, MsiKeepsRecoverable,
     HelperKeepsRecoverable

-----------------------------------------------------------------------------
(* The inductive invariant, and what it says.                               *)
LEMMA InitInvariant == Init => IInv
BY InitShape, InitUpwards, InitProgress, InitFresh, InitRecoverable, InitStatus DEF IInv

LEMMA InvariantIsKept == IInv /\ [Next]_vars => IInv'
BY ShapeIsKept, UpwardsIsKept, ProgressIsKept, FreshIsKept, RecoverableIsKept, StatusIsKept DEF IInv

THEOREM InvariantHolds == Spec => []IInv
BY InitInvariant, InvariantIsKept, PTL DEF Spec

(* Every variable of the updater keeps its type.                            *)
THEOREM UpdaterIsTyped == Spec => []TypeOK
<1>1. IInv => TypeOK  BY DEF IInv, Shape, Typed
<1> QED  BY <1>1, InvariantHolds, PTL

(* A candidate the status announces is known; a staged update it announces  *)
(* has all its files, and one it says is being installed has its helper;    *)
(* the files, but for a cancellation that failed or was dropped halfway.    *)
THEOREM StatusIsTrue == Spec => []StatusTells
<1>1. IInv => StatusTells  BY DEF IInv, StatusKnown
<1> QED  BY <1>1, InvariantHolds, PTL

(* A helper restarts the server only over a complete installation.          *)
THEOREM InstallationsAreWhole == Spec => []InstalledIsWhole
<1>1. IInv => InstalledIsWhole
  <2> SUFFICES ASSUME IInv, NEW h \in Helpers, helper[h].pc = "restart", ~overlap, NEW e \in Plan
               PROVE  dest[e] = helper[h].target \/ (e = Exe /\ ~helper[h].exe)
    BY DEF InstalledIsWhole
  <2>1. helper[h].entry = Entries + 1  BY ShapeOf DEF IInv, PlaceOK
  <2>2. e < helper[h].entry  BY <2>1, HelperAssumption DEF Plan
  <2> QED  BY <2>2 DEF IInv, Progress, InstalledUpTo
<1> QED  BY <1>1, InvariantHolds, PTL

(* A rollback brings back what its version's only installation replaced.    *)
THEOREM RollbacksRestore == Spec => []RollbackRestores
<1>1. IInv => RollbackRestores
  BY DEF IInv, Progress, RestoredBy, Undoing, RollbackRestores
<1> QED  BY <1>1, InvariantHolds, PTL

(* At every instant each file is complete, installed or in a backup.        *)
THEOREM ProgramStaysRecoverable == Spec => []ProgramRecoverable
<1>1. IInv => ProgramRecoverable
  <2> SUFFICES ASSUME IInv, ~overlap, ~disturbed, ~BackupsReused, NEW e \in Plan,
                      \E v \in Versions : runs[v] > 0 /\ origin[v][e] # Absent
               PROVE  Complete(dest[e]) \/ \E v \in Versions : Complete(backup[v][e])
    BY DEF ProgramRecoverable
  <2>1. \A v \in Versions : runs[v] \in Nat  BY DEF IInv, Shape, Typed
  <2>2. RolledBack => InstalledOnce
    BY <2>1 DEF BackupsReused, RolledBack, InstalledOnce
  <2>3. AllSafe  BY <2>2 DEF IInv, Recoverable, Clean
  <2> QED  BY <2>3 DEF AllSafe, Present, HasBackup
<1> QED  BY <1>1, InvariantHolds, PTL

(* An installed file never makes room for an older one.                     *)
THEOREM UpdatesGoUpwards == Spec => NoDowngrade
<1>1. IInv /\ [Next]_vars => [\A e \in Plan :
          Complete(dest[e]) /\ dest'[e] = Absent /\ ~overlap => temp[e] >= dest[e]]_vars
  BY NothingNewerIsRemoved DEF IInv
<1> QED  BY <1>1, InvariantHolds, PTL DEF Spec, NoDowngrade
=============================================================================

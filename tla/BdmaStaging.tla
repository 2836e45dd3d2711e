---------------------------- MODULE BdmaStaging ----------------------------
(***************************************************************************)
(* The pair of POPStarter drivers on the memory card and its marker file,  *)
(* as POPSLoader keeps them (src/bin/POPSLDR/system.lua): staged for the   *)
(* device of the game being launched (MaybeApplyAdaptiveBdma and the UDPFS *)
(* launch), staged by a Settings save that changes the BDMA mode           *)
(* (CommitSettingsChanges), and read back at boot                          *)
(* (ReconcileBdmaModeWithEffectiveState).  A write may fail and the power  *)
(* may go at every step.                                                   *)
(*                                                                         *)
(* The POPSTARTER folder is on, and a file that cannot be removed cannot   *)
(* be written either.  A save of the settings file, and an atomic          *)
(* replacement of a driver, is what AtomicFile shows it to be.             *)
(***************************************************************************)
EXTENDS Naturals

CONSTANTS
  Plain,       \* variants whose installed bytes are not looked at (USBEXFAT, MMCE, ...)
  Verified,    \* variants whose installed bytes are compared (UDPFS)
  FAT32,       \* the mode without drivers
  Absent, Torn,
  MaxMishaps   \* bound: failed writes and power losses, from one clean menu to the next

Variants == Plain \union Verified
Modes    == Variants \union {FAT32}
Files    == 1 .. 2      \* usbd.irx, usbhdfsd.irx: BDMA_COPY_FILES
Driver   == Variants \union {Absent, Torn}

ASSUME BdmaAssumption ==
  /\ Plain \intersect Verified = {}
  /\ {FAT32, Absent, Torn} \intersect Variants = {}
  /\ Absent # Torn /\ FAT32 \notin {Absent, Torn}
  /\ MaxMishaps \in Nat

VARIABLES
  card,       \* whose build each driver file holds
  marker,     \* what bdma_mode.txt names
  mode,       \* PLDR.BDMA_MODE_KEY
  adaptive,   \* PLDR.BDMA_ADAPTIVE
  saved,      \* the two of them in the settings file
  pc,
  at,         \* the next file of the pair
  job,        \* the launch or the save under way
  entry,      \* the mode the Settings screen opened with
  outcome,    \* what the last save of the settings returned
  mishaps

settings == <<mode, adaptive>>
disk == <<card, marker, saved>>
vars == <<disk, settings, pc, at, job, entry, outcome, mishaps>>

Settings == [mode : Modes, adaptive : BOOLEAN]
Defaults == [mode |-> FAT32, adaptive |-> TRUE]
Jobs ==
  [kind : {"launch", "apply", "restore"},
   target : Modes,
   fast : BOOLEAN,       \* launch_fast: direct writes
   managed : BOOLEAN,    \* a launch whose pair POPSLoader answers for
   staged : BOOLEAN,     \* a launch that had to write the pair
   prev : Settings]      \* SnapshotSettingsState

TypeOK ==
  /\ card \in [Files -> Driver]
  /\ marker \in Modes \union {Absent, Torn}
  /\ mode \in Modes /\ adaptive \in BOOLEAN /\ saved \in Settings
  /\ pc \in {"menu", "settings", "save", "file", "mark", "adaptiveOff", "finalize", "resave",
             "playing", "off"}
  /\ at \in 1 .. 3
  /\ job \in Jobs
  /\ entry \in Modes
  /\ outcome \in {"none", "ok", "save_failed", "bdma_apply_failed", "smb_apply_failed"}
  /\ mishaps \in 0 .. MaxMishaps

-----------------------------------------------------------------------------
(* What the card holds, and what POPSLoader takes it to hold.              *)

Matches(target) == \A f \in Files : card[f] = IF target = FAT32 THEN Absent ELSE target

\* Mutant: the marker is not looked at.
IsEquipped_NoMarker(target) ==
  IF target = FAT32 THEN \A f \in Files : card[f] = Absent
  ELSE /\ \A f \in Files : card[f] # Absent
       /\ target \in Verified => Matches(target)

\* IsBdmaModeEquipped.
IsEquipped(target) ==
  IF target = FAT32 THEN \A f \in Files : card[f] = Absent
  ELSE /\ \A f \in Files : card[f] # Absent
       /\ target \in Verified => Matches(target)
       /\ marker = target

\* ReconcileBdmaModeWithEffectiveState: the marker overrides the mode, Adaptive BDMA off.
Reconciled(m, isAdaptive) == IF ~isAdaptive /\ marker \in Modes THEN marker ELSE m

\* Every file the marker speaks for is of its variant, or gone.
Clean ==
  /\ marker # Torn
  /\ \A f \in Files : card[f] # Torn
  /\ marker \in Variants => \A f \in Files : card[f] \in {marker, Absent}

Mishap(n) == mishaps + n <= MaxMishaps /\ mishaps' = mishaps + n
NoMishap  == UNCHANGED mishaps
Settled   == mishaps' = IF Clean THEN 0 ELSE mishaps

\* What a write that fails may leave of a file, and how many things had to go wrong.
\* WriteBytesDirectBounded removes the old file first and the torn one after; WriteAtomic
\* and its like put the old one back.
LeftBy(old, direct) ==
  {<<old, 1>>, <<Absent, IF direct THEN 1 ELSE 2>>, <<Torn, 2>>}

-----------------------------------------------------------------------------
Init ==
  /\ card \in [Files -> Variants \union {Absent}]   \* none, or drivers placed by hand
  /\ marker = Absent
  /\ saved = Defaults /\ mode = FAT32 /\ adaptive = TRUE
  /\ pc = "menu" /\ at = 1
  /\ job = [kind |-> "launch", target |-> FAT32, fast |-> FALSE, managed |-> FALSE,
            staged |-> FALSE, prev |-> Defaults]
  /\ entry = FAT32
  /\ outcome = "none"
  /\ mishaps = 0

(* The launch: RunPOPStarterGame and MaybeApplyAdaptiveBdma.               *)

\* Adaptive BDMA off, only the chosen mode's own device is served.
IsManaged(target, udpfsPage) ==
  udpfsPage \/ adaptive \/ (target # FAT32 /\ target = mode)

Launch(target, udpfsPage) ==
  /\ pc = "menu"
  /\ udpfsPage => target \in Verified
  /\ LET managed == IsManaged(target, udpfsPage)
         stage == managed /\ ~IsEquipped(target)
     IN /\ job' = [kind |-> "launch", target |-> target, fast |-> TRUE, managed |-> managed,
                   staged |-> stage, prev |-> [mode |-> mode, adaptive |-> adaptive]]
        /\ pc' = IF stage THEN "file" ELSE "playing"
  /\ at' = 1
  /\ outcome' = "none"
  /\ Settled
  /\ UNCHANGED <<disk, settings, entry>>

\* POPStarter could not be started after all.
LaunchReturns ==
  /\ pc = "playing"
  /\ pc' = "menu"
  /\ UNCHANGED <<disk, settings, at, job, entry, outcome, mishaps>>

-----------------------------------------------------------------------------
(* Settings: queue_exit of ui.lua and CommitSettingsChanges.               *)

OpenSettings ==
  /\ pc = "menu"
  /\ mode' = Reconciled(mode, adaptive)
  /\ entry' = mode'
  /\ pc' = "settings"
  /\ outcome' = "none"
  /\ Settled
  /\ UNCHANGED <<disk, adaptive, at, job>>

LeaveSettings ==
  /\ pc = "settings"
  /\ pc' = "menu"
  /\ UNCHANGED <<disk, settings, at, job, entry, outcome, mishaps>>

Commit(wanted, nextAdaptive) ==
  /\ pc = "settings"
  /\ job' = [kind |-> "apply", target |-> wanted, fast |-> FALSE, managed |-> FALSE,
             staged |-> FALSE, prev |-> [mode |-> mode, adaptive |-> adaptive]]
  /\ mode' = wanted /\ adaptive' = nextAdaptive
  /\ pc' = "save"
  /\ at' = 1
  /\ outcome' = "none"
  /\ UNCHANGED <<disk, entry, mishaps>>

\* SaveSettingsAtomic.  BdmaDirty: the mode is another one than the screen opened with.
SaveSettings ==
  /\ pc = "save"
  /\ \/ /\ saved' = [mode |-> mode, adaptive |-> adaptive]
        /\ pc' = IF job.target # entry THEN "file" ELSE "adaptiveOff"
        /\ NoMishap
        /\ UNCHANGED <<settings, outcome>>
     \/ /\ Mishap(1)
        /\ mode' = job.prev.mode /\ adaptive' = job.prev.adaptive
        /\ pc' = "settings" /\ outcome' = "save_failed"
        /\ UNCHANGED saved
  /\ UNCHANGED <<card, marker, at, job, entry>>

-----------------------------------------------------------------------------
(* ApplyBdmaMode: the two files, then the marker.                          *)

IsDirect == job.fast /\ job.target # FAT32

Applied == pc' = CASE job.kind = "launch"  -> "playing"
                   [] job.kind = "apply"   -> "adaptiveOff"
                   [] job.kind = "restore" -> "finalize"

\* A failed launch goes back to the menu, a failed save is undone, and a mode that could
\* not be restored is only reported.
ApplyFailed ==
  IF job.kind = "apply"
    THEN pc' = "resave" /\ mode' = job.prev.mode
    ELSE pc' = (IF job.kind = "launch" THEN "menu" ELSE "finalize") /\ UNCHANGED mode

Written == IF job.target = FAT32 THEN Absent ELSE job.target
NextFile == at' = at + 1 /\ pc' = IF at' \in Files THEN "file" ELSE "mark"

\* Mutant: a file that could not be written is passed over.
StageFile_Unchecked ==
  /\ pc = "file"
  /\ \/ card' = [card EXCEPT ![at] = Written] /\ NoMishap
     \/ \E left \in LeftBy(card[at], IsDirect) :
          Mishap(left[2]) /\ card' = [card EXCEPT ![at] = left[1]]
  /\ NextFile
  /\ UNCHANGED <<marker, saved, settings, job, entry, outcome>>

\* DeleteIfExists for FAT32, WriteBytesDirectBounded or an atomic copy for the others.
StageFile ==
  /\ pc = "file"
  /\ \/ /\ card' = [card EXCEPT ![at] = Written]
        /\ NextFile
        /\ NoMishap
        /\ UNCHANGED mode
     \/ /\ \E left \in (IF job.target = FAT32 THEN {<<card[at], 1>>}
                                              ELSE LeftBy(card[at], IsDirect)) :
             Mishap(left[2]) /\ card' = [card EXCEPT ![at] = left[1]]
        /\ ApplyFailed
        /\ UNCHANGED at
  /\ UNCHANGED <<marker, saved, adaptive, job, entry, outcome>>

\* WriteBdmaModeMarker, whose result counts in a launch and for the embedded pair only.
WriteMarker ==
  /\ pc = "mark"
  /\ \/ /\ marker' = job.target
        /\ NoMishap
        /\ Applied
        /\ UNCHANGED mode
     \/ /\ \E left \in LeftBy(marker, IsDirect) : Mishap(left[2]) /\ marker' = left[1]
        /\ IF IsDirect \/ job.target \in Verified THEN ApplyFailed
                                                  ELSE Applied /\ UNCHANGED mode
  /\ UNCHANGED <<card, saved, adaptive, at, job, entry, outcome>>

-----------------------------------------------------------------------------
(* The rest of CommitSettingsChanges.                                      *)

\* Adaptive BDMA turned off: the marker named the last launch, and is made to name the
\* chosen mode again.
AdaptiveOff ==
  /\ pc = "adaptiveOff"
  /\ IF job.prev.adaptive /\ ~adaptive /\ ~IsEquipped(job.target)
       THEN job' = [job EXCEPT !.kind = "restore"] /\ at' = 1 /\ pc' = "file"
       ELSE UNCHANGED <<job, at>> /\ pc' = "finalize"
  /\ UNCHANGED <<disk, settings, entry, outcome, mishaps>>

\* Mutant: the settings file keeps the mode that never took.
Resave_Skipped ==
  /\ pc = "resave"
  /\ pc' = "settings" /\ outcome' = "bdma_apply_failed"
  /\ mode' = Reconciled(mode, adaptive)
  /\ UNCHANGED <<disk, adaptive, at, job, entry, mishaps>>

\* The mode that did not take is undone in the settings file too.
Resave ==
  /\ pc = "resave"
  /\ \/ saved' = [mode |-> mode, adaptive |-> adaptive] /\ NoMishap
     \/ UNCHANGED saved /\ Mishap(1)
  /\ mode' = Reconciled(mode, adaptive)
  /\ pc' = "settings" /\ outcome' = "bdma_apply_failed"
  /\ UNCHANGED <<card, marker, adaptive, at, job, entry>>

\* The SMB modules may fail to install; the save then ends without a reconcile.
Finalize ==
  /\ pc = "finalize"
  /\ \/ /\ mode' = Reconciled(mode, adaptive)
        /\ pc' = "menu" /\ outcome' = "ok"
        /\ NoMishap
     \/ /\ Mishap(1)
        /\ pc' = "settings" /\ outcome' = "smb_apply_failed"
        /\ UNCHANGED mode
  /\ UNCHANGED <<disk, adaptive, at, job, entry>>

-----------------------------------------------------------------------------
(* The power, the user's hands, and the boot.                              *)

\* A write under way may have been done, not done, or half done.
PowerLoss ==
  /\ pc \notin {"off", "menu", "settings", "playing"}
  /\ Mishap(1)
  /\ IF pc = "file"
       THEN \E left \in {card[at], Absent, Torn} : card' = [card EXCEPT ![at] = left]
       ELSE UNCHANGED card
  /\ marker' \in IF pc = "mark" THEN {marker, Absent, Torn} ELSE {marker}
  /\ saved' \in IF pc \in {"save", "resave"} THEN {saved, Defaults} ELSE {saved}
  /\ pc' = "off"
  /\ UNCHANGED <<settings, at, job, entry, outcome>>

TurnOff ==
  /\ pc \in {"menu", "settings", "playing"}
  /\ pc' = "off"
  /\ UNCHANGED <<disk, settings, at, job, entry, outcome, mishaps>>

\* Files are deleted from the card, on another console.
DeleteFiles(gone) ==
  /\ pc = "off"
  /\ card' = [f \in Files |-> IF f \in gone THEN Absent ELSE card[f]]
  /\ UNCHANGED <<marker, saved, settings, pc, at, job, entry, outcome, mishaps>>

\* LoadSettingsNonFatal.
Boot ==
  /\ pc = "off"
  /\ adaptive' = saved.adaptive
  /\ mode' = Reconciled(saved.mode, saved.adaptive)
  /\ pc' = "menu"
  /\ outcome' = "none"
  /\ UNCHANGED <<disk, at, job, entry, mishaps>>

Next ==
  \/ \E target \in Modes, udpfsPage \in BOOLEAN : Launch(target, udpfsPage)
  \/ \E wanted \in Modes, nextAdaptive \in BOOLEAN : Commit(wanted, nextAdaptive)
  \/ \E gone \in SUBSET Files : DeleteFiles(gone)
  \/ LaunchReturns \/ OpenSettings \/ LeaveSettings \/ SaveSettings
  \/ StageFile \/ WriteMarker \/ AdaptiveOff \/ Resave \/ Finalize
  \/ PowerLoss \/ TurnOff \/ Boot

Spec == Init /\ [][Next]_vars

-----------------------------------------------------------------------------
(* Properties.                                                             *)

\* A launch that had to stage its pair runs with that pair whole and marked, whatever had
\* gone wrong before: a staging that fails cancels the launch (system.lua:10236-10247).
StagedLaunchHasItsPair ==
  pc = "playing" /\ job.staged =>
    Matches(job.target) /\ (job.target # FAT32 => marker = job.target)

\* Nothing having gone wrong since the card was last in order, every launch POPSLoader
\* answers for runs with its own pair, staged or found equipped (system.lua:7233-7236).
ManagedLaunchHasItsPair ==
  pc = "playing" /\ job.managed /\ mishaps = 0 => Matches(job.target)

\* A save whose staging failed has left the earlier mode in the settings file
\* (system.lua:5902-5907).
FailedApplyIsUndone ==
  outcome = "bdma_apply_failed" /\ mishaps <= 1 => saved.mode = job.prev.mode

\* A save that returns true leaves the mode the user picked in the file and in force, also
\* when Adaptive BDMA has just been turned off after launches on other devices
\* (system.lua:5914-5919).  Not so for FAT32 when somebody else deleted the drivers: the card
\* is taken to be in order, keeps its marker, and the marker's mode is what comes into force.
CommitTakes ==
  outcome = "ok" /\ mishaps = 0 =>
    /\ saved.mode = job.target
    /\ mode = job.target \/ (job.target = FAT32 /\ Matches(FAT32))

\* Adaptive BDMA off, a launch on a device that the mode in force does not serve writes
\* nothing to the card, and no launch removes drivers placed by hand (system.lua:7271-7281).
ManualLaunchWritesNothing ==
  [][card' # card /\ pc = "file" /\ job.kind = "launch" /\ ~adaptive
       => job.target \in Verified \/ job.target = mode]_vars
=============================================================================

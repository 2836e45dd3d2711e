--------------------------- MODULE SettingsStore ---------------------------
(***************************************************************************)
(* Where the settings are read and written (LoadSettingsNonFatal and       *)
(* SaveSettingsAtomic of src/bin/POPSLDR/system.lua).  There are two       *)
(* places: the sidecar beside the program and the fallback on the memory   *)
(* card.  The sidecar's three files and the calls on them are AtomicFile's *)
(* variables and actions; the fallback is one file, replaced whole or left *)
(* alone, as AtomicFile shows WriteAtomic to do when at most one call      *)
(* fails.                                                                  *)
(*                                                                         *)
(* The sidecar is on a USB stick that comes back some time after the IOP   *)
(* reset ("mass"), on a device that is there at boot ("direct"), on the    *)
(* partition the program was started from, which may be mounted read-only  *)
(* ("hdd"), or there is none ("none").                                     *)
(***************************************************************************)
EXTENDS AtomicFile

CONSTANTS
  Kinds,      \* the kinds of sidecar, of the four above
  Default,    \* the settings of an install that has never saved
  Nothing     \* no save has been reported yet

Passes == 3   \* the boot probe's bound

ASSUME SettingsAssumption ==
  /\ Kinds \subseteq {"mass", "direct", "hdd", "none"}
  /\ Default \in Versions
  /\ Nothing \notin Contents

VARIABLES
  kind,       \* where the sidecar is
  here,       \* its device can be read
  writable,   \* the boot partition is mounted read-write
  card,       \* the fallback's contents
  phase,      \* "off", "probe", "running", "saving", "retried", "refused"
  passes,     \* passes of the probe so far
  path,       \* SETTINGS_PATH: "sidecar" or "card"
  settings,   \* what is in force
  picked,     \* what is being saved
  known,      \* the last version whose save was reported as done
  fell,       \* that save fell back to the card
  spoilt,     \* a save since then lost power, or met more than one call that failed
  missed,     \* the last load did not read the file that was there
  fresh       \* nothing was saved since the last load

device == <<kind, here, writable>>
ghosts == <<known, fell, spoilt, missed, fresh>>
store  == <<device, card, phase, passes, path, settings, picked, ghosts>>

HasSidecar == kind # "none"
Found == HasSidecar /\ here /\ dest # Absent

SettingsInit ==
  /\ Init
  /\ kind \in Kinds /\ here = FALSE /\ writable = FALSE
  /\ card \in {Absent, Default}
  /\ phase = "off" /\ passes = 0 /\ path = "card"
  /\ settings = Default /\ picked = Default
  /\ known = Nothing /\ fell = FALSE /\ spoilt = FALSE /\ missed = FALSE /\ fresh = FALSE

-----------------------------------------------------------------------------
(* Boot.                                                                   *)

\* SETTINGS_PATH starts as the sidecar when one can be computed.  The launcher chose how
\* the boot partition is mounted.
PowerOn ==
  /\ phase = "off"
  /\ phase' = "probe" /\ passes' = 0
  /\ here' \in IF kind = "mass" THEN BOOLEAN ELSE {TRUE}
  /\ writable' \in IF kind = "hdd" THEN BOOLEAN ELSE {TRUE}
  /\ path' = IF HasSidecar THEN "sidecar" ELSE "card"
  /\ settings' = Default
  /\ UNCHANGED <<vars, kind, card, picked, ghosts>>

\* bdmfs_fatfs registers the stick, or it is pulled and put back while the menu runs.
DriveComes ==
  /\ kind = "mass" /\ ~here /\ phase \in {"probe", "running"}
  /\ here' = TRUE
  /\ UNCHANGED <<vars, kind, writable, card, phase, passes, path, settings, picked, ghosts>>

DriveGoes ==
  /\ kind = "mass" /\ here /\ phase = "running"
  /\ here' = FALSE
  /\ UNCHANGED <<vars, kind, writable, card, phase, passes, path, settings, picked, ghosts>>

\* One pass of the heal ladder: only for a mass sidecar that was not found.
ProbeAgain ==
  /\ phase = "probe" /\ kind = "mass" /\ ~Found /\ passes < Passes
  /\ passes' = passes + 1
  /\ UNCHANGED <<vars, device, card, phase, path, settings, picked, ghosts>>

GaveUp == ~Found /\ (kind = "mass" => passes = Passes)

Loaded(version, skipped) ==
  /\ phase' = "running"
  /\ settings' = version
  /\ missed' = skipped
  /\ fresh' = TRUE
  /\ UNCHANGED <<files, pc, call, outcome, device, card, passes, picked, known, fell, spoilt>>

\* The sidecar is read and pinned.  ReadWholeFile may fail: the defaults stay.
LoadSidecar ==
  /\ phase = "probe" /\ Found
  /\ path' = "sidecar"
  /\ \/ Loaded(dest, FALSE) /\ NoMishap
     \/ Loaded(Default, TRUE) /\ Mishap

\* Mutant: the card is asked first.
LoadFallback_CardFirst ==
  /\ phase = "probe" /\ card # Absent
  /\ path' = IF HasSidecar THEN "sidecar" ELSE "card"
  /\ \/ Loaded(card, HasSidecar /\ dest # Absent /\ ~Found) /\ NoMishap
     \/ Loaded(Default, TRUE) /\ Mishap

\* The card is read.  With a sidecar to migrate to, the next save goes there.
LoadFallback ==
  /\ phase = "probe" /\ GaveUp /\ card # Absent
  /\ path' = IF HasSidecar THEN "sidecar" ELSE "card"
  /\ \/ Loaded(card, HasSidecar /\ dest # Absent) /\ NoMishap
     \/ Loaded(Default, TRUE) /\ Mishap

LoadNothing ==
  /\ phase = "probe" /\ GaveUp /\ card = Absent
  /\ Loaded(Default, HasSidecar /\ dest # Absent)
  /\ NoMishap /\ UNCHANGED path

-----------------------------------------------------------------------------
(* SaveSettingsAtomic.                                                     *)

Reported(version, onCard) ==
  /\ phase' = "running"
  /\ settings' = version
  /\ known' = version /\ fell' = onCard /\ fresh' = FALSE
  /\ UNCHANGED <<device, passes, picked, missed>>

\* CommitSettingsChanges puts the previous settings back in force.
NotSaved ==
  /\ phase' = "running"
  /\ UNCHANGED <<device, card, passes, path, settings, picked, ghosts>>

\* The target is the card: its folder is ensured and the file replaced, or neither.
SaveToCard(v) ==
  /\ phase = "running" /\ path = "card"
  /\ \/ card' = v /\ Reported(v, HasSidecar) /\ spoilt' = FALSE /\ UNCHANGED <<vars, path>>
     \/ NotSaved /\ UNCHANGED vars

\* The target is the sidecar.  Where nothing can be written, WriteAtomic's first calls fail
\* and nothing is touched.
SaveToSidecar(v) ==
  /\ phase = "running" /\ path = "sidecar"
  /\ picked' = v
  /\ \/ /\ here /\ writable /\ phase' = "saving"
        /\ Save(v)
        /\ spoilt' = (spoilt \/ mishaps' > 1)
     \/ /\ ~(here /\ writable) /\ phase' = "refused"
        /\ UNCHANGED <<vars, spoilt>>
  /\ UNCHANGED <<device, card, passes, path, settings, known, fell, missed, fresh>>

WriteSidecar ==
  /\ phase \in {"saving", "retried"}
  /\ FileCall
  /\ spoilt' = (spoilt \/ mishaps' > 1)
  /\ UNCHANGED <<device, card, phase, passes, path, settings, picked, known, fell, missed, fresh>>

Written == phase \in {"saving", "retried"} /\ pc = "idle" /\ outcome = "saved"
Failed  == phase = "refused" \/ (phase \in {"saving", "retried"} /\ pc = "idle" /\ outcome = "failed")

SidecarSaved ==
  /\ Written
  /\ Reported(picked, FALSE)
  /\ spoilt' = (mishaps > 1)
  /\ UNCHANGED <<vars, card, path>>

\* EnsureBootPartitionWritable: the boot partition is remounted read-write and the save is
\* tried again, once.
TakeOverAndRetry ==
  /\ Failed /\ kind = "hdd" /\ phase # "retried"
  /\ writable' = TRUE
  /\ phase' = "retried"
  /\ Save(picked)
  /\ spoilt' = (spoilt \/ mishaps' > 1)
  /\ UNCHANGED <<kind, here, card, passes, path, settings, picked, known, fell, missed, fresh>>

\* The card is tried once, and pinned when it takes the file.
FallBack ==
  /\ Failed /\ kind \in {"mass", "direct"}
  /\ card' = picked /\ path' = "card"
  /\ Reported(picked, TRUE)
  /\ spoilt' = FALSE
  /\ UNCHANGED vars

GiveUp ==
  /\ Failed
  /\ NotSaved
  /\ UNCHANGED vars

SwitchOff ==
  /\ phase \in {"probe", "running"}
  /\ phase' = "off"
  /\ UNCHANGED <<vars, device, card, passes, path, settings, picked, ghosts>>

PowerLossInSave ==
  /\ phase \in {"saving", "retried"}
  /\ PowerLoss
  /\ phase' = "off" /\ spoilt' = TRUE
  /\ UNCHANGED <<device, card, passes, path, settings, picked, known, fell, missed, fresh>>

Load == LoadSidecar \/ LoadFallback \/ LoadNothing
SaveEnds == SidecarSaved \/ TakeOverAndRetry \/ FallBack \/ GiveUp

SettingsNext ==
  \/ PowerOn \/ DriveComes \/ DriveGoes \/ ProbeAgain \/ Load
  \/ \E v \in Versions : SaveToCard(v) \/ SaveToSidecar(v)
  \/ WriteSidecar \/ SaveEnds \/ SwitchOff \/ PowerLossInSave

SettingsSpec == SettingsInit /\ [][SettingsNext]_<<vars, store>>

-----------------------------------------------------------------------------
(* Properties.                                                             *)

\* A boot puts in force what the last save that was reported as done has written, whatever
\* saves failed since and wherever the program was started from (system.lua:5494-5502).
\* The code does not promise it when the power went in a save, when more than one file call
\* of a save failed, when the stick came back after the third pass, or when that save fell
\* back to the card beside an older sidecar.
BootReadsTheLastSave ==
  phase = "running" /\ fresh /\ known # Nothing
    /\ ~spoilt /\ ~missed /\ ~(fell /\ dest # Absent)
  => settings = known
=============================================================================

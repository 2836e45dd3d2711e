----------------------------- MODULE AtomicFile -----------------------------
(***************************************************************************)
(* Replacing one small file on a memory card or a stick: WriteAtomic,      *)
(* WriteBytesAtomicBounded and PromoteTmpToDest of                         *)
(* src/bin/POPSLDR/system.lua, over the file calls of                      *)
(* src/src/luasystem.cpp.  System.rename is a copy followed by a remove,   *)
(* so a replacement is a dozen file calls on `dest`, `dest.tmp` and        *)
(* `dest.bak`; every call is a step, may fail, and may be the last one     *)
(* before the power goes.                                                  *)
(*                                                                         *)
(* The drivers report a write that fails at the write, and doesFileExist   *)
(* (an open) tells the truth.                                              *)
(***************************************************************************)
EXTENDS Naturals

CONSTANTS
  Versions,    \* the contents a caller may ask to save
  Absent,      \* there is no such file
  Torn,        \* a file that holds no complete version
  MaxMishaps   \* bound: calls that fail and power losses, from one clean start to the next

Contents == Versions \union {Absent, Torn}

ASSUME AtomicFileAssumption ==
  /\ Absent \notin Versions \union {Torn}
  /\ Torn \notin Versions
  /\ MaxMishaps \in Nat

VARIABLES
  dest, tmp, bak,  \* what the three files hold
  pc,              \* the next file call, "idle" between two saves
  data,            \* the version being saved
  hadDest,         \* PromoteTmpToDest's had_dest
  before,          \* what dest held when the save began
  outcome,         \* what the last save returned
  mishaps

files == <<dest, tmp, bak>>
call  == <<data, hadDest, before>>
vars  == <<files, pc, call, outcome, mishaps>>

Steps == {"idle", "stale", "open", "write", "probe", "dropOldBak", "backup", "unlinkDest",
          "promote", "unlinkTmp", "dropBak", "rollback", "restore", "unlinkBak", "discard"}

TypeOK ==
  /\ dest \in Contents /\ tmp \in Contents /\ bak \in Contents
  /\ pc \in Steps
  /\ data \in Versions
  /\ hadDest \in BOOLEAN
  /\ before \in Contents
  /\ outcome \in {"none", "saved", "failed"}
  /\ mishaps \in 0 .. MaxMishaps

Init ==
  /\ dest \in Versions \union {Absent} /\ tmp = Absent /\ bak = Absent
  /\ pc = "idle"
  /\ data \in Versions
  /\ hadDest = FALSE
  /\ before = dest
  /\ outcome = "none"
  /\ mishaps = 0

-----------------------------------------------------------------------------
(* File calls.                                                             *)

Clean == tmp = Absent /\ bak = Absent /\ dest # Torn

Mishap == mishaps < MaxMishaps /\ mishaps' = mishaps + 1
NoMishap == UNCHANGED mishaps

\* remove(file), whose result nobody looks at.
Remove(file) ==
  \/ file' = Absent /\ NoMishap
  \/ Mishap /\ UNCHANGED file

Goto(step) == pc' = step /\ UNCHANGED <<call, outcome>>
Return(result) == pc' = "idle" /\ outcome' = result /\ UNCHANGED call

\* copy_file_contents(from, to), `to` opened with O_TRUNC.  It fails before the target is
\* opened, or after.
Copied(from, to) == to' = from /\ NoMishap
CopyFailed(to)   == Mishap /\ to' \in {to, Torn}

-----------------------------------------------------------------------------
(* WriteAtomic.                                                            *)

Save(v) ==
  /\ pc = "idle"
  /\ pc' = "stale"
  /\ data' = v
  /\ before' = dest
  /\ outcome' = "none"
  /\ hadDest' = FALSE
  /\ mishaps' = IF Clean THEN 0 ELSE mishaps
  /\ UNCHANGED files

RemoveStaleTmp ==
  /\ pc = "stale"
  /\ IF tmp # Absent THEN Remove(tmp) ELSE NoMishap /\ UNCHANGED tmp
  /\ Goto("open")
  /\ UNCHANGED <<dest, bak>>

\* openFile(tmp, FCREATE): O_CREAT | O_WRONLY, which does not truncate.
OpenTmp ==
  /\ pc = "open"
  /\ \/ /\ tmp' = IF tmp = Absent THEN Torn ELSE tmp
        /\ NoMishap
        /\ Goto("write")
     \/ /\ Mishap
        /\ UNCHANGED tmp
        /\ Return("failed")
  /\ UNCHANGED <<dest, bak>>

\* Mutant: the number of bytes written is not looked at.
WriteTmp_Unchecked ==
  /\ pc = "write"
  /\ \/ tmp' = data /\ NoMishap /\ Goto("probe")
     \/ Mishap /\ tmp' = Torn /\ Goto("probe")
  /\ UNCHANGED <<dest, bak>>

\* The chunks, each of which must be written in full.  Written over a file that could not
\* be removed, they may leave its tail behind.
WriteTmp ==
  /\ pc = "write"
  /\ \/ /\ tmp' \in {data} \union (IF tmp \in Versions THEN {Torn} ELSE {})
        /\ NoMishap
        /\ Goto("probe")
     \/ /\ Mishap
        /\ tmp' = Torn
        /\ Goto("discard")
  /\ UNCHANGED <<dest, bak>>

-----------------------------------------------------------------------------
(* PromoteTmpToDest.                                                       *)

\* Mutant: no backup is made.
Probe_NoBackup ==
  /\ pc = "probe"
  /\ hadDest' = FALSE
  /\ pc' = "promote"
  /\ UNCHANGED <<files, data, before, outcome, mishaps>>

Probe ==
  /\ pc = "probe"
  /\ hadDest' = (dest # Absent)
  /\ pc' = IF dest # Absent THEN "dropOldBak" ELSE "promote"
  /\ UNCHANGED <<files, data, before, outcome, mishaps>>

DropOldBak ==
  /\ pc = "dropOldBak"
  /\ IF bak # Absent THEN Remove(bak) ELSE NoMishap /\ UNCHANGED bak
  /\ Goto("backup")
  /\ UNCHANGED <<dest, tmp>>

\* System.rename(dest, bak): the copy.  After one that failed the save goes on only when a
\* backup file exists, whole or not.
Backup ==
  /\ pc = "backup"
  /\ \/ Copied(dest, bak) /\ Goto("unlinkDest")
     \/ CopyFailed(bak) /\ Goto(IF bak' = Absent THEN "discard" ELSE "promote")
  /\ UNCHANGED <<dest, tmp>>

UnlinkDest ==
  /\ pc = "unlinkDest"
  /\ Remove(dest)
  /\ Goto("promote")
  /\ UNCHANGED <<tmp, bak>>

\* System.rename(tmp, dest): the copy.
Promote ==
  /\ pc = "promote"
  /\ \/ Copied(tmp, dest) /\ Goto("unlinkTmp")
     \/ CopyFailed(dest) /\ Goto("rollback")
  /\ UNCHANGED <<tmp, bak>>

UnlinkTmp ==
  /\ pc = "unlinkTmp"
  /\ Remove(tmp)
  /\ Goto("dropBak")
  /\ UNCHANGED <<dest, bak>>

DropBak ==
  /\ pc = "dropBak"
  /\ IF bak # Absent THEN Remove(bak) ELSE NoMishap /\ UNCHANGED bak
  /\ Return("saved")
  /\ UNCHANGED <<dest, tmp>>

Rollback ==
  /\ pc = "rollback"
  /\ Remove(dest)
  /\ Goto(IF hadDest /\ bak # Absent THEN "restore" ELSE "discard")
  /\ UNCHANGED <<tmp, bak>>

\* System.rename(bak, dest): the copy.
Restore ==
  /\ pc = "restore"
  /\ \/ Copied(bak, dest) /\ Goto("unlinkBak")
     \/ CopyFailed(dest) /\ Goto("discard")
  /\ UNCHANGED <<tmp, bak>>

UnlinkBak ==
  /\ pc = "unlinkBak"
  /\ Remove(bak)
  /\ Goto("discard")
  /\ UNCHANGED <<dest, tmp>>

Discard ==
  /\ pc = "discard"
  /\ Remove(tmp)
  /\ Return("failed")
  /\ UNCHANGED <<dest, bak>>

\* The power goes, between two calls or in the middle of a copy.
PowerLoss ==
  /\ pc # "idle"
  /\ Mishap
  /\ tmp'  \in IF pc = "write" THEN {tmp, Torn} ELSE {tmp}
  /\ bak'  \in IF pc = "backup" THEN {bak, Torn} ELSE {bak}
  /\ dest' \in IF pc \in {"promote", "restore"} THEN {dest, Torn} ELSE {dest}
  /\ pc' = "idle"
  /\ outcome' = "none"
  /\ UNCHANGED call

FileCall ==
  \/ RemoveStaleTmp \/ OpenTmp \/ WriteTmp \/ Probe \/ DropOldBak \/ Backup \/ UnlinkDest
  \/ Promote \/ UnlinkTmp \/ DropBak \/ Rollback \/ Restore \/ UnlinkBak \/ Discard

Next == (\E v \in Versions : Save(v)) \/ FileCall \/ PowerLoss

Spec == Init /\ [][Next]_vars

-----------------------------------------------------------------------------
(* Properties.                                                             *)

\* A save that returns true has put the whole new version in place, unless more than one
\* thing went wrong since the files were last clean (system.lua:4496-4498: a truncated
\* temp file is never promoted as a valid save).
SavedIsComplete == mishaps <= 1 /\ outcome = "saved" => dest = data

\* A save that returns false has left the file as it was, unless more than one thing went
\* wrong (system.lua:4450-4453).
FailedSaveKeepsOld == mishaps <= 1 /\ outcome = "failed" => dest = before

\* The version that was in place when a save began, or the one being saved, is whole in one
\* of the three files at every moment, so that one call that fails or one power loss
\* never costs both.
ACopySurvives ==
  mishaps <= 1 /\ before \in Versions => {dest, tmp, bak} \intersect {before, data} # {}

\* What a save answers is so: both of the above.
SavesAnswerTruly == SavedIsComplete /\ FailedSaveKeepsOld
=============================================================================

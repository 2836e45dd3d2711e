------------------------ MODULE SettingsStoreProofs ------------------------
(***************************************************************************)
(* What one failed file call or one power loss cannot do to a file that    *)
(* PromoteTmpToDest replaces, for every set of contents and however many   *)
(* saves follow one another; then what a boot puts in force of the         *)
(* settings kept in such a file, and in the copy on the card.              *)
(***************************************************************************)
EXTENDS SettingsStore, TLAPS

-----------------------------------------------------------------------------
(* The inductive invariant: what the three files hold at each file call,   *)
(* as long as at most one thing went wrong.                                *)

\* Before the backup: dest is untouched.
Writing ==
  /\ pc \in {"stale", "open", "write", "probe", "dropOldBak", "backup"} => dest = before
  /\ pc = "open" => tmp = Absent
  /\ pc = "write" => tmp = Torn
  /\ pc \in {"probe", "dropOldBak", "backup", "unlinkDest", "promote", "unlinkTmp"} => tmp = data
  /\ pc \in {"dropOldBak", "backup", "unlinkDest"} => hadDest /\ before # Absent
  /\ pc = "backup" => bak = Absent

\* While the old version moves to the backup and the new one into place.
Promoting ==
  /\ pc = "unlinkDest" => bak = before /\ dest = before
  /\ pc = "promote" /\ hadDest =>
       \/ bak = before /\ dest \in {Absent, before}
       \/ mishaps = 1 /\ dest = before
  /\ pc = "promote" /\ ~hadDest => dest = before /\ before = Absent
  /\ pc \in {"unlinkTmp", "dropBak"} => dest = data

\* The way back, which takes one mishap to enter.
RollingBack ==
  /\ pc \in {"rollback", "restore", "unlinkBak", "discard"} => mishaps = 1
  /\ pc = "rollback" => IF hadDest THEN bak = before /\ before # Absent ELSE before = Absent
  /\ pc \in {"rollback", "restore"} => tmp = data
  /\ pc = "restore" => bak = before /\ dest = Absent
  /\ pc \in {"unlinkBak", "discard"} => dest = before

\* A save in which nothing went wrong leaves nothing behind.
Untroubled ==
  mishaps = 0 =>
    /\ pc = "idle" => Clean
    /\ pc \in {"stale", "open"} => Clean
    /\ pc \in {"write", "probe", "dropOldBak", "backup"} => bak = Absent
    /\ pc = "promote" => IF hadDest THEN bak = before /\ dest = Absent /\ before # Absent
                                    ELSE bak = Absent
    /\ pc = "dropBak" => tmp = Absent

Running == pc # "idle" => outcome = "none"

Orderly ==
  mishaps <= 1 =>
    Writing /\ Promoting /\ RollingBack /\ Untroubled

IInv == TypeOK /\ Running /\ Orderly /\ SavedIsComplete /\ FailedSaveKeepsOld /\ ACopySurvives

-----------------------------------------------------------------------------
LEMMA InitIInv == Init => IInv
<1> SUFFICES ASSUME Init PROVE IInv OBVIOUS
<1>1. TypeOK
  <2>1. mishaps \in 0 .. MaxMishaps BY AtomicFileAssumption DEF Init
  <2>2. hadDest \in BOOLEAN BY DEF Init
  <2> QED BY <2>1, <2>2 DEF Init, TypeOK, Contents, Steps
<1>2. Orderly
  BY AtomicFileAssumption
     DEF Init, Orderly, Writing, Promoting, RollingBack, Untroubled, Clean
<1>3. Running /\ SavedIsComplete /\ FailedSaveKeepsOld /\ ACopySurvives
  BY DEF Init, Running, SavedIsComplete, FailedSaveKeepsOld, ACopySurvives
<1> QED BY <1>1, <1>2, <1>3 DEF IInv

LEMMA TypeStep ==
  ASSUME TypeOK, Next
  PROVE  TypeOK'
<1> USE AtomicFileAssumption
    DEF TypeOK, Contents, Steps, files, call, Goto, Return, Remove, Copied, CopyFailed,
        Mishap, NoMishap, Clean
<1>0. ASSUME NEW v \in Versions, Save(v) PROVE TypeOK'
  <2>1. mishaps' \in 0 .. MaxMishaps BY <1>0 DEF Save
  <2>2. hadDest' \in BOOLEAN BY <1>0 DEF Save
  <2>3. before' \in Contents /\ data' \in Versions BY <1>0 DEF Save
  <2>4. pc' = "stale" /\ outcome' = "none" /\ UNCHANGED <<dest, tmp, bak>> BY <1>0 DEF Save
  <2> QED BY <2>1, <2>2, <2>3, <2>4
<1>1. CASE RemoveStaleTmp BY <1>1 DEF RemoveStaleTmp
<1>2. CASE OpenTmp BY <1>2 DEF OpenTmp
<1>3. CASE WriteTmp BY <1>3 DEF WriteTmp
<1>4. CASE Probe BY <1>4 DEF Probe
<1>5. CASE DropOldBak BY <1>5 DEF DropOldBak
<1>6. CASE Backup BY <1>6 DEF Backup
<1>7. CASE UnlinkDest BY <1>7 DEF UnlinkDest
<1>8. CASE Promote BY <1>8 DEF Promote
<1>9. CASE UnlinkTmp BY <1>9 DEF UnlinkTmp
<1>10. CASE DropBak BY <1>10 DEF DropBak
<1>11. CASE Rollback BY <1>11 DEF Rollback
<1>12. CASE Restore BY <1>12 DEF Restore
<1>13. CASE UnlinkBak BY <1>13 DEF UnlinkBak
<1>14. CASE Discard BY <1>14 DEF Discard
<1>15. CASE PowerLoss BY <1>15 DEF PowerLoss
<1> QED BY <1>0, <1>1, <1>2, <1>3, <1>4, <1>5, <1>6, <1>7,
           <1>8, <1>9, <1>10, <1>11, <1>12, <1>13, <1>14, <1>15 DEF Next, FileCall

LEMMA OrderlyStep ==
  ASSUME IInv, Next, TypeOK'
  PROVE  Running' /\ Orderly' /\ SavedIsComplete' /\ FailedSaveKeepsOld' /\ ACopySurvives'
<1> USE AtomicFileAssumption
    DEF IInv, Running, Orderly, Writing, Promoting, RollingBack, Untroubled, Clean,
        SavedIsComplete, FailedSaveKeepsOld, ACopySurvives, TypeOK, Contents, Steps,
        files, call, Goto, Return, Remove, Copied, CopyFailed, Mishap, NoMishap
<1> DEFINE Goal == Running' /\ Orderly' /\ SavedIsComplete' /\ FailedSaveKeepsOld' /\ ACopySurvives'
<1>0. ASSUME NEW v \in Versions, Save(v) PROVE Goal
  BY <1>0 DEF Save
<1>1. CASE RemoveStaleTmp BY <1>1 DEF RemoveStaleTmp
<1>2. CASE OpenTmp BY <1>2 DEF OpenTmp
<1>3. CASE WriteTmp BY <1>3 DEF WriteTmp
<1>4. CASE Probe BY <1>4 DEF Probe
<1>5. CASE DropOldBak BY <1>5 DEF DropOldBak
<1>6. CASE Backup BY <1>6 DEF Backup
<1>7. CASE UnlinkDest
  <2>1. Writing' \/ mishaps' > 1 BY <1>7 DEF UnlinkDest
  <2>2. Promoting' \/ mishaps' > 1 BY <1>7 DEF UnlinkDest
  <2>3. RollingBack' \/ mishaps' > 1 BY <1>7 DEF UnlinkDest
  <2>4. Untroubled' BY <1>7 DEF UnlinkDest
  <2>5. SavedIsComplete' /\ FailedSaveKeepsOld' BY <1>7 DEF UnlinkDest
  <2>6. ACopySurvives' BY <1>7 DEF UnlinkDest
  <2>7. mishaps' \in Nat /\ Running' BY <1>7 DEF UnlinkDest
  <2> QED
    <3> HIDE DEF Running, Writing, Promoting, RollingBack, Untroubled, SavedIsComplete,
             FailedSaveKeepsOld, ACopySurvives
    <3> QED BY <2>1, <2>2, <2>3, <2>4, <2>5, <2>6, <2>7
<1>8. CASE Promote
  <2>1. Writing' \/ mishaps' > 1 BY <1>8 DEF Promote
  <2>2. Promoting' \/ mishaps' > 1 BY <1>8 DEF Promote
  <2>3. RollingBack' \/ mishaps' > 1 BY <1>8 DEF Promote
  <2>4. Untroubled' BY <1>8 DEF Promote
  <2>5. SavedIsComplete' /\ FailedSaveKeepsOld' BY <1>8 DEF Promote
  <2>6. ACopySurvives' BY <1>8 DEF Promote
  <2>7. mishaps' \in Nat /\ Running' BY <1>8 DEF Promote
  <2> QED
    <3> HIDE DEF Running, Writing, Promoting, RollingBack, Untroubled, SavedIsComplete,
             FailedSaveKeepsOld, ACopySurvives
    <3> QED BY <2>1, <2>2, <2>3, <2>4, <2>5, <2>6, <2>7
<1>9. CASE UnlinkTmp BY <1>9 DEF UnlinkTmp
<1>10. CASE DropBak BY <1>10 DEF DropBak
<1>11. CASE Rollback
  <2>1. Writing' \/ mishaps' > 1 BY <1>11 DEF Rollback
  <2>2. Promoting' \/ mishaps' > 1 BY <1>11 DEF Rollback
  <2>3. RollingBack' \/ mishaps' > 1 BY <1>11 DEF Rollback
  <2>4. Untroubled' BY <1>11 DEF Rollback
  <2>5. SavedIsComplete' /\ FailedSaveKeepsOld' BY <1>11 DEF Rollback
  <2>6. ACopySurvives' BY <1>11 DEF Rollback
  <2>7. mishaps' \in Nat /\ Running' BY <1>11 DEF Rollback
  <2> QED
    <3> HIDE DEF Running, Writing, Promoting, RollingBack, Untroubled, SavedIsComplete,
             FailedSaveKeepsOld, ACopySurvives
    <3> QED BY <2>1, <2>2, <2>3, <2>4, <2>5, <2>6, <2>7
<1>12. CASE Restore BY <1>12 DEF Restore
<1>13. CASE UnlinkBak BY <1>13 DEF UnlinkBak
<1>14. CASE Discard BY <1>14 DEF Discard
<1>15. CASE PowerLoss BY <1>15 DEF PowerLoss
<1> QED BY <1>0, <1>1, <1>2, <1>3, <1>4, <1>5, <1>6, <1>7,
           <1>8, <1>9, <1>10, <1>11, <1>12, <1>13, <1>14, <1>15 DEF Next, FileCall

LEMMA FilesStep ==
  ASSUME IInv, Next
  PROVE  IInv'
<1>1. TypeOK' BY TypeStep DEF IInv
<1> QED BY <1>1, OrderlyStep DEF IInv

LEMMA FilesSame ==
  ASSUME IInv, UNCHANGED vars
  PROVE  IInv'
BY DEF vars, files, call, IInv, TypeOK, Running, Orderly, Writing, Promoting, RollingBack,
       Untroubled, Clean, SavedIsComplete, FailedSaveKeepsOld, ACopySurvives

LEMMA Invariance == Spec => []IInv
<1>1. IInv /\ [Next]_vars => IInv' BY FilesStep, FilesSame
<1> QED BY <1>1, InitIInv, PTL DEF Spec

\* The three files, the step and the counters keep their ranges.
THEOREM TypeCorrect == Spec => []TypeOK
<1>1. IInv => TypeOK BY DEF IInv
<1> QED BY <1>1, Invariance, PTL

\* A save reported as done is done, at most one thing having gone wrong.
THEOREM SavedMeansComplete == Spec => []SavedIsComplete
<1>1. IInv => SavedIsComplete BY DEF IInv
<1> QED BY <1>1, Invariance, PTL

\* A save reported as failed has changed nothing, at most one thing having gone wrong.
THEOREM FailedMeansUnchanged == Spec => []FailedSaveKeepsOld
<1>1. IInv => FailedSaveKeepsOld BY DEF IInv
<1> QED BY <1>1, Invariance, PTL

\* Both together: a save's answer is true, at most one thing having gone wrong.
THEOREM AnswersAreTrue == Spec => []SavesAnswerTruly
<1>1. IInv => SavesAnswerTruly BY DEF IInv, SavesAnswerTruly
<1> QED BY <1>1, Invariance, PTL

\* One failed call or one power loss in PromoteTmpToDest never costs both the old version and
\* the new one.
THEOREM OneMishapLosesNothing == Spec => []ACopySurvives
<1>1. IInv => ACopySurvives BY DEF IInv
<1> QED BY <1>1, Invariance, PTL

-----------------------------------------------------------------------------
(* The settings.  Where the version last reported as saved is, between the *)
(* saves and inside one, and what that makes of what was read at boot.     *)

Phases == {"off", "probe", "running", "saving", "retried", "refused"}
InSave == phase \in {"saving", "retried"}

StoreTypeOK ==
  /\ kind \in Kinds /\ here \in BOOLEAN /\ writable \in BOOLEAN
  /\ card \in Versions \union {Absent}
  /\ phase \in Phases /\ path \in {"sidecar", "card"}
  /\ settings \in Versions \union {Absent, Torn} /\ picked \in Versions
  /\ known \in Versions \union {Nothing}
  /\ fell \in BOOLEAN /\ spoilt \in BOOLEAN /\ missed \in BOOLEAN /\ fresh \in BOOLEAN

\* The files are at rest outside a save; a save to the sidecar has one to save to.
SavesInOrder ==
  /\ ~InSave => pc = "idle"
  /\ path = "sidecar" \/ InSave \/ phase = "refused" => HasSidecar
  /\ InSave => data = picked
  /\ InSave /\ ~spoilt => mishaps <= 1

\* What the sidecar held before the save that runs, if one runs.
Kept == IF InSave THEN before ELSE dest

\* The version last reported as saved is where it was reported to be.
WhereItIs ==
  known # Nothing =>
    /\ fell \/ ~HasSidecar => card = known
    /\ ~fell /\ HasSidecar /\ ~spoilt => Kept = known

\* What the last boot read is that version.
StillRead ==
  /\ phase \notin {"off", "probe"}
  /\ fresh /\ known # Nothing /\ ~spoilt /\ ~missed
  /\ ~(fell /\ Kept # Absent)
  => settings = known

SInv == IInv /\ StoreTypeOK /\ SavesInOrder /\ WhereItIs /\ StillRead

LEMMA FilesAtLoad ==
  ASSUME IInv, pc = "idle", UNCHANGED <<files, pc, call, outcome>>, NoMishap \/ Mishap
  PROVE  IInv'
<1> USE AtomicFileAssumption DEF files, call, NoMishap, Mishap
<1>1. TypeOK' BY DEF IInv, TypeOK
<1>2. mishaps \in Nat /\ mishaps' \in Nat /\ mishaps <= mishaps' BY DEF IInv, TypeOK
<1>3. Orderly' BY <1>2 DEF IInv, Orderly, Writing, Promoting, RollingBack, Untroubled, Clean
<1>4. Running' /\ SavedIsComplete' /\ FailedSaveKeepsOld' /\ ACopySurvives'
  BY <1>2 DEF IInv, Running, SavedIsComplete, FailedSaveKeepsOld, ACopySurvives
<1> QED BY <1>1, <1>3, <1>4 DEF IInv

LEMMA InitSInv == SettingsInit => SInv
<1> SUFFICES ASSUME SettingsInit PROVE SInv OBVIOUS
<1>1. IInv BY InitIInv DEF SettingsInit
<1>2. StoreTypeOK
  <2>1. here \in BOOLEAN /\ writable \in BOOLEAN BY DEF SettingsInit
  <2>2. fell \in BOOLEAN /\ spoilt \in BOOLEAN /\ missed \in BOOLEAN /\ fresh \in BOOLEAN
    BY DEF SettingsInit
  <2> QED BY <2>1, <2>2, SettingsAssumption DEF SettingsAssumption, SettingsInit, StoreTypeOK, Phases
<1>3. SavesInOrder BY DEF SettingsInit, Init, SavesInOrder, InSave
<1>4. WhereItIs BY DEF SettingsInit, WhereItIs
<1>5. StillRead BY DEF SettingsInit, StillRead
<1> QED BY <1>1, <1>2, <1>3, <1>4, <1>5 DEF SInv

\* Power on and off, the stick coming and going, a pass of the probe: no version moves.
LEMMA AroundStep ==
  ASSUME SInv, PowerOn \/ DriveComes \/ DriveGoes \/ ProbeAgain \/ SwitchOff
  PROVE  SInv'
<1> USE DEF PowerOn, DriveComes, DriveGoes, ProbeAgain, SwitchOff, device, ghosts
<1>1. IInv' BY FilesSame DEF SInv
<1>2. StoreTypeOK'
  <2>1. here' \in BOOLEAN /\ writable' \in BOOLEAN BY DEF SInv, StoreTypeOK
  <2>2. UNCHANGED <<fell, spoilt, missed, fresh, card, known, picked, kind>> OBVIOUS
  <2>3. path' \in {"sidecar", "card"} /\ phase' \in Phases BY DEF SInv, StoreTypeOK, Phases
  <2>4. settings' \in Versions \union {Absent, Torn}
    BY SettingsAssumption DEF SettingsAssumption, SInv, StoreTypeOK
  <2> QED BY <2>1, <2>2, <2>3, <2>4 DEF SInv, StoreTypeOK
<1>3. SavesInOrder' BY DEF SInv, SavesInOrder, InSave, HasSidecar, vars, call
<1>4. WhereItIs' BY DEF SInv, WhereItIs, InSave, HasSidecar, Kept, vars, files, call
<1>5. StillRead' BY DEF SInv, StillRead, InSave, Kept, vars, files, call
<1> QED BY <1>1, <1>2, <1>3, <1>4, <1>5 DEF SInv

LEMMA LoadStep ==
  ASSUME SInv, Load
  PROVE  SInv'
<1> USE DEF Load, LoadSidecar, LoadFallback, LoadNothing, Loaded, device
<1>1. phase = "probe" /\ phase' = "running" OBVIOUS
<1>2. pc = "idle" /\ ~InSave /\ ~InSave' BY <1>1 DEF SInv, SavesInOrder, InSave
<1>3. IInv' BY <1>2, FilesAtLoad DEF SInv
<1>4. UNCHANGED <<files, pc, call, card, kind, here, writable, known, fell, spoilt, picked>>
  OBVIOUS
<1>5. missed \in BOOLEAN /\ missed' \in BOOLEAN
  <2>1. missed' \in {FALSE, TRUE, HasSidecar /\ dest # Absent} OBVIOUS
  <2> QED BY <2>1 DEF SInv, StoreTypeOK
<1>6. StoreTypeOK'
  <2>1. fresh' \in BOOLEAN OBVIOUS
  <2>2. path' \in {"sidecar", "card"} BY DEF SInv, StoreTypeOK
  <2>3. settings' \in Versions \union {Absent, Torn}
    BY SettingsAssumption DEF SettingsAssumption, SInv, StoreTypeOK, IInv, TypeOK, Contents
  <2> QED BY <1>1, <1>4, <1>5, <2>1, <2>2, <2>3 DEF SInv, StoreTypeOK, Phases
<1>7. SavesInOrder'
  <2>1. path' = "sidecar" => HasSidecar BY DEF SInv, SavesInOrder, Found
  <2> QED BY <1>1, <1>2, <1>4, <2>1 DEF SavesInOrder, InSave, HasSidecar
<1>8. WhereItIs' BY <1>2, <1>4 DEF SInv, WhereItIs, Kept, HasSidecar, files
<1>9. StillRead'
  <2> SUFFICES ASSUME known # Nothing, ~spoilt, ~missed', ~(fell /\ dest # Absent)
               PROVE  settings' = known
    BY <1>2, <1>4 DEF StillRead, Kept, files
  <2>1. known \in Versions /\ known # Absent
    BY AtomicFileAssumption DEF AtomicFileAssumption, SInv, StoreTypeOK
  <2>2. fell \/ ~HasSidecar => card = known BY DEF SInv, WhereItIs
  <2>3. ~fell /\ HasSidecar => dest = known BY <1>2 DEF SInv, WhereItIs, Kept
  <2>4. CASE LoadSidecar
    <3>1. settings' = dest \/ missed' BY <2>4
    <3> QED BY <2>2, <2>3, <2>4, <3>1 DEF Found
  <2>5. CASE LoadFallback
    <3>1. (settings' = card /\ ~(HasSidecar /\ dest # Absent)) \/ missed' BY <2>5
    <3> QED BY <2>1, <2>2, <2>3, <3>1
  <2>6. CASE LoadNothing
    <3>1. card = Absent /\ ~(HasSidecar /\ dest # Absent) BY <2>6
    <3> QED BY <2>1, <2>2, <2>3, <3>1
  <2> QED BY <2>4, <2>5, <2>6
<1> QED BY <1>3, <1>6, <1>7, <1>8, <1>9 DEF SInv

LEMMA CardSaveStep ==
  ASSUME SInv, NEW v \in Versions, SaveToCard(v)
  PROVE  SInv'
<1> USE DEF SaveToCard, Reported, NotSaved, device, ghosts
<1>1. phase = "running" /\ phase' = "running" /\ UNCHANGED <<vars, path>> OBVIOUS
<1>2. ~InSave /\ ~InSave' /\ UNCHANGED <<files, pc, call, mishaps>>
  BY <1>1 DEF InSave, vars
<1>3. IInv' BY <1>1, FilesSame DEF SInv
<1>4. CASE card' = v /\ Reported(v, HasSidecar) /\ spoilt' = FALSE
  <2>1. spoilt' \in BOOLEAN /\ fresh' \in BOOLEAN /\ fell' \in BOOLEAN /\ ~fresh'
    BY <1>4 DEF HasSidecar
  <2>2. fell' <=> HasSidecar BY <1>4
  <2>3. known' = v /\ settings' = v /\ card' = v
        /\ UNCHANGED <<kind, here, writable, passes, picked, missed>>
    BY <1>4
  <2>4. StoreTypeOK' BY <1>1, <2>1, <2>3 DEF SInv, StoreTypeOK, Phases
  <2>5. SavesInOrder' BY <1>1, <1>2, <2>3 DEF SInv, SavesInOrder, InSave, HasSidecar
  <2>6. WhereItIs' BY <2>2, <2>3 DEF WhereItIs, HasSidecar
  <2>7. StillRead' BY <2>1 DEF StillRead
  <2> QED BY <1>3, <2>4, <2>5, <2>6, <2>7 DEF SInv
<1>5. CASE NotSaved
  <2>1. UNCHANGED <<kind, here, writable, card, passes, path, settings, picked,
                    known, fell, spoilt, missed, fresh>>
    BY <1>5
  <2>2. StoreTypeOK' BY <1>1, <2>1 DEF SInv, StoreTypeOK, Phases
  <2>3. SavesInOrder' BY <1>1, <1>2, <2>1 DEF SInv, SavesInOrder, InSave, HasSidecar
  <2>4. WhereItIs' BY <1>2, <2>1 DEF SInv, WhereItIs, Kept, HasSidecar, files
  <2>5. StillRead' BY <1>1, <1>2, <2>1 DEF SInv, StillRead, Kept, files
  <2> QED BY <1>3, <2>2, <2>3, <2>4, <2>5 DEF SInv
<1> QED BY <1>4, <1>5

\* A save to the sidecar begins, for the first time or, on the boot partition, again.
LEMMA SaveBegins ==
  ASSUME SInv, phase \in {"running", "saving", "refused"}, phase' \in Phases, InSave', ~InSave \/ outcome = "failed", pc = "idle",
         picked' \in Versions, Save(picked'), spoilt' = (spoilt \/ mishaps' > 1), HasSidecar,
         writable' \in BOOLEAN,
         UNCHANGED <<kind, here, card, passes, path, settings, known, fell, missed, fresh>>
  PROVE  SInv'
<1>1. IInv'
  <2>1. Next BY DEF Next
  <2> QED BY <2>1, FilesStep DEF SInv
<1>2. data' = picked' /\ before' = dest /\ mishaps' \in Nat BY <1>1 DEF Save, IInv, TypeOK
<1>3. spoilt' \in BOOLEAN OBVIOUS
<1>4. spoilt' <=> spoilt \/ mishaps' > 1 OBVIOUS
<1>5. ~spoilt => Kept = dest
  <2> SUFFICES ASSUME ~spoilt, InSave PROVE before = dest BY DEF Kept
  <2>1. mishaps <= 1 BY DEF SInv, SavesInOrder
  <2> QED BY <2>1 DEF SInv, IInv, FailedSaveKeepsOld
<1>6. Kept' = dest BY <1>2 DEF Kept
<1>7. StoreTypeOK' BY <1>3 DEF SInv, StoreTypeOK
<1>8. SavesInOrder' BY <1>2, <1>4 DEF SavesInOrder, HasSidecar
<1>9. WhereItIs' BY <1>4, <1>5, <1>6 DEF SInv, WhereItIs, HasSidecar
<1>10. StillRead' BY <1>4, <1>5, <1>6 DEF SInv, StillRead
<1> QED BY <1>1, <1>7, <1>8, <1>9, <1>10 DEF SInv

LEMMA SidecarSaveStep ==
  ASSUME SInv, NEW v \in Versions, SaveToSidecar(v)
  PROVE  SInv'
<1> USE DEF SaveToSidecar, device
<1>1. phase = "running" /\ path = "sidecar" /\ picked' = v
      /\ UNCHANGED <<kind, here, writable, card, passes, path, settings, known, fell, missed, fresh>>
  OBVIOUS
<1>2. pc = "idle" /\ ~InSave /\ HasSidecar BY <1>1 DEF SInv, SavesInOrder, InSave
<1>3. CASE phase' = "saving" /\ Save(v) /\ spoilt' = (spoilt \/ mishaps' > 1)
  <2>1. InSave' /\ phase' \in Phases BY <1>3 DEF InSave, Phases
  <2>2. writable' \in BOOLEAN BY <1>1 DEF SInv, StoreTypeOK
  <2>3. Save(picked') BY <1>1, <1>3
  <2> QED BY <1>1, <1>2, <1>3, <2>1, <2>2, <2>3, SaveBegins
<1>4. CASE phase' = "refused" /\ UNCHANGED <<vars, spoilt>>
  <2>1. ~InSave' /\ UNCHANGED <<files, pc, call, mishaps, spoilt, dest>>
    BY <1>4 DEF InSave, vars, files
  <2>2. IInv' BY <1>4, FilesSame DEF SInv
  <2>3. StoreTypeOK' BY <1>1, <1>4, <2>1 DEF SInv, StoreTypeOK, Phases
  <2>4. SavesInOrder' BY <1>1, <1>2, <2>1 DEF SavesInOrder, HasSidecar
  <2>5. WhereItIs' BY <1>1, <1>2, <2>1 DEF SInv, WhereItIs, Kept, HasSidecar
  <2>6. StillRead' BY <1>1, <1>2, <2>1 DEF SInv, StillRead, Kept
  <2> QED BY <2>2, <2>3, <2>4, <2>5, <2>6 DEF SInv
<1> QED BY <1>3, <1>4

LEMMA WriteStep ==
  ASSUME SInv, WriteSidecar
  PROVE  SInv'
<1>1. InSave /\ InSave'
      /\ UNCHANGED <<kind, here, writable, card, phase, passes, path, settings, picked, known,
                    fell, missed, fresh>>
  BY DEF WriteSidecar, device, InSave
<1>2. IInv'
  <2>1. Next BY DEF WriteSidecar, Next
  <2> QED BY <2>1, FilesStep DEF SInv
<1>3. spoilt' \in BOOLEAN /\ (spoilt' <=> spoilt \/ mishaps' > 1) BY DEF WriteSidecar
<1>4. UNCHANGED <<data, before>>
  BY DEF WriteSidecar, FileCall, RemoveStaleTmp, OpenTmp, WriteTmp, Probe, DropOldBak, Backup,
         UnlinkDest, Promote, UnlinkTmp, DropBak, Rollback, Restore, UnlinkBak, Discard, Goto,
         Return, call
<1>5. mishaps' \in Nat BY <1>2 DEF IInv, TypeOK
<1>6. StoreTypeOK' BY <1>1, <1>3 DEF SInv, StoreTypeOK
<1>7. SavesInOrder' BY <1>1, <1>3, <1>4, <1>5 DEF SInv, SavesInOrder, HasSidecar
<1>8. WhereItIs' BY <1>1, <1>3, <1>4 DEF SInv, WhereItIs, Kept, HasSidecar
<1>9. StillRead' BY <1>1, <1>3, <1>4 DEF SInv, StillRead, Kept
<1> QED BY <1>2, <1>6, <1>7, <1>8, <1>9 DEF SInv

\* A save ends, well or badly, or is cut off.
LEMMA SaveEndsStep ==
  ASSUME SInv, SaveEnds \/ PowerLossInSave
  PROVE  SInv'
<1> USE DEF device, ghosts, Reported, NotSaved
<1>1. CASE SidecarSaved
  <2> USE DEF SidecarSaved
  <2>1. InSave /\ ~InSave' /\ pc = "idle" /\ outcome = "saved" /\ phase' = "running"
    BY <1>1 DEF Written, InSave
  <2>2. known' = picked /\ settings' = picked /\ ~fresh' /\ ~fell'
        /\ UNCHANGED <<kind, here, writable, card, path, picked, missed, files, pc, call, mishaps>>
    BY <1>1 DEF vars
  <2>3. fresh' \in BOOLEAN /\ fell' \in BOOLEAN BY <1>1
  <2>4. spoilt' \in BOOLEAN /\ (spoilt' <=> mishaps > 1)
    <3>1. spoilt' = (mishaps > 1) BY <1>1
    <3>2. spoilt' = TRUE \/ spoilt' = FALSE BY <3>1
    <3> QED BY <3>1, <3>2
  <2>5. IInv' BY <1>1, FilesSame DEF SInv
  <2>6. StoreTypeOK' BY <2>1, <2>2, <2>3, <2>4 DEF SInv, StoreTypeOK, Phases
  <2>7. SavesInOrder' BY <2>1, <2>2 DEF SInv, SavesInOrder, HasSidecar, InSave
  <2>8. WhereItIs'
    <3>1. mishaps <= 1 => dest = picked
      BY <2>1 DEF SInv, SavesInOrder, IInv, SavedIsComplete
    <3>2. HasSidecar BY <2>1 DEF SInv, SavesInOrder
    <3>3. mishaps \in Nat BY DEF SInv, IInv, TypeOK
    <3> QED BY <2>1, <2>2, <2>4, <3>1, <3>2, <3>3 DEF WhereItIs, Kept, HasSidecar, files
  <2>9. StillRead' BY <2>2 DEF StillRead
  <2> QED BY <2>5, <2>6, <2>7, <2>8, <2>9 DEF SInv
<1>2. CASE TakeOverAndRetry
  <2> USE DEF TakeOverAndRetry
  <2>1. phase \in {"running", "saving", "refused"} /\ phase' = "retried" /\ picked' = picked
    BY <1>2 DEF Failed
  <2>2. InSave' /\ phase' \in Phases BY <2>1 DEF InSave, Phases
  <2>3. ~InSave \/ outcome = "failed" BY <1>2 DEF Failed, InSave
  <2>4. pc = "idle" BY <1>2 DEF Save
  <2>5. HasSidecar BY <1>2 DEF HasSidecar
  <2>6. writable' \in BOOLEAN BY <1>2
  <2>7. picked \in Versions BY DEF SInv, StoreTypeOK
  <2> QED BY <1>2, <2>1, <2>2, <2>3, <2>4, <2>5, <2>6, <2>7, SaveBegins
<1>3. CASE FallBack
  <2> USE DEF FallBack
  <2>1. ~InSave' /\ pc = "idle" /\ phase' = "running"
    BY <1>3 DEF Failed, InSave, SInv, SavesInOrder
  <2>2. known' = picked /\ settings' = picked /\ ~fresh' /\ fell' /\ card' = picked /\ path' = "card"
        /\ UNCHANGED <<kind, here, writable, picked, missed, files, pc, call, mishaps>>
    BY <1>3 DEF vars
  <2>3. fresh' \in BOOLEAN /\ fell' \in BOOLEAN /\ spoilt' \in BOOLEAN BY <1>3
  <2>4. IInv' BY <1>3, FilesSame DEF SInv
  <2>5. StoreTypeOK' BY <2>1, <2>2, <2>3 DEF SInv, StoreTypeOK, Phases
  <2>6. SavesInOrder' BY <2>1, <2>2 DEF SavesInOrder, InSave
  <2>7. WhereItIs' BY <2>2 DEF WhereItIs
  <2>8. StillRead' BY <2>2 DEF StillRead
  <2> QED BY <2>4, <2>5, <2>6, <2>7, <2>8 DEF SInv
<1>4. CASE GiveUp
  <2> USE DEF GiveUp
  <2>1. ~InSave' /\ phase' = "running" /\ phase \in {"saving", "retried", "refused"}
    BY <1>4 DEF Failed, InSave
  <2>2. pc = "idle" /\ (InSave => outcome = "failed")
    BY <1>4 DEF Failed, InSave, SInv, SavesInOrder
  <2>3. UNCHANGED <<kind, here, writable, card, passes, path, settings, picked,
                    known, fell, spoilt, missed, fresh, files, dest, pc, call, mishaps>>
    BY <1>4 DEF vars, files
  <2>4. IInv' BY <1>4, FilesSame DEF SInv
  <2>5. ~spoilt => Kept' = Kept
    <3>1. ~spoilt /\ InSave => dest = before
      BY <2>2 DEF SInv, SavesInOrder, IInv, FailedSaveKeepsOld
    <3> QED BY <2>1, <2>3, <3>1 DEF Kept
  <2>6. StoreTypeOK' BY <2>1, <2>3 DEF SInv, StoreTypeOK, Phases
  <2>7. SavesInOrder' BY <2>1, <2>2, <2>3 DEF SInv, SavesInOrder, HasSidecar, InSave
  <2>8. WhereItIs' BY <2>3, <2>5 DEF SInv, WhereItIs, HasSidecar
  <2>9. StillRead' BY <2>1, <2>3, <2>5 DEF SInv, StillRead
  <2> QED BY <2>4, <2>6, <2>7, <2>8, <2>9 DEF SInv
<1>5. CASE PowerLossInSave
  <2> USE DEF PowerLossInSave
  <2>1. InSave /\ ~InSave' /\ phase' = "off" BY <1>5 DEF InSave
  <2>2. UNCHANGED <<kind, here, writable, card, passes, path, settings, picked, known, fell,
                    missed, fresh>> /\ spoilt'
    BY <1>5
  <2>3. spoilt' \in BOOLEAN BY <1>5
  <2>4. pc' = "idle" BY <1>5 DEF PowerLoss
  <2>5. IInv'
    <3>1. Next BY <1>5 DEF Next
    <3> QED BY <3>1, FilesStep DEF SInv
  <2>6. StoreTypeOK' BY <2>1, <2>2, <2>3 DEF SInv, StoreTypeOK, Phases
  <2>7. SavesInOrder' BY <2>1, <2>2, <2>4 DEF SInv, SavesInOrder, HasSidecar
  <2>8. WhereItIs' BY <2>2 DEF SInv, WhereItIs, HasSidecar
  <2>9. StillRead' BY <2>1 DEF StillRead
  <2> QED BY <2>5, <2>6, <2>7, <2>8, <2>9 DEF SInv
<1> QED BY <1>1, <1>2, <1>3, <1>4, <1>5 DEF SaveEnds

LEMMA SettingsSame ==
  ASSUME SInv, UNCHANGED <<vars, store>>
  PROVE  SInv'
<1>1. IInv' BY FilesSame DEF SInv
<1> QED
  BY <1>1 DEF vars, files, call, store, device, ghosts, SInv, StoreTypeOK, SavesInOrder, WhereItIs,
              StillRead, InSave, HasSidecar, Kept

LEMMA SettingsInvariance == SettingsSpec => []SInv
<1>1. SInv /\ [SettingsNext]_<<vars, store>> => SInv'
  BY AroundStep, LoadStep, CardSaveStep, SidecarSaveStep, WriteStep, SaveEndsStep, SettingsSame
     DEF SettingsNext
<1> QED BY <1>1, InitSInv, PTL DEF SettingsSpec

\* LoadSettingsNonFatal puts in force what the last save that SaveSettingsAtomic reported as
\* done has written, however many saves failed, fell back or were refused in between.
THEOREM BootsReadTheSave == SettingsSpec => []BootReadsTheLastSave
<1>1. SInv => BootReadsTheLastSave
  BY DEF SInv, StillRead, BootReadsTheLastSave, Kept, InSave
<1> QED BY <1>1, SettingsInvariance, PTL

\* WriteAtomic's answer is true of the sidecar too, where the retries, the loads that fail and
\* the power losses between the saves count among the things that go wrong.
THEOREM SettingsAnswersAreTrue == SettingsSpec => []SavesAnswerTruly
<1>1. SInv => SavesAnswerTruly BY DEF SInv, IInv, SavesAnswerTruly
<1> QED BY <1>1, SettingsInvariance, PTL

\* So is that one failed call or one power loss never costs both versions of the settings.
THEOREM SettingsSurvive == SettingsSpec => []ACopySurvives
<1>1. SInv => ACopySurvives BY DEF SInv, IInv
<1> QED BY <1>1, SettingsInvariance, PTL
=============================================================================

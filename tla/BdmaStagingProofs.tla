------------------------- MODULE BdmaStagingProofs -------------------------
(***************************************************************************)
(* The driver pair, the marker and the mode agree, for every set of        *)
(* variants and however many launches, saves, failures and boots follow    *)
(* one another.                                                            *)
(***************************************************************************)
EXTENDS BdmaStaging, TLAPS

-----------------------------------------------------------------------------
(* The inductive invariant.                                                *)

Content(target) == IF target = FAT32 THEN Absent ELSE target

\* The files before `at` are written; all of them before the marker is.
Progress ==
  /\ pc = "file" => at \in Files /\ \A f \in Files : f < at => card[f] = Content(job.target)
  /\ pc = "mark" => Matches(job.target)
  /\ pc = "save" => at = 1

\* Who is staging, and for whom.
Staging ==
  /\ pc \in {"file", "mark"} /\ job.kind = "launch" =>
       job.fast /\ (adaptive \/ job.target \in Verified \/ job.target = mode)
  /\ pc \in {"file", "mark"} /\ job.kind # "launch" => ~job.fast
  /\ pc \in {"save", "adaptiveOff", "resave"} => job.kind = "apply" /\ ~job.fast
  /\ pc = "finalize" => job.kind # "launch"
  /\ pc \notin {"menu", "settings", "off"} => outcome = "none"
  /\ outcome = "ok" => pc \in {"menu", "off"}

\* Nothing having gone wrong, the marker speaks for the files that are there.
Undamaged ==
  mishaps = 0 =>
    /\ pc \notin {"file", "mark"} => Clean
    /\ pc # "resave"

\* What the settings file and the mode are on the way through a save.
Saving ==
  /\ pc = "save" => mode = job.target
  /\ (pc \in {"file", "mark"} /\ job.kind # "launch") \/ pc \in {"adaptiveOff", "finalize"} =>
       mode = job.target /\ saved.mode = mode
  /\ pc = "resave" => mode = job.prev.mode

\* Adaptive BDMA off and nothing having gone wrong, the marker names the mode.
MarkerIs(m) == marker \in Modes => marker = m
Agreement ==
  mishaps = 0 =>
    /\ pc = "settings" /\ ~adaptive => MarkerIs(entry)
    /\ pc = "save" /\ ~job.prev.adaptive => MarkerIs(entry)
    /\ pc = "adaptiveOff" /\ ~job.prev.adaptive => MarkerIs(job.target)
    /\ pc = "finalize" /\ ~adaptive =>
         MarkerIs(job.target) \/ (job.target = FAT32 /\ Matches(FAT32))

Promises ==
  StagedLaunchHasItsPair /\ ManagedLaunchHasItsPair /\ FailedApplyIsUndone /\ CommitTakes

IInv == TypeOK /\ Progress /\ Staging /\ Undamaged /\ Saving /\ Agreement /\ Promises

-----------------------------------------------------------------------------
(* A write that failed went wrong once or twice.                           *)

LEMMA LeftByFacts ==
  ASSUME NEW old, NEW direct \in BOOLEAN, NEW left \in LeftBy(old, direct)
  PROVE  left[1] \in {old, Absent, Torn} /\ left[2] \in {1, 2}
BY DEF LeftBy

\* What a failing StageFile does: something went wrong, and one file holds less.
LEMMA FileFailure ==
  ASSUME TypeOK, pc = "file", at \in Files,
         NEW left \in (IF job.target = FAT32 THEN {<<card[at], 1>>}
                                             ELSE LeftBy(card[at], IsDirect)),
         Mishap(left[2]), card' = [card EXCEPT ![at] = left[1]]
  PROVE  mishaps' \in 1 .. MaxMishaps /\ mishaps' > mishaps /\ card' \in [Files -> Driver]
<1>1. left[1] \in {card[at], Absent, Torn} /\ left[2] \in {1, 2}
  <2>1. CASE job.target = FAT32 BY <2>1
  <2>2. CASE job.target # FAT32
    <3>1. IsDirect \in BOOLEAN BY DEF IsDirect, TypeOK, Jobs
    <3> QED BY <2>2, <3>1, LeftByFacts
  <2> QED BY <2>1, <2>2
<1>2. left[1] \in Driver BY <1>1 DEF TypeOK, Driver
<1> QED BY <1>1, <1>2, BdmaAssumption DEF TypeOK, Mishap

LEMMA MarkerFailure ==
  ASSUME TypeOK, pc = "mark",
         NEW left \in LeftBy(marker, IsDirect), Mishap(left[2]), marker' = left[1]
  PROVE  /\ mishaps' \in 1 .. MaxMishaps /\ mishaps' > mishaps
         /\ marker' \in Modes \union {Absent, Torn}
<1>1. IsDirect \in BOOLEAN BY DEF IsDirect, TypeOK, Jobs
<1>2. left[1] \in {marker, Absent, Torn} /\ left[2] \in {1, 2} BY <1>1, LeftByFacts
<1> QED BY <1>2, BdmaAssumption DEF TypeOK, Mishap

\* What writing a file, and the marker, comes to.
LEMMA FileOutcome ==
  ASSUME TypeOK, Progress, StageFile
  PROVE  \/ card' = [card EXCEPT ![at] = Written] /\ NextFile /\ NoMishap /\ UNCHANGED mode
         \/ mishaps' > mishaps /\ ApplyFailed
BY FileFailure DEF StageFile, Progress

LEMMA MarkerOutcome ==
  ASSUME TypeOK, WriteMarker
  PROVE  \/ marker' = job.target /\ NoMishap /\ Applied /\ UNCHANGED mode
         \/ mishaps' > mishaps /\ ApplyFailed
         \/ mishaps' > mishaps /\ ~IsDirect /\ Applied /\ UNCHANGED mode
BY MarkerFailure DEF WriteMarker

LEMMA RestoreJob ==
  ASSUME TypeOK, NEW restored, restored = [job EXCEPT !.kind = "restore"]
  PROVE  /\ restored.kind = "restore" /\ restored.target = job.target
         /\ restored.fast = job.fast /\ restored.prev = job.prev
         /\ restored.staged = job.staged /\ restored.managed = job.managed
BY DEF TypeOK, Jobs

-----------------------------------------------------------------------------
(* Types.                                                                  *)

LEMMA InitIInv == Init => IInv
<1> SUFFICES ASSUME Init PROVE IInv OBVIOUS
<1>1. TypeOK
  BY BdmaAssumption DEF Init, TypeOK, Driver, Modes, Settings, Defaults, Jobs
<1>2. Undamaged
  BY BdmaAssumption DEF Init, Undamaged, Clean, Variants
<1>3. Progress /\ Staging /\ Saving /\ Agreement /\ Promises
  BY DEF Init, Progress, Staging, Saving, Agreement, Promises, StagedLaunchHasItsPair,
         ManagedLaunchHasItsPair, FailedApplyIsUndone, CommitTakes
<1> QED BY <1>1, <1>2, <1>3 DEF IInv

LEMMA ReconciledType ==
  ASSUME TypeOK, NEW m \in Modes, NEW a
  PROVE  Reconciled(m, a) \in Modes
BY DEF Reconciled, TypeOK

LEMMA TypeStep ==
  ASSUME TypeOK, Progress, Next
  PROVE  TypeOK'
<1> USE BdmaAssumption DEF TypeOK, disk, settings, NoMishap
<1>1. ASSUME NEW target \in Modes, NEW udpfsPage \in BOOLEAN, Launch(target, udpfsPage)
      PROVE  TypeOK'
  <2>1. job' \in Jobs
    <3>1. /\ IsManaged(target, udpfsPage) \in BOOLEAN
          /\ (IsManaged(target, udpfsPage) /\ ~IsEquipped(target)) \in BOOLEAN
      BY DEF IsManaged
    <3> QED BY <1>1, <3>1 DEF Launch, Jobs, Settings
  <2>2. mishaps' \in 0 .. MaxMishaps BY <1>1 DEF Launch, Settled
  <2> QED BY <1>1, <2>1, <2>2 DEF Launch
<1>2. ASSUME NEW wanted \in Modes, NEW nextAdaptive \in BOOLEAN, Commit(wanted, nextAdaptive)
      PROVE  TypeOK'
  <2>1. job' \in Jobs BY <1>2 DEF Commit, Jobs, Settings
  <2> QED BY <1>2, <2>1 DEF Commit
<1>3. ASSUME NEW gone \in SUBSET Files, DeleteFiles(gone) PROVE TypeOK'
  BY <1>3 DEF DeleteFiles, Driver
<1>4. CASE LaunchReturns BY <1>4 DEF LaunchReturns
<1>5. CASE OpenSettings BY <1>5, ReconciledType DEF OpenSettings, Settled
<1>6. CASE LeaveSettings BY <1>6 DEF LeaveSettings
<1>7. CASE SaveSettings
  <2>1. [mode |-> mode, adaptive |-> adaptive] \in Settings BY DEF Settings
  <2>2. job.prev.mode \in Modes /\ job.prev.adaptive \in BOOLEAN BY DEF Jobs, Settings
  <2> QED BY <1>7, <2>1, <2>2 DEF SaveSettings, Mishap
<1>8. CASE StageFile
  <2>0. at \in Files /\ job.target \in Modes /\ job.prev.mode \in Modes
    BY <1>8 DEF StageFile, Progress, Jobs, Settings
  <2>1. CASE card' = [card EXCEPT ![at] = Written] /\ NextFile /\ NoMishap /\ UNCHANGED mode
    <3>1. Written \in Driver BY <2>0 DEF Written, Driver, Modes
    <3>2. at' \in 1 .. 3 BY <2>0, <2>1 DEF Files, NextFile
    <3> QED BY <1>8, <2>1, <3>1, <3>2 DEF StageFile, NextFile
  <2>2. ASSUME NEW left \in (IF job.target = FAT32 THEN {<<card[at], 1>>}
                                                   ELSE LeftBy(card[at], IsDirect)),
               Mishap(left[2]), card' = [card EXCEPT ![at] = left[1]],
               ApplyFailed, UNCHANGED at
        PROVE  TypeOK'
    <3>1. mishaps' \in 1 .. MaxMishaps /\ card' \in [Files -> Driver]
      BY <1>8, <2>0, <2>2, FileFailure DEF StageFile
    <3> QED BY <1>8, <2>0, <2>2, <3>1 DEF StageFile, ApplyFailed
  <2> QED BY <1>8, <2>1, <2>2 DEF StageFile
<1>9. CASE WriteMarker
  <2>0. /\ job.target \in Modes /\ job.prev.mode \in Modes
        /\ job.kind \in {"launch", "apply", "restore"}
    BY DEF Jobs, Settings
  <2>1. CASE marker' = job.target /\ NoMishap /\ Applied /\ UNCHANGED mode
    BY <1>9, <2>0, <2>1 DEF WriteMarker, Applied
  <2>2. ASSUME NEW left \in LeftBy(marker, IsDirect), Mishap(left[2]), marker' = left[1],
               IF IsDirect \/ job.target \in Verified THEN ApplyFailed
                                                      ELSE Applied /\ UNCHANGED mode
        PROVE  TypeOK'
    <3>1. mishaps' \in 1 .. MaxMishaps /\ marker' \in Modes \union {Absent, Torn}
      BY <1>9, <2>2, MarkerFailure DEF WriteMarker
    <3>2. mode' \in Modes /\ pc' \in {"playing", "adaptiveOff", "finalize", "resave", "menu"}
      BY <2>0, <2>2 DEF ApplyFailed, Applied
    <3> QED BY <1>9, <3>1, <3>2 DEF WriteMarker
  <2> QED BY <1>9, <2>1, <2>2 DEF WriteMarker
<1>10. CASE AdaptiveOff
  <2>1. [job EXCEPT !.kind = "restore"] \in Jobs BY DEF Jobs
  <2> QED BY <1>10, <2>1 DEF AdaptiveOff
<1>11. CASE Resave
  <2>1. [mode |-> mode, adaptive |-> adaptive] \in Settings BY DEF Settings
  <2> QED BY <1>11, <2>1, ReconciledType DEF Resave, Mishap
<1>12. CASE Finalize BY <1>12, ReconciledType DEF Finalize, Mishap
<1>13. CASE PowerLoss
  <2>1. card' \in [Files -> Driver]
    BY <1>13 DEF PowerLoss, Progress, Driver
  <2>2. Defaults \in Settings BY DEF Defaults, Settings, Modes
  <2> QED BY <1>13, <2>1, <2>2 DEF PowerLoss, Mishap
<1>14. CASE TurnOff BY <1>14 DEF TurnOff
<1>15. CASE Boot
  <2>1. saved.mode \in Modes /\ saved.adaptive \in BOOLEAN BY DEF Settings
  <2> QED BY <1>15, <2>1, ReconciledType DEF Boot
<1> QED BY <1>1, <1>2, <1>3, <1>4, <1>5, <1>6, <1>7, <1>8,
           <1>9, <1>10, <1>11, <1>12, <1>13, <1>14, <1>15 DEF Next

-----------------------------------------------------------------------------
(* How far a staging has come.                                             *)

LEMMA ProgressStep ==
  ASSUME IInv, Next
  PROVE  Progress'
<1> USE BdmaAssumption DEF IInv, TypeOK, disk, settings, NoMishap
<1> USE DEF Progress, Matches, Content, Files
<1>1. ASSUME NEW target \in Modes, NEW udpfsPage \in BOOLEAN, Launch(target, udpfsPage)
      PROVE  Progress'
  BY <1>1 DEF Launch
<1>2. ASSUME NEW wanted \in Modes, NEW nextAdaptive \in BOOLEAN, Commit(wanted, nextAdaptive)
      PROVE  Progress'
  BY <1>2 DEF Commit
<1>3. ASSUME NEW gone \in SUBSET Files, DeleteFiles(gone) PROVE Progress'
  BY <1>3 DEF DeleteFiles
<1>4. CASE LaunchReturns BY <1>4 DEF LaunchReturns
<1>5. CASE OpenSettings BY <1>5 DEF OpenSettings
<1>6. CASE LeaveSettings BY <1>6 DEF LeaveSettings
<1>7. CASE SaveSettings BY <1>7 DEF SaveSettings
<1>8. CASE StageFile
  <2>0. at \in Files BY <1>8 DEF StageFile, Progress
  <2>1. CASE card' = [card EXCEPT ![at] = Written] /\ NextFile /\ UNCHANGED mode
    BY <1>8, <2>0, <2>1 DEF StageFile, NextFile, Written, Content, Progress, Matches, Files
  <2>2. CASE ApplyFailed
    BY <1>8, <2>2 DEF StageFile, ApplyFailed
  <2> QED BY <1>8, <2>1, <2>2 DEF StageFile
<1>9. CASE WriteMarker
  <2>0. pc' \notin {"save", "file", "mark"}
    BY <1>9 DEF WriteMarker, Applied, ApplyFailed, Jobs
  <2> QED BY <1>9, <2>0 DEF WriteMarker
<1>10. CASE AdaptiveOff BY <1>10 DEF AdaptiveOff
<1>11. CASE Resave BY <1>11 DEF Resave
<1>12. CASE Finalize BY <1>12 DEF Finalize
<1>13. CASE PowerLoss BY <1>13 DEF PowerLoss
<1>14. CASE TurnOff BY <1>14 DEF TurnOff
<1>15. CASE Boot BY <1>15 DEF Boot
<1> QED BY <1>1, <1>2, <1>3, <1>4, <1>5, <1>6, <1>7, <1>8,
           <1>9, <1>10, <1>11, <1>12, <1>13, <1>14, <1>15 DEF Next






\* Who is staging, at every step.
LEMMA StagingStep ==
  ASSUME IInv, Next
  PROVE  Staging'
<1> USE DEF IInv, Staging, disk, settings
<1>1. ASSUME NEW target \in Modes, NEW udpfsPage \in BOOLEAN, Launch(target, udpfsPage)
      PROVE  Staging'
  BY <1>1 DEF Launch, IsManaged
<1>2. ASSUME NEW wanted \in Modes, NEW nextAdaptive \in BOOLEAN, Commit(wanted, nextAdaptive)
      PROVE  Staging'
  BY <1>2 DEF Commit
<1>3. ASSUME NEW gone \in SUBSET Files, DeleteFiles(gone) PROVE Staging'
  BY <1>3 DEF DeleteFiles
<1>4. CASE LaunchReturns BY <1>4 DEF LaunchReturns
<1>5. CASE OpenSettings BY <1>5 DEF OpenSettings
<1>6. CASE LeaveSettings BY <1>6 DEF LeaveSettings
<1>7. CASE SaveSettings BY <1>7 DEF SaveSettings
<1>8. CASE StageFile
  <2>0. job.kind \in {"launch", "apply", "restore"} BY DEF TypeOK, Jobs
  <2>1. CASE card' = [card EXCEPT ![at] = Written] /\ NextFile /\ NoMishap /\ UNCHANGED mode
    BY <1>8, <2>0, <2>1 DEF StageFile, NextFile, NoMishap
  <2>2. CASE mishaps' > mishaps /\ ApplyFailed
    BY <1>8, <2>0, <2>2 DEF StageFile, ApplyFailed
  <2> QED BY <1>8, <2>1, <2>2, FileOutcome DEF IInv
<1>9. CASE WriteMarker
  <2>0. job.kind \in {"launch", "apply", "restore"} BY DEF TypeOK, Jobs
  <2>1. CASE marker' = job.target /\ NoMishap /\ Applied /\ UNCHANGED mode
    BY <1>9, <2>0, <2>1 DEF WriteMarker, Applied, NoMishap
  <2>2. CASE mishaps' > mishaps /\ ApplyFailed
    BY <1>9, <2>0, <2>2 DEF WriteMarker, ApplyFailed
  <2>3. CASE mishaps' > mishaps /\ ~IsDirect /\ Applied /\ UNCHANGED mode
    BY <1>9, <2>0, <2>3 DEF WriteMarker, Applied
  <2> QED BY <1>9, <2>1, <2>2, <2>3, MarkerOutcome DEF IInv
<1>10. CASE AdaptiveOff
  <2>1. job' = job \/ (job'.kind = "restore" /\ job'.target = job.target /\ job'.fast = job.fast
                        /\ job'.prev = job.prev /\ pc' = "file")
    BY <1>10, RestoreJob DEF AdaptiveOff, IInv
  <2> QED BY <1>10, <2>1 DEF AdaptiveOff
<1>11. CASE Resave BY <1>11 DEF Resave
<1>12. CASE Finalize BY <1>12 DEF Finalize
<1>13. CASE PowerLoss BY <1>13 DEF PowerLoss
<1>14. CASE TurnOff BY <1>14 DEF TurnOff
<1>15. CASE Boot BY <1>15 DEF Boot
<1> QED BY <1>1, <1>2, <1>3, <1>4, <1>5, <1>6, <1>7, <1>8,
           <1>9, <1>10, <1>11, <1>12, <1>13, <1>14, <1>15 DEF Next

\* What a save has written so far, at every step.
LEMMA SavingStep ==
  ASSUME IInv, Next
  PROVE  Saving'
<1> USE DEF IInv, Staging, Saving, disk, settings
<1>1. ASSUME NEW target \in Modes, NEW udpfsPage \in BOOLEAN, Launch(target, udpfsPage)
      PROVE  Saving'
  BY <1>1 DEF Launch
<1>2. ASSUME NEW wanted \in Modes, NEW nextAdaptive \in BOOLEAN, Commit(wanted, nextAdaptive)
      PROVE  Saving'
  BY <1>2 DEF Commit
<1>3. ASSUME NEW gone \in SUBSET Files, DeleteFiles(gone) PROVE Saving'
  BY <1>3 DEF DeleteFiles
<1>4. CASE LaunchReturns BY <1>4 DEF LaunchReturns
<1>5. CASE OpenSettings BY <1>5 DEF OpenSettings
<1>6. CASE LeaveSettings BY <1>6 DEF LeaveSettings
<1>7. CASE SaveSettings BY <1>7 DEF SaveSettings
<1>8. CASE StageFile
  <2>0. job.kind \in {"launch", "apply", "restore"} BY DEF TypeOK, Jobs
  <2>1. CASE card' = [card EXCEPT ![at] = Written] /\ NextFile /\ NoMishap /\ UNCHANGED mode
    BY <1>8, <2>0, <2>1 DEF StageFile, NextFile, NoMishap
  <2>2. CASE mishaps' > mishaps /\ ApplyFailed
    BY <1>8, <2>0, <2>2 DEF StageFile, ApplyFailed
  <2> QED BY <1>8, <2>1, <2>2, FileOutcome DEF IInv
<1>9. CASE WriteMarker
  <2>0. job.kind \in {"launch", "apply", "restore"} BY DEF TypeOK, Jobs
  <2>1. CASE marker' = job.target /\ NoMishap /\ Applied /\ UNCHANGED mode
    BY <1>9, <2>0, <2>1 DEF WriteMarker, Applied, NoMishap
  <2>2. CASE mishaps' > mishaps /\ ApplyFailed
    BY <1>9, <2>0, <2>2 DEF WriteMarker, ApplyFailed
  <2>3. CASE mishaps' > mishaps /\ ~IsDirect /\ Applied /\ UNCHANGED mode
    BY <1>9, <2>0, <2>3 DEF WriteMarker, Applied
  <2> QED BY <1>9, <2>1, <2>2, <2>3, MarkerOutcome DEF IInv
<1>10. CASE AdaptiveOff
  <2>1. job' = job \/ (job'.kind = "restore" /\ job'.target = job.target /\ job'.fast = job.fast
                        /\ job'.prev = job.prev /\ pc' = "file")
    BY <1>10, RestoreJob DEF AdaptiveOff, IInv
  <2> QED BY <1>10, <2>1 DEF AdaptiveOff
<1>11. CASE Resave BY <1>11 DEF Resave
<1>12. CASE Finalize BY <1>12 DEF Finalize
<1>13. CASE PowerLoss BY <1>13 DEF PowerLoss
<1>14. CASE TurnOff BY <1>14 DEF TurnOff
<1>15. CASE Boot BY <1>15 DEF Boot
<1> QED BY <1>1, <1>2, <1>3, <1>4, <1>5, <1>6, <1>7, <1>8,
           <1>9, <1>10, <1>11, <1>12, <1>13, <1>14, <1>15 DEF Next

\* What the marker speaks for, at every step.
LEMMA UndamagedStep ==
  ASSUME IInv, Next
  PROVE  Undamaged'
<1> USE DEF IInv, Undamaged, Clean, Staging, disk, settings, Mishap, Settled, NoMishap
<1>0. mishaps \in Nat BY BdmaAssumption DEF TypeOK
<1> USE <1>0
<1>1. ASSUME NEW target \in Modes, NEW udpfsPage \in BOOLEAN, Launch(target, udpfsPage)
      PROVE  Undamaged'
  BY <1>1 DEF Launch
<1>2. ASSUME NEW wanted \in Modes, NEW nextAdaptive \in BOOLEAN, Commit(wanted, nextAdaptive)
      PROVE  Undamaged'
  BY <1>2 DEF Commit
<1>3. ASSUME NEW gone \in SUBSET Files, DeleteFiles(gone) PROVE Undamaged'
  BY <1>3, BdmaAssumption DEF DeleteFiles, TypeOK
<1>4. CASE LaunchReturns BY <1>4 DEF LaunchReturns
<1>5. CASE OpenSettings BY <1>5 DEF OpenSettings
<1>6. CASE LeaveSettings BY <1>6 DEF LeaveSettings
<1>7. CASE SaveSettings BY <1>7 DEF SaveSettings
<1>8. CASE StageFile
  <2>0. job.kind \in {"launch", "apply", "restore"} BY DEF TypeOK, Jobs
  <2>1. CASE card' = [card EXCEPT ![at] = Written] /\ NextFile /\ NoMishap /\ UNCHANGED mode
    BY <1>8, <2>0, <2>1 DEF StageFile, NextFile, NoMishap
  <2>2. CASE mishaps' > mishaps /\ ApplyFailed
    BY <1>8, <2>0, <2>2 DEF StageFile, ApplyFailed
  <2> QED BY <1>8, <2>1, <2>2, FileOutcome DEF IInv
<1>9. CASE WriteMarker
  <2>0. job.kind \in {"launch", "apply", "restore"} BY DEF TypeOK, Jobs
  <2>1. CASE marker' = job.target /\ NoMishap /\ Applied /\ UNCHANGED mode
    BY <1>9, <2>0, <2>1, BdmaAssumption
       DEF WriteMarker, Applied, NoMishap, Progress, Matches, Variants, TypeOK, Jobs, Modes
  <2>2. CASE mishaps' > mishaps /\ ApplyFailed
    BY <1>9, <2>0, <2>2 DEF WriteMarker, ApplyFailed
  <2>3. CASE mishaps' > mishaps /\ ~IsDirect /\ Applied /\ UNCHANGED mode
    BY <1>9, <2>0, <2>3 DEF WriteMarker, Applied
  <2> QED BY <1>9, <2>1, <2>2, <2>3, MarkerOutcome DEF IInv
<1>10. CASE AdaptiveOff
  <2>1. job' = job \/ (job'.kind = "restore" /\ job'.target = job.target /\ job'.fast = job.fast
                        /\ job'.prev = job.prev /\ pc' = "file")
    BY <1>10, RestoreJob DEF AdaptiveOff, IInv
  <2> QED BY <1>10, <2>1 DEF AdaptiveOff
<1>11. CASE Resave BY <1>11 DEF Resave
<1>12. CASE Finalize BY <1>12 DEF Finalize
<1>13. CASE PowerLoss BY <1>13 DEF PowerLoss
<1>14. CASE TurnOff BY <1>14 DEF TurnOff
<1>15. CASE Boot BY <1>15 DEF Boot
<1> QED BY <1>1, <1>2, <1>3, <1>4, <1>5, <1>6, <1>7, <1>8,
           <1>9, <1>10, <1>11, <1>12, <1>13, <1>14, <1>15 DEF Next

\* Whose mode the marker names, at every step.
LEMMA AgreementStep ==
  ASSUME IInv, Next
  PROVE  Agreement'
<1> USE DEF IInv, Agreement, MarkerIs, Staging, Saving, disk, settings, Mishap, Settled, NoMishap
<1>0. mishaps \in Nat BY BdmaAssumption DEF TypeOK
<1> USE <1>0
<1>1. ASSUME NEW target \in Modes, NEW udpfsPage \in BOOLEAN, Launch(target, udpfsPage)
      PROVE  Agreement'
  BY <1>1 DEF Launch
<1>2. ASSUME NEW wanted \in Modes, NEW nextAdaptive \in BOOLEAN, Commit(wanted, nextAdaptive)
      PROVE  Agreement'
  BY <1>2 DEF Commit
<1>3. ASSUME NEW gone \in SUBSET Files, DeleteFiles(gone) PROVE Agreement'
  BY <1>3 DEF DeleteFiles
<1>4. CASE LaunchReturns BY <1>4 DEF LaunchReturns
<1>5. CASE OpenSettings
  BY <1>5 DEF OpenSettings, Reconciled
<1>6. CASE LeaveSettings BY <1>6 DEF LeaveSettings
<1>7. CASE SaveSettings BY <1>7 DEF SaveSettings
<1>8. CASE StageFile
  <2>0. job.kind \in {"launch", "apply", "restore"} BY DEF TypeOK, Jobs
  <2>1. CASE card' = [card EXCEPT ![at] = Written] /\ NextFile /\ NoMishap /\ UNCHANGED mode
    BY <1>8, <2>0, <2>1 DEF StageFile, NextFile, NoMishap
  <2>2. CASE mishaps' > mishaps /\ ApplyFailed
    BY <1>8, <2>0, <2>2 DEF StageFile, ApplyFailed
  <2> QED BY <1>8, <2>1, <2>2, FileOutcome DEF IInv
<1>9. CASE WriteMarker
  <2>0. job.kind \in {"launch", "apply", "restore"} BY DEF TypeOK, Jobs
  <2>1. CASE marker' = job.target /\ NoMishap /\ Applied /\ UNCHANGED mode
    BY <1>9, <2>0, <2>1 DEF WriteMarker, Applied, NoMishap
  <2>2. CASE mishaps' > mishaps /\ ApplyFailed
    BY <1>9, <2>0, <2>2 DEF WriteMarker, ApplyFailed
  <2>3. CASE mishaps' > mishaps /\ ~IsDirect /\ Applied /\ UNCHANGED mode
    BY <1>9, <2>0, <2>3 DEF WriteMarker, Applied
  <2> QED BY <1>9, <2>1, <2>2, <2>3, MarkerOutcome DEF IInv
<1>10. CASE AdaptiveOff
  <2>1. job' = job \/ (job'.kind = "restore" /\ job'.target = job.target /\ job'.fast = job.fast
                        /\ job'.prev = job.prev /\ pc' = "file")
    BY <1>10, RestoreJob DEF AdaptiveOff, IInv
  <2> QED BY <1>10, <2>1 DEF AdaptiveOff, IsEquipped, Matches
<1>11. CASE Resave
  BY <1>11 DEF Resave, Undamaged
<1>12. CASE Finalize BY <1>12 DEF Finalize
<1>13. CASE PowerLoss BY <1>13 DEF PowerLoss
<1>14. CASE TurnOff BY <1>14 DEF TurnOff
<1>15. CASE Boot BY <1>15 DEF Boot
<1> QED BY <1>1, <1>2, <1>3, <1>4, <1>5, <1>6, <1>7, <1>8,
           <1>9, <1>10, <1>11, <1>12, <1>13, <1>14, <1>15 DEF Next

\* The properties, at every step.
LEMMA PromisesStep ==
  ASSUME IInv, Next
  PROVE  Promises'
<1> USE DEF IInv, Promises, StagedLaunchHasItsPair, ManagedLaunchHasItsPair,
        FailedApplyIsUndone, CommitTakes, Staging, Saving, disk, settings,
        Mishap, Settled, NoMishap
<1>0. mishaps \in Nat BY BdmaAssumption DEF TypeOK
<1> USE <1>0
<1>1. ASSUME NEW target \in Modes, NEW udpfsPage \in BOOLEAN, Launch(target, udpfsPage)
      PROVE  Promises'
  <2>1. ASSUME IsEquipped(target), mishaps' = 0 PROVE Matches(target)
    <3>1. Clean BY <1>1, <2>1 DEF Launch, Undamaged
    <3> QED BY <2>1, <3>1 DEF IsEquipped, Matches, Clean, Modes
  <2>2. job'.target = target /\ job'.managed = IsManaged(target, udpfsPage)
        /\ job'.staged = (job'.managed /\ ~IsEquipped(target))
    BY <1>1 DEF Launch
  <2>3. pc' = "playing" => ~(job'.managed /\ ~IsEquipped(target)) BY <1>1 DEF Launch
  <2>4. outcome' = "none" /\ card' = card BY <1>1 DEF Launch
  <2>5. Matches(target)' = Matches(target) BY <2>4 DEF Matches
  <2> QED BY <2>1, <2>2, <2>3, <2>4, <2>5 DEF Matches
<1>2. ASSUME NEW wanted \in Modes, NEW nextAdaptive \in BOOLEAN, Commit(wanted, nextAdaptive)
      PROVE  Promises'
  BY <1>2 DEF Commit
<1>3. ASSUME NEW gone \in SUBSET Files, DeleteFiles(gone) PROVE Promises'
  BY <1>3 DEF DeleteFiles, Matches
<1>4. CASE LaunchReturns BY <1>4 DEF LaunchReturns
<1>5. CASE OpenSettings BY <1>5 DEF OpenSettings
<1>6. CASE LeaveSettings BY <1>6 DEF LeaveSettings
<1>7. CASE SaveSettings BY <1>7 DEF SaveSettings
<1>8. CASE StageFile
  <2>0. job.kind \in {"launch", "apply", "restore"} BY DEF TypeOK, Jobs
  <2>1. CASE card' = [card EXCEPT ![at] = Written] /\ NextFile /\ NoMishap /\ UNCHANGED mode
    BY <1>8, <2>0, <2>1 DEF StageFile, NextFile, NoMishap
  <2>2. CASE mishaps' > mishaps /\ ApplyFailed
    BY <1>8, <2>0, <2>2 DEF StageFile, ApplyFailed
  <2> QED BY <1>8, <2>1, <2>2, FileOutcome DEF IInv
<1>9. CASE WriteMarker
  <2>0. job.kind \in {"launch", "apply", "restore"} BY DEF TypeOK, Jobs
  <2>1. CASE marker' = job.target /\ NoMishap /\ Applied /\ UNCHANGED mode
    BY <1>9, <2>0, <2>1 DEF WriteMarker, Applied, NoMishap, Progress, Matches, IsDirect
  <2>2. CASE mishaps' > mishaps /\ ApplyFailed
    BY <1>9, <2>0, <2>2 DEF WriteMarker, ApplyFailed, Progress, Matches, IsDirect
  <2>3. CASE mishaps' > mishaps /\ ~IsDirect /\ Applied /\ UNCHANGED mode
    BY <1>9, <2>0, <2>3 DEF WriteMarker, Applied, Progress, Matches, IsDirect
  <2> QED BY <1>9, <2>1, <2>2, <2>3, MarkerOutcome DEF IInv
<1>10. CASE AdaptiveOff
  <2>1. job' = job \/ (job'.kind = "restore" /\ job'.target = job.target /\ job'.fast = job.fast
                        /\ job'.prev = job.prev /\ pc' = "file")
    BY <1>10, RestoreJob DEF AdaptiveOff, IInv
  <2> QED BY <1>10, <2>1 DEF AdaptiveOff
<1>11. CASE Resave
  BY <1>11 DEF Resave, Undamaged
<1>12. CASE Finalize
  BY <1>12 DEF Finalize, Reconciled, Agreement, MarkerIs, Matches
<1>13. CASE PowerLoss BY <1>13 DEF PowerLoss
<1>14. CASE TurnOff
  BY <1>14 DEF TurnOff, Matches
<1>15. CASE Boot BY <1>15 DEF Boot
<1> QED BY <1>1, <1>2, <1>3, <1>4, <1>5, <1>6, <1>7, <1>8,
           <1>9, <1>10, <1>11, <1>12, <1>13, <1>14, <1>15 DEF Next

-----------------------------------------------------------------------------
(* The theorems.                                                           *)

LEMMA Stutter ==
  ASSUME IInv, UNCHANGED vars
  PROVE  IInv'
BY DEF IInv, vars, disk, settings, TypeOK, Progress, Staging, Undamaged, Saving, Agreement,
       MarkerIs, Promises, Matches, Content, Clean, StagedLaunchHasItsPair,
       ManagedLaunchHasItsPair, FailedApplyIsUndone, CommitTakes

LEMMA Invariance == Spec => []IInv
<1>1. IInv /\ [Next]_vars => IInv'
  <2>1. ASSUME IInv, Next PROVE IInv'
    <3>1. TypeOK' BY <2>1, TypeStep DEF IInv
    <3>2. Progress' /\ Staging' /\ Saving'
      BY <2>1, ProgressStep, StagingStep, SavingStep
    <3>3. Undamaged' /\ Agreement' /\ Promises'
      BY <2>1, UndamagedStep, AgreementStep, PromisesStep
    <3> QED BY <3>1, <3>2, <3>3 DEF IInv
  <2>2. ASSUME IInv, UNCHANGED vars PROVE IInv' BY <2>2, Stutter
  <2> QED BY <2>1, <2>2
<1> QED BY <1>1, InitIInv, PTL DEF Spec

\* The card, the marker, the settings and the job keep their ranges.
THEOREM TypeCorrect == Spec => []TypeOK
<1>1. IInv => TypeOK BY DEF IInv
<1> QED BY <1>1, Invariance, PTL

\* A launch that staged its pair runs with that pair, whatever failed before.
THEOREM StagedIsStaged == Spec => []StagedLaunchHasItsPair
<1>1. IInv => StagedLaunchHasItsPair BY DEF IInv, Promises
<1> QED BY <1>1, Invariance, PTL

\* A launch POPSLoader answers for runs with its pair, nothing having gone wrong since the
\* card was last in order.
THEOREM ManagedIsServed == Spec => []ManagedLaunchHasItsPair
<1>1. IInv => ManagedLaunchHasItsPair BY DEF IInv, Promises
<1> QED BY <1>1, Invariance, PTL

\* A save whose staging failed leaves the earlier mode in the settings file.
THEOREM FailureIsUndone == Spec => []FailedApplyIsUndone
<1>1. IInv => FailedApplyIsUndone BY DEF IInv, Promises
<1> QED BY <1>1, Invariance, PTL

\* A save that returns true leaves the mode the user picked in the file and in force.
THEOREM CommitIsKept == Spec => []CommitTakes
<1>1. IInv => CommitTakes BY DEF IInv, Promises
<1> QED BY <1>1, Invariance, PTL

\* Adaptive BDMA off, only a launch on the chosen mode's device, or a UDPFS launch, writes
\* the drivers.
THEOREM ManualIsManual == Spec => ManualLaunchWritesNothing
<1>1. IInv =>
        [card' # card /\ pc = "file" /\ job.kind = "launch" /\ ~adaptive
           => job.target \in Verified \/ job.target = mode]_vars
  BY DEF IInv, Staging
<1> QED BY <1>1, Invariance, PTL DEF ManualLaunchWritesNothing
=============================================================================

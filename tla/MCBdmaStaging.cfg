SPECIFICATION Spec
CONSTANTS
  Plain = {MMCE, ATA}
  Verified = {UDPFS}
  FAT32 = FAT32
  Absent = Absent
  Torn = Torn
  MaxMishaps = 2
INVARIANTS StagedLaunchHasItsPair ManagedLaunchHasItsPair FailedApplyIsUndone

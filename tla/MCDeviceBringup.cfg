SPECIFICATION BringupSpec
CONSTANTS
  MaxPasses = 2
  MaxFails = 1
  MaxErrors = 1
INVARIANT StackIsSound
PROPERTY SlowDriveIsFound

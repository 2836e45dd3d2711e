SPECIFICATION LaunchSpec
CONSTANTS
  Parts = {p1, p2}
  NoPart = NoPart
  ParentRoom = 2
  ChildRoom = 1
  Sizes = {1}
  DriveGames = {g1}
  CardGames = {g1, g2}
  Secondary = {g2}
  NoFile = NoFile
  PvdSearch = 2
  RootSectors = 1
  Frames = 2
  Rooms <- MCRooms
  Tokens <- MCTokens
  Images <- MCImages
INVARIANTS NothingMountedAtReset DoomedOnlyByMedia StartedAsPromised MarksAreTheirs NoGameLost NeverAGuess
CHECK_DEADLOCK FALSE

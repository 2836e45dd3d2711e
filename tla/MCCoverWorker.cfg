SPECIFICATION Spec
CONSTANTS
  g1 = g1
  g2 = g2
  c1 = c1
  c2 = c2
  i1 = i1
  d1 = d1
  d2 = d2
  Games = {g1, g2}
  HddGames = {g1}
  Covers <- MCCovers
  Icons <- MCIcons
  Sidecar <- MCSidecar
  EmptyPath = EmptyPath
  NONE = NONE
  ReadFailed = ReadFailed
  MaxEntries = 2
  MaxTextures = 3
  MaxRetries = 1
  QuiesceFrames = 2
  TokenBound = 2
INVARIANTS LatchedPathsAlive TexturesHeldOnce SelectionShowsItsOwn

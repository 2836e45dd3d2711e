SPECIFICATION ConfigSpec
CONSTANTS
  Addresses = {A, B}
  NoAddress = NoAddress
  MaxTries = 2
  MaxRounds = 2
  MaxMishaps = 2
INVARIANTS OneStackOnTheChip NoHalfOpenSession ConfigsAreWhole
PROPERTIES ListsAreServedAfresh ConnectEnds

SPECIFICATION AtaSpec
CONSTANTS
  Others = {"ps2hdd"}
  Max28 = 1
  Max48 = 3
  Capacity28 = 1
  Sectors = 2
  Retries = 2
INVARIANTS OkMeansServed OneConsumer
PROPERTY CallsReturn
CONSTRAINT Explored

SPECIFICATION FairSpec
CONSTANTS
  NUnits = 2
  NPackets = 1
  MaxStarted = 1
  PipeRoom = 4
  BackRoom = 4
  MaxResets = 1
INVARIANTS UnitOutlivesThread
PROPERTIES ResetEnds

SPECIFICATION FairSpec
CONSTANTS
  NUnits = 1
  NPackets = 2
  MaxStarted = 1
  PipeRoom = 4
  BackRoom = 4
  MaxResets = 0
PROPERTIES UnstartedIsStarted

SPECIFICATION FairSpec
CONSTANTS
  NUnits = 1
  NPackets = 3
  MaxStarted = 2
  PipeRoom = 5
  BackRoom = 5
  MaxResets = 0
INVARIANTS OneDummy AnsweredOnce NothingForgotten PipesNeverFill
PROPERTIES StartedIsAnswered TimedOutIsAnswered

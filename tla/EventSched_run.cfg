SPECIFICATION FairSpec
CONSTANTS
  W = 5
  MaxT = 2
  MiscSlots = 2
  NFuncs = 2
  Hsync = 2
  Pissoff = 1
  Calls = 1
INVARIANTS SettledAtCpu
PROPERTIES NothingSkipped NothingLost ComesBack
CHECK_DEADLOCK TRUE

SPECIFICATION StorageSpec
CONSTANTS
  Requests = {r1, r2}
  Slots = {s1}
  Keys = {k1, k2}
  Packets = {p1, p2}
  None = none
  MaxRecords = 2
  Ranges <- MCRanges
  Timeouts = {0, 2}
  VblankHz = 60
  W = 8
  Room = 3
  MaxCloses = 1
  \* A disc of two sectors, two buffers of two, each given twice.
  Size = 2
  Tries = 2
  DataEnd = 2
  Seeks = {0, 1}
  MaxFailures = 1
INVARIANTS OneReader NoConflict BuffersSound
PROPERTIES GoesOn CommandsAnswered WaitEnds Serves
\* Reopened too early, the emulation thread can wait for a thread that is gone; and
\* the record locks stop at what is undefined.
CHECK_DEADLOCK FALSE

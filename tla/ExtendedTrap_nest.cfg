SPECIFICATION FairSpec
CONSTANTS
  Tasks = {t1, t2}
  NContexts = 3
  MaxCalls = 2
  MaxResets = 1
INVARIANTS OneHasThe68k AloneInside OwnValue
PROPERTIES TrapsNest CodeRunsAgain
\* After a reset inside the critical section the machine does stop.
CHECK_DEADLOCK FALSE

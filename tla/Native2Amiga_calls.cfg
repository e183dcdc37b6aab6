SPECIFICATION FairSpec
CONSTANTS
  Workers = {w1, w2}
  Emulation = emulation
  Worker1 = w1
  Machines <- MCMachines
INVARIANTS OneWriter MessagesWhole EnoughInterrupts
PROPERTIES CallsReturn CallsAreMade
\* After a reset inside a message the server waits for the rest of it for good.
CHECK_DEADLOCK FALSE

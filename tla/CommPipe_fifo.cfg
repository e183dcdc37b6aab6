SPECIFICATION FairSpec
CONSTANTS
  Writers = {w1, w2}
  Msgs = {m1}
  Size = 3
  Chunks = 2
  Exclusive = TRUE
INVARIANTS RingExclusion NoStrandedReader
PROPERTIES Fifo FlushDelivered WriteReturns

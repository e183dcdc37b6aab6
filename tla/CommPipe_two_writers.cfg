SPECIFICATION FairSpec
CONSTANTS
  Writers = {w1, w2}
  Msgs = {m1, m2}
  Size = 3
  Chunks = 1
  Exclusive = FALSE
PROPERTIES Fifo

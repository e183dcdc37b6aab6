SPECIFICATION Spec
CONSTANTS
  Workers = {w1, w2}
  Emulation = emulation
  Worker1 = w1
  Machines <- OnlyA2091
INVARIANTS NeverNotEnough

SPECIFICATION Spec
CONSTANTS
  r1 = r1
  Requests = {r1, r2}
  Openers <- MCOpeners
  Room = 99
  Traffic = 1
  None = none
  Values = {0, 1}
  StartHi = 1
  StartCr = 1
  DIV10 = 2
  Bits = {1, 2}
  NSlots = 3
  Delay = 2
INVARIANTS SentOnce FlushLast Asserted Seen
PROPERTIES WriteEnds TimersTick

SPECIFICATION Spec
CONSTANTS
  Tasks = {t1, t2}
  NContexts = 2
  MaxCalls = 1
  MaxResets = 1
INVARIANTS NoTrapInside

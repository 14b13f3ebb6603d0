SPECIFICATION Spec
CONSTANTS
  t1 = t1
  Listed = Listed
  Caller = Caller
  System = System
  Gids = {t1}
  Modes = {"XA"}
  Stock = 2
  MaxFaults = 1
CHECK_DEADLOCK FALSE
INVARIANT XaIsAtomic

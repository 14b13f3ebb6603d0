SPECIFICATION Spec
CONSTANTS
  t1 = t1
  Listed = Listed
  Caller = Caller
  System = System
  Gids = {t1}
  Modes = {"NAIVE", "SAGA", "XA"}
  Stock = 2
  MaxFaults = 4
CHECK_DEADLOCK FALSE
INVARIANTS
  TypeOK
  Atomic
  RepeatedIsHarmless
  RolledBackIsGone
PROPERTIES
  CreatesAtomically
  EveryRequestEnds

SPECIFICATION StoreSpec
CONSTANTS
  lamp = lamp
  mug = mug
  ann = ann
  t1 = t1
  t2 = t2
  System = System
  Products = {lamp, mug}
  InitialProducts = {lamp}
  Callers = {ann}
  Gids = {}
  Calls = {1}
  Tabs = {t1, t2}
  MaxSessions = 2
SYMMETRY AnyTab
CONSTRAINT DatabaseBound
INVARIANTS
  StoreTypeOK
  CartIsKept
  LogoutForgets
PROPERTIES
  OnlyDeletionRemoves

SPECIFICATION Spec
CONSTANTS
  lamp = lamp
  mug = mug
  ann = ann
  bob = bob
  System = System
  NoCaller = NoCaller
  Half = 4
  LowStock = 1
  CriticalStock = 0
  MaxEvents = 1
  TopicSets = {{"kitchen"}}
  InitialStock <- MCInitialStock
  Products = {lamp, mug}
  Callers = {ann, bob}
  Gids = {1}
  Seconds = {1}
  Calls = {1}
  Deltas <- MCDeltas
  Stocks <- MCStocks
INVARIANTS
  TypeOK
  NeverOverdrawn
  RestockedOnce
PROPERTY StagedStays

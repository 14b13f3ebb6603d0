SPECIFICATION Spec
CONSTANTS
  lamp = lamp
  System = System
  Products = {lamp}
  InitialLevel <- MCInitialLevel
  Levels <- MCLevels
  LowStock = 2
  CriticalStock = 1
  Amounts = {4}
  Half = 8
  LowDelay = 2
  CriticalDelay = 1
  BufferSize = 8
  TopicSets = {{"kitchen"}, {"uncategorized"}}
  MaxFaults = 2
  MaxRequests = 2
  LastRequest = 1
  MaxEvents = 2
CHECK_DEADLOCK FALSE
INVARIANTS
  TypeOK
  OneRestockPerAlert
  CriticalIsUrgent
PROPERTY KeptIsRestocked

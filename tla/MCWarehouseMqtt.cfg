SPECIFICATION Spec
CONSTANTS
  w1 = w1
  Listed = Listed
  Unknown = Unknown
  System = System
  Instances = {w1}
  Transactional = {w1}
  Stock = 2
  Half = 8
  Requests <- SomeRequests
  MaxPublished = 3
  MaxFaults = 1
CHECK_DEADLOCK FALSE
INVARIANTS
  TypeOK
  OnceInOrder
  AckedIsHandled
PROPERTIES
  SubscribedIsHandled
  ShutdownEnds

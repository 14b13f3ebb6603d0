SPECIFICATION Spec
CONSTANTS
  ann = ann
  lamp = lamp
  System = System
  Users = {ann}
  Items = {lamp}
  Quantities = {1}
  Requests = {1,2}
  MaxAdded = 2
  Orders = {1, 2}
  UserOf <- MCUserOf
  Deployments = {TRUE, FALSE}
  InitialLevel <- MCInitialLevel
  Half = 16
  MaxFaults = 2
CHECK_DEADLOCK FALSE
INVARIANTS
  TypeOK
  ShippedIsCharged
  PublishedOnce
  SoldOnce

SPECIFICATION Spec
CONSTANTS
  ann = ann
  lamp = lamp
  System = System
  Users = {ann}
  Items = {lamp}
  Quantities = {1}
  Requests = {1}
  MaxAdded = 2
  Orders = {1, 2}
  UserOf <- MCUserOf
  Deployments = {TRUE}
  InitialLevel <- MCInitialLevel
  Half = 16
  MaxFaults = 0
CHECK_DEADLOCK FALSE
PROPERTY SagaIsDecided

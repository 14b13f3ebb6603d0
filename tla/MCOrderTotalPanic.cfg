SPECIFICATION Spec
CONSTANTS
  NanosMod = 3
  Prices <- MCPrices
  Shippings <- MCShippings
  Quantities = {1, 2, 4}
  MaxItems = 2
INVARIANTS
  NeverPanics
CHECK_DEADLOCK FALSE

SPECIFICATION PageSpec
CONSTANTS
  NanosMod = 5
  Prices <- MCPrices
  Shippings <- MCShippings
  Quantities = {1, 2, 4}
  MaxItems = 2
  Usd = "USD"
  Rate <- MCRate
  UsdPrices <- MCUsdPrices
  UsdShippings <- MCUsdShippings
INVARIANTS
  TypeOK
  ChargedExactly
  PagesAgree
  ConvertsClosely
CHECK_DEADLOCK FALSE

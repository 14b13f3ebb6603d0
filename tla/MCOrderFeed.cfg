SPECIFICATION FeedSpec
CONSTANTS
  o1 = o1
  o2 = o2
  o3 = o3
  o4 = o4
  o5 = o5
  eur = eur
  usd = usd
  NoOrder = NoOrder
  Capacity = 3
  Orders <- MCOrders
  Currencies <- MCCurrencies
  CurrencyOf <- MCCurrencyOf
INVARIANTS
  FeedTypeOK
  SeenMatchesRing
PROPERTY ListsRecentOrders

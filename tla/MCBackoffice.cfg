SPECIFICATION OfficeSpec
CONSTANTS
  lamp = lamp
  kitchen = kitchen
  garden = garden
  uncategorized = uncategorized
  All = All
  Products = {lamp}
  Categories = {kitchen, garden, uncategorized}
  Uncategorized = uncategorized
  Listed <- MCListed
  Listings <- MCListings
  Subscriptions <- SomeSubscriptions
  Clients = {1}
  BufferSize = 1
  MaxTime = 1
  Groups <- SomeGroups
  MaxChanges = 2
INVARIANTS
  OfficeTypeOK
  FormsAreAllowed
PROPERTIES
  AlertsAreActionable
  RolesWereHeld
  SentIsListed
  KeepsCreationTime

SPECIFICATION FairValuesSpec
CONSTANTS
  Settings <- MCSettings
  Primes = {1009, 2003}
  MaxSets = 3
  MaxAsked = 1
INVARIANTS
  DerivedFollows
  OrdersAsNamed
PROPERTY
  SettingsArrive
CHECK_DEADLOCK FALSE

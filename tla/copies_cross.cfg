\* Two settings of one variable that cross on their way leave the copies different.
SPECIFICATION FairValuesSpec
CONSTANTS
  Settings <- MCSettings
  Primes = {1009}
  MaxSets = 2
  MaxAsked = 0
PROPERTY
  MethodIsSynchronized
CHECK_DEADLOCK FALSE

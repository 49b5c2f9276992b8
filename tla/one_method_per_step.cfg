\* A running step can read the coefficients of two methods.
SPECIFICATION ValuesSpec
CONSTANTS
  Settings <- MCSettings
  Primes = {1009}
  MaxSets = 1
  MaxAsked = 1
INVARIANT
  OneMethodPerStep
CHECK_DEADLOCK FALSE

SPECIFICATION ValuesSpec
CONSTANTS
  Settings <- MCSettings
  Primes = {1009}
  MaxSets = 1
  MaxAsked = 0
INVARIANT
  VariableNamesTableau
CHECK_DEADLOCK FALSE

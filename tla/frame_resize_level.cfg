SPECIFICATION Spec
CONSTANTS
  BufferSize = 5
  Elements = {a}
  Blank = blank
  InitialCounts = {1}
  Counts = {1, 2}
INVARIANTS
  GreatLevelFollows

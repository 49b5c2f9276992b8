SPECIFICATION WireSpec
CONSTANTS
  Numbers = {0, 1, 3}
  MaxEvents = 2
INVARIANTS
  MessagesAreUnderstood
  ReadsStayInBounds
  CopiesAgree
CHECK_DEADLOCK FALSE

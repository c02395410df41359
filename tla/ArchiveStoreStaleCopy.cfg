\* A failed archive, and the session goes on before it is archived again.
SPECIFICATION Spec
CONSTANTS
  Sessions = {s1}
  MaxMessages = 2
  MaxRequests = 3
  MaxFaults = 1
  None = None
CHECK_DEADLOCK FALSE
INVARIANTS RestoredIsComplete

SPECIFICATION MCSpec
CONSTANTS
  s1 = s1
  s2 = s2
  Sessions = {s1, s2}
  MaxMessages = 2
  MaxRequests = 3
  MaxFaults = 2
  None = None
  Records = {"r1", "r2", "r3"}
  MaxDeaths = 1
  MaxErrors = 2
CHECK_DEADLOCK FALSE
INVARIANTS FilesAreKept
PROPERTIES OperationsEnd MovesAtomically

\* Two sessions, two completions, two faults, two catalog identities.
SPECIFICATION FairSpec
CONSTANTS
  Sessions = {s1, s2}
  Limit = 1
  MaxPending = 2
  MaxRuns = 2
  MaxFaults = 2
  MaxIds = 2
  None = None
CHECK_DEADLOCK FALSE
INVARIANTS OrdersNeverReused ToldIsKept EventsInOrder
PROPERTIES AcknowledgesOnlySeen NothingIsOutstanding

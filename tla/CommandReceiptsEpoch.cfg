\* The supervisor relaunches the Runtime with the epoch of its launch plan.
SPECIFICATION Spec
CONSTANTS
  Commands = {c1}
  Payloads = {p1}
  Times = {1}
  Skew = 0
  MaxRetained = 1
  MaxStarts = 2
  None = None
CHECK_DEADLOCK FALSE
INVARIANTS StaleEpochsRefused

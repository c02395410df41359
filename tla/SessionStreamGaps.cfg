\* One session and one message, no fault: what the first load and the first stream show.
SPECIFICATION Spec
CONSTANTS
  Sessions = {s1}
  MaxMessages = 1
  MaxPieces = 1
  MaxOpens = 0
  MaxFaults = 0
  None = None
  Words <- Len
CHECK_DEADLOCK FALSE
INVARIANTS NoGaps

\* One session; two deltas, of one message or of two; one selection or reconnection by the
\* user and one fault, besides what follows from them. Texts of the same length have the
\* same words: so have the two messages.
SPECIFICATION FairSpec
CONSTANTS
  Sessions = {s1}
  MaxMessages = 2
  MaxPieces = 2
  MaxOpens = 1
  MaxFaults = 1
  None = None
  Words <- Len
CHECK_DEADLOCK FALSE
INVARIANTS StreamIsInStep
PROPERTIES RowsStay StreamRecovers

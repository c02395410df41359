\* A prompt and an archiving: two requests are enough.
SPECIFICATION Spec
CONSTANTS
  MaxRequests = 2
  Runtimes = {t1, t2, t3}
  MaxCompactions = 1
  None = None
CHECK_DEADLOCK FALSE
INVARIANT ArchivedIsReadOnly

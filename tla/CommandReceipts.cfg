SPECIFICATION MCSpec
CONSTANTS
  Commands = {c1, c2}
  Payloads = {p1, p2}
  Times = {1}
  Skew = 0
  MaxRetained = 1
  MaxStarts = 2
  None = None
  Askers = {"r1", "r2"}
  MaxCommits = 3
  MaxEdits = 3
  Makers = {"r1", "r2"}
  MaxCheckpoints = 4
  MaxDeaths = 1
  MaxLoads = 3
  MaxChanges = 2
  Agents = {"a1"}
  Terms = {"t1"}
  Cwds = {"c1"}
  CwdOf <- MCCwdOf
  Viewers = {"v1"}
  BufferSize = 1
  MaxOutput = 2
CHECK_DEADLOCK FALSE
INVARIANTS TypeOK NoReplay EffectsAreOnRecord ReceiptsAgree TerminalsAgree
PROPERTIES NothingIsOutstanding NothingIsUndone CachesAreCurrent

SPECIFICATION MCSpec
CONSTANTS
  t1 = t1
  t2 = t2
  t3 = t3
  t4 = t4
  MaxRequests = 3
  Runtimes = {t1, t2, t3, t4}
  MaxCompactions = 1
  None = None
  Children = {"c1"}
  MaxSpells = 2
  MaxFaults = 2
  Askers = {"r1", "r2"}
  MaxObjects = 2
  MaxEntries = 4
  Messages <- MCMessages
  MaxEntered = 3
  Limits = {0, 1, 2}
  CleanSessions = {"a", "b"}
  ForkedFrom <- MCForkedFrom
  MaxUses = 3
  MaxNodes = 3
CHECK_DEADLOCK FALSE
INVARIANTS RuntimesAreOwned NavigationIsExclusive ParentIsToldOnce HistoryIsTrue
PROPERTIES EarlierWorkIsSpared EntriesAreGuarded NothingIsOutstanding

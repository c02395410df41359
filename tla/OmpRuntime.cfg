SPECIFICATION MCSpec
CONSTANTS
  MaxRequests = 2
  MaxRuntimes = 3
  MaxSessions = 2
  None = None
  MaxFrame = 4
  ChunkBytes = 2
  MaxWhole = 6
  Lengths = {1, 3, 4, 5, 7}
  MaxFrames = 2
  Flows = {"f1", "f2"}
  MaxPrompts = 2
  Providers = {"p1", "p2"}
  MaxMigrations = 2
  MaxLogins = 2
  MaxFailures = 2
  Connections = {"n1", "n2"}
  MaxTyped = 2
  Asks = {"q1", "q2"}
  MaxForked = 2
  c1 = c1
  Callers = {c1}
  MaxRuns = 1
  MaxSaid = 1
  MaxText = 2
  MaxOnTheWay = 3
  ModelProviders = {"p1", "p2"}
  Talks = {"t1"}
  MaxChanges = 4
CHECK_DEADLOCK FALSE
INVARIANTS NothingPends RuntimesServe FramesArriveWhole CredentialsAgree InputArrives ReplacementsAreAlone
PROPERTIES NeverOverwrites NothingIsOutstanding

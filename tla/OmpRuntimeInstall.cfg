\* A request finds an opening whose process could not be spawned, after OMP was installed.
SPECIFICATION FairSpec
CONSTANTS
  MaxRequests = 2
  MaxRuntimes = 3
  MaxSessions = 2
  None = None
CHECK_DEADLOCK FALSE
PROPERTIES InstallingSuffices

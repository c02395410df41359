\* Two sessions and inboxes of one; four notifications of two generations, or three of three.
\* Two dialogs of two sessions and runtimes. Either default runtime, and restarts.
SPECIFICATION MCSpec
CONSTANTS
  s1 = s1
  s2 = s2
  Sessions = {s1, s2}
  Limit = 1
  MaxOrder = 4
  MaxGens = 3
  MaxTogether = 6
  None = None
  Dialogs = {"d1", "d2"}
  Owners = {"o1", "o2"}
  Hosts = {"h1", "h2"}
  Clients = {"c1"}
  Ids = {"p1", "o1"}
  Owner <- MCOwner
  Bodies = {"a", "b"}
  MaxEdits = 1
  Writers = {"w1", "w2"}
  SettingKeys = {"k1", "k2"}
  MaxUpdates = 1
  MaxRequests = 2
  Mutators = {"r1", "r2"}
  Packs = {"k1", "k2"}
  MaxMutations = 3
  MachineIds = {"m1", "m2"}
  Users = {"u1", "u2"}
  MaxRevisions = 2
CHECK_DEADLOCK FALSE
SYMMETRY MCSymmetry
INVARIANTS InboxesAreExact DialogsEndOnce RequestsAreFaithful AcknowledgedIsKept
PROPERTIES ClientsFollow UnnamedKeysStay

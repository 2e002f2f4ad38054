CONSTANTS
  Sessions = {s1, s2, s3}
  Rooms = {r1, r2}
  Admins = {a1}
  Times <- Instants
  Statuses = {"scheduled", "completed"}
  Latest = 3
  Regimes = {"single"}
  None = None
SYMMETRY Symmetry
CHECK_DEADLOCK FALSE
SPECIFICATION Spec
INVARIANTS RoomIsCleared
PROPERTIES PushIsLeast

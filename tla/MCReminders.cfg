SPECIFICATION FairSpec
CONSTANTS
  Sessions = {s1}
  Admins = {a1}
  Chores = {c1, c2}
  Boots = {b1}
  Workers = {w1}
  Horizon = 3
  Lead = 1
  Starts = {2, 3}
  Statuses = {"scheduled", "live"}
  Regimes = {"calm", "single"}
  Deaths = {FALSE, TRUE}
  None = None
CHECK_DEADLOCK FALSE
INVARIANTS RingsOnce NoReminderLost
PROPERTIES RingIsTrue SavedSessionsRing

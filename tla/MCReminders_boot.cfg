SPECIFICATION Spec
CONSTANTS
  Sessions = {s1}
  Admins = {}
  Chores = {c1}
  Boots = {b1}
  Workers = {w1}
  Horizon = 3
  Lead = 1
  Starts = {2, 3}
  Statuses = {"scheduled", "live"}
  Regimes = {"shared"}
  Deaths = {FALSE}
  None = None
CHECK_DEADLOCK FALSE
PROPERTIES DueRemindersAreTaken

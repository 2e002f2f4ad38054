SPECIFICATION Spec
CONSTANTS
  Delegates = {d1}
  Topics = {t1}
  Entries = {e1}
  Casts = {}
  Admins = {a1, a2}
  Regimes = {"shared"}
  Deaths = {FALSE}
  None = None
CHECK_DEADLOCK FALSE
PROPERTIES NeverRecomputed

SPECIFICATION Spec
CONSTANTS
  Delegates = {d1}
  Topics = {t1}
  Entries = {e1}
  Casts = {c1}
  Admins = {a1, a2}
  Regimes = {"single", "shared"}
  Deaths = {FALSE, TRUE}
  None = None
CHECK_DEADLOCK FALSE
SYMMETRY Symmetry
INVARIANTS AnnouncedIsStored
PROPERTIES ResultFrozen

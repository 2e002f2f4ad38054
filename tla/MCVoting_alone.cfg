SPECIFICATION Spec
CONSTANTS
  Delegates = {d1, d2}
  Topics = {t1, t2}
  Entries = {e1, e2}
  Casts = {c1, c2}
  Admins = {a1}
  Regimes = {"serial", "alone"}
  Deaths = {FALSE}
  None = None
CHECK_DEADLOCK FALSE
SYMMETRY Symmetry
INVARIANTS BallotsRestOnTheirPitch BallotsAreAudited ScreensAreCurrent
PROPERTIES ResultIsTheTallyAtClose ImplementsBallot

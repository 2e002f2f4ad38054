SPECIFICATION Spec
CONSTANTS
  Delegates = {d1}
  Questions = {q1, q2}
  Options = {A, B}
  Players = {p1, p2}
  Admins = {a1}
  Regimes = {"alone", "single"}
  Deaths = {"nobody", "players", "admins"}
  Limit = 1
  None = None
CHECK_DEADLOCK FALSE
SYMMETRY Symmetry
INVARIANTS OneLiveQuestion CountsMatchAnswers CardIsTheLiveQuestion

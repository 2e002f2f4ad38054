SPECIFICATION FairSpec
CONSTANTS
  MaxLines = 2
  Takes = {t1}
  Workers = {w1, w2}
  Window = 8
  GapFillMax = 1
  MaxClears = 1
  Regimes = {"single", "shared"}
  None = None
CHECK_DEADLOCK FALSE
INVARIANTS TypeOK GapsAreFilledOnce NoLineTwice
PROPERTIES LinesGetTranslated

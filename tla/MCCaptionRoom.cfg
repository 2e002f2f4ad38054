SPECIFICATION FairSpec
CONSTANTS
  Desks = {d1}
  Requests = {r1, r2}
  Streams = {st1, st2}
  Sessions = {s1}
  MaxFaults = 1
  None = None
CHECK_DEADLOCK FALSE
INVARIANTS TypeOK NothingIsForgotten JobsHaveTheirFile
PROPERTIES ClosedStreamsEnd CaptureHears

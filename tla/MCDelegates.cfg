SPECIFICATION Spec
CONSTANTS
  Scenes = {"tokens", "codes", "accounts", "network", "discussions", "records", "announcements", "access",
            "certificates", "liveops", "reveal"}
  Regimes = {"single", "lossy", "shared"}
  None = None
  MaxTokens = 4
  MaxEras = 2
  AuthCalls = {a1, a2}
  MaxCodes = 2
  MaxPerHour = 1
  MaxAttempts = 2
  Senders = {s1, s2}
  Checkers = {k1}
  Delegates = {d1, d2, d3}
  Entries = {e1}
  Founder = d1
  Grantable = {"standard"}
  AccountCalls = {r1}
  NPeople = 2
  Emoji = {x1, x2}
  MaxMessages = 1
  Page = 1
  NetworkCalls = {n1}
  Voters = {v1, v2}
  Comments = {c1}
  Ballots = {b1, b2}
  Talks = {t1}
  Fans = {f1}
  RecordCalls = {q1}
  Broadcasts = {m1}
  Directs = {m2}
  Phones = {h1}
  Desk = {o1, o2}
  Couriers = {w1, w2}
  MaxLost = 1
  AccessTtl = 2
  MaxNow = 3
  MaxPasses = 2
  Steps = {"session", "connections"}
  Need <- Needed
  Issues = {i1, i2}
  MaxDrawn = 3
  Panels = {b3, b4}
  Hosts = {p1, p2}
  Callers = {p3}
CHECK_DEADLOCK FALSE
INVARIANTS TypeOK SessionsRotate CodesWork GuessesAreCapped EntriesGrantOnce
  ReactionsHeal CountersMatchVotes RecordsGoWithTheirSession RingsMatchLosses
  RightsLapse OtherRoutesServe CertificatesLast FlagsReachScreens LineUpFollowsTheSwitch
PROPERTY AdminsAreGuarded

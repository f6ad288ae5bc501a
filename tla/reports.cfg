SPECIFICATION ReportsSpec
CONSTANTS
  u1 = u1
  u2 = u2
  u3 = u3
  u4 = u4
  u5 = u5
  t1 = t1
  t2 = t2
  p1 = p1
  p2 = p2
  r1 = r1
  r2 = r2
  r3 = r3
  Null = Null
  v1 = v1
  v2 = v2
  UserIDs = {u1, u2, u3}
  TeamNames = {t1, t2}
  PRIDs = {p1}
  Requests = {r1, r2}
  MaxRequests = 2
  Seed <- SeedOneReviewer
  Traffic <- TrafficForReports
  Readers = {v1, v2}
  Kinds = {"team", "review", "stats", "pr"}
  Faults = {"error", "crash"}
SYMMETRY SymmetricReaders
INVARIANTS
  ViewTypeOK
  NobodyShownReviewingHimself
  FrozenViewsStayTrue
  StatsAgree
PROPERTIES
  MergedNeverShownOpenLater

SPECIFICATION Spec
CONSTANTS
  u1 = u1
  u2 = u2
  u3 = u3
  u4 = u4
  u5 = u5
  t1 = t1
  t2 = t2
  p1 = p1
  p2 = p2
  r1 = r1
  r2 = r2
  r3 = r3
  Null = Null
  UserIDs = {u1, u2, u3, u4, u5}
  TeamNames = {t1, t2}
  PRIDs = {p1}
  Requests = {r1, r2, r3}
  MaxRequests = 3
  Seed <- SeedTwoTeams
  Traffic <- TrafficPRs
  Faults = {"error", "lost_commit", "crash"}
SYMMETRY SymmetricUsersAndRequests
INVARIANTS
  StrongInv
  RepliesAreTrue
  NoSelfReview
  AuditNeverOverstates
  TeamInv
  ReviewersFromAuthorsTeam
PROPERTIES
  MergedIsFinal
  MergeFreezes
  ImplementsLifecycle

SPECIFICATION Spec
CONSTANTS
  u1 = u1
  u2 = u2
  u3 = u3
  u4 = u4
  u5 = u5
  t1 = t1
  t2 = t2
  p1 = p1
  p2 = p2
  r1 = r1
  r2 = r2
  r3 = r3
  Null = Null
  UserIDs = {u1, u2, u3}
  TeamNames = {t1}
  PRIDs = {p1}
  Requests = {r1, r2}
  MaxRequests = 2
  Seed <- SeedOneReviewer
  Traffic <- TrafficReassignSetActive
  Faults = {}
SYMMETRY SymmetricRequests
PROPERTIES
  AssignedAreActive

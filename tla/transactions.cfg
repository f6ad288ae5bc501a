SPECIFICATION FairSpec
CONSTANTS
  u1 = u1
  u2 = u2
  u3 = u3
  u4 = u4
  t1 = t1
  t2 = t2
  p1 = p1
  p2 = p2
  s1 = s1
  s2 = s2
  Null = Null
  UserIDs = {u1, u2, u3, u4}
  TeamNames = {t1, t2}
  PRIDs = {p1, p2}
  Sessions = {s1, s2}
  Seed <- SeedOneReviewer
  Calls <- SomeCalls
  MaxCalls <- TwoAndOne
INVARIANTS
  TxInv
  ReadsItsOwnWrites
  OwnMergeBinds
  EventsBacked
PROPERTIES
  MergedStays
  EveryTransactionEnds

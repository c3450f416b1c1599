SPECIFICATION FairSpec
CONSTANTS
  t1 = t1
  t2 = t2
  r1 = r1
  r2 = r2
  Tenants <- MCTenants
  Idle = Idle
  Requests = {r1, r2}
  Capacity = 1
  PageLimit = 1
  FeedLength = 2
  MaxSeq = 2
  MaxRestarts = 1
INVARIANTS
  TypeOK
PROPERTIES
  FeedInOrder
  CatchesUp

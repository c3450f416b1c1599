SPECIFICATION Spec
CONSTANTS
  t1 = t1
  t2 = t2
  alice = alice
  office = office
  Tenants <- MCTenants
  Owners <- MCOwners
  Sessions <- MCSessions
  Blank = Blank
  Absent = Absent
  Never <- MCNever
  Secrets = {key1, key2}
  NotAKey = NotAKey
  NoCredential = NoCredential
  Grants <- MCGrants
  Claims <- MCClaims
  Commands = {c1, c2}
  Requests = {r1, r2}
  RequireAuth = FALSE
  Idle = Idle
INVARIANTS
  UnpinnedKeysLeaveRoom

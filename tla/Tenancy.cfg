SPECIFICATION Spec
CONSTANTS
  t1 = t1
  t2 = t2
  alice = alice
  bob = bob
  office = office
  item = item
  folded = folded
  s = s
  Tenants <- MCTenants
  Owners <- MCOwners
  Sessions <- MCSessions
  Subtasks <- MCSubtasks
  Ids <- MCIds
  Blank = Blank
  Absent = Absent
  NoItem = NoItem
  NoSubtask = NoSubtask
  Idle = Idle
  Keep = Keep
  Never <- MCNever
  Principals <- MCPrincipals
  Drafts <- MCDrafts
  SummaryIds <- MCSummaryIds
  Edits <- MCEdits
  Editors = {}
  Readers = {}
  MaxWrites = 2
  Horizon = 1
INVARIANTS
  ContentLivesAtHome
  WriteAuditNamesStoredItem
PROPERTIES
  ErasurePromise
  ForgetErasesContent
  TenantBoundary
  ReachOfUnprivileged
  GlobalOnlyByPublishers

SPECIFICATION Spec
CONSTANTS
  t1 = t1
  t2 = t2
  alice = alice
  bob = bob
  office = office
  item = item
  folded = folded
  s = s
  Tenants <- MCTenants
  Owners <- MCOwners
  Sessions <- MCSessions
  Subtasks <- MCSubtasks
  Ids <- OneId
  Blank = Blank
  Absent = Absent
  NoItem = NoItem
  NoSubtask = NoSubtask
  Idle = Idle
  Keep = Keep
  Never <- MCNever
  Principals <- Administrators
  Drafts <- ThreadDrafts
  SummaryIds <- MCSummaryIds
  Edits <- MCEdits
  Editors = {w1}
  Readers = {r1}
  MaxWrites = 1
  Horizon = 1
INVARIANTS
  WriteAuditNamesStoredItem
PROPERTIES
  GlobalOnlyByPublishers

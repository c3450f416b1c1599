SPECIFICATION Spec
CONSTANTS
  t = t
  alice = alice
  a = a
  f = f
  g = g
  s = s
  Tenants <- MCTenants
  Owners <- MCOwners
  Sessions <- MCSessions
  Subtasks <- MCSubtasks
  Ids <- Refolding
  Blank = Blank
  Absent = Absent
  NoItem = NoItem
  NoSubtask = NoSubtask
  Idle = Idle
  Keep = Keep
  Never <- MCNever
  Principals <- MCPrincipals
  Drafts <- MCDrafts
  SummaryIds <- MCSummaryIds
  Edits <- MCEdits
  Editors = {w1}
  Readers = {}
  MaxWrites = 2
  Horizon = 0
PROPERTIES
  DerivedInvalidatedWithSource

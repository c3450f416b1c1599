SPECIFICATION Spec
CONSTANTS
  server = server
  command1 = command1
  command2 = command2
  Server = server
  Commands = {command1}
  NoOne = NoOne
  Jobs <- MCJobs
  MaxOperations = 1
INVARIANTS
  AcknowledgedIsDurable

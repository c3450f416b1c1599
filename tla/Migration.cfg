SPECIFICATION Spec
CONSTANTS
  Processes = {server, command}
  NoOne = NoOne
  Ids = {a, b}
  Named = {t}
  Default = Default
  Blank = Blank
  Absent = Absent
  MaxKills = 2
INVARIANTS
  TypeOK
  RowsSurvive
  OpenMeansCurrent
PROPERTIES
  BecomesCurrent

\* 3 candidates to pack, or 3 items to solve with additions of one item.
SPECIFICATION Spec
CONSTANTS
  x = x
  y = y
  i1 = i1
  i2 = i2
  i3 = i3
  src = src
  Size = 3
  Shapes <- MCShapes
  KeyLists <- MCKeyLists
  Query <- MCQuery
  Unit = 4
  Budgets = {3, 7}
  Floors <- MCFloors
  Selections = {"coverage", "rank"}
  Items <- MCItems
  Sources = {src}
  Facts <- MCQuery
  Instances <- MCInstances
  MaxBundle = 1
INVARIANTS
  PackTypeOK
  AnswerIsThePack
  ThirdOfOptimum
  NoRoomForLeftOut
  SolveTypeOK
  NoBundleBeatsAnswer
  ChainsEnterWhole
CHECK_DEADLOCK FALSE

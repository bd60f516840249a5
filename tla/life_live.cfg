SPECIFICATION FairSpec
CONSTANTS
  Null = Null
  NumTargets = 1
  Pdos = {p1, p2}
  Activities = {"migrate"}
  Failures = {"power", "register"}
PROPERTIES
  VanishedGo
  NewAppear
  DestroyEnds
CHECK_DEADLOCK FALSE

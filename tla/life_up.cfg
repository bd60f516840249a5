SPECIFICATION Spec
CONSTANTS
  Null = Null
  NumTargets = 1
  Pdos = {p1, p2}
  Activities = {"io", "power", "remove", "stop"}
  Failures = {"create"}
INVARIANTS
  ReferencesSound
  AssertsHold
  PowerSettles
  TargetsFollow
  InterfacesHeld
CHECK_DEADLOCK FALSE

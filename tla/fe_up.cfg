SPECIFICATION FairSpec
CONSTANTS
  MaxOrder = 1
  Failures = {"store", "pages", "pool", "grant", "evtchn"}
  Masked = {TRUE, FALSE}
  Detach = TRUE
  Bypass = TRUE
  Smp = FALSE
INVARIANTS
  AssertsHold
  ResourcesMatch
  ClosedMeansUnmapped
  PoweredMeansEnabled
PROPERTIES
  TransitionsEnd
  ChangesSeen

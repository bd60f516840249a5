SPECIFICATION FairFrontendSpec
CONSTANTS
  Disks = {d1, d2}
  MaxFailures = 2
INVARIANTS
  HandshakesSound
PROPERTIES
  ComesUp
  FreedRingUnmapped
CHECK_DEADLOCK FALSE

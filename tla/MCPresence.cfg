CONSTANTS
  s1 = s1
  s2 = s2
  s3 = s3
  Connections <- MCConnections
  OnlineTTL = 5
  Beat = 3
  MaxDelay = 1
  MaxFailures = 2
SYMMETRY MCSymmetry
SPECIFICATION PresenceSpec
INVARIANTS StaysOnline GhostGone

CONSTANTS
  m1 = m1
  m2 = m2
  m3 = m3
  n1 = n1
  Messages <- MCMessages
  Nodes <- MCNodes
  Buffer = 1
  MaxFaults = 1
SPECIFICATION FairSpec
INVARIANT InOrder
PROPERTIES Delivered Stops
CHECK_DEADLOCK FALSE

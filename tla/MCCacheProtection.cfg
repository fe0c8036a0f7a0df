CONSTANTS
  c1 = c1
  c2 = c2
  d1 = d1
  na = na
  nb = nb
  Calls <- MCCalls
  Nodes <- MCNodes
  node <- MCnode
  MaxWrites = 2
  Present <- MCPresent
  BaseTTL = 1
  MaxJitter = 1
  EmptyTTL = 1
  MaxFill = 1
  None = None
  Failed = Failed
  MaxFaults = 1
SPECIFICATION FairSpec
INVARIANTS TypeOK BoundedStaleness OneLoadPerMiss ErrorsExplained
PROPERTY CallsReturn
CHECK_DEADLOCK FALSE

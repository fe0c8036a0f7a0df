CONSTANTS
  g1 = g1
  g2 = g2
  p1 = p1
  p2 = p2
  p3 = p3
  Free = Free
  Generators = {g1, g2}
  Callers = {p1, p2, p3}
  home <- Home
  machineID <- MachineID
  Machines = 2
  MaxSequence = 1
  Epoch = 1
  MaxWait = 2
  MaxClock = 4
  MaxIDs = 3
  MaxJumps = 2
  MaxRestarts = 1
SPECIFICATION FairSpec
INVARIANTS
  TypeOK
  Unique
  Increasing
PROPERTIES
  SmallRollbackAbsorbed
  CallsReturn

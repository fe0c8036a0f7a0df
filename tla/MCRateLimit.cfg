CONSTANTS
  a = a
  b = b
  r1 = r1
  r2 = r2
  r3 = r3
  Addresses <- MCAddresses
  Requests <- MCRequests
  Rate = 1
  Burst = 1
  Idle = 2
  Period = 2
  MaxLapse = 1
  None = None
SYMMETRY MCSymmetry
SPECIFICATION Spec
INVARIANTS BurstBound NoLeak

CONSTANTS
  c1 = c1
  c2 = c2
  c3 = c3
  w1 = w1
  k1 = k1
  k2 = k2
  None = None
  Calls = {c1, c2, c3}
  NilCalls = {}
  Core = {w1}
  Closers = {k1, k2}
  MaxWorkers = 2
  QueueSize = 1
  RetryTimes = 1
SPECIFICATION Spec
SYMMETRY Symmetry
INVARIANTS
  WorkerAccounting
  CoreResident
  TaskConservation
  SubmittedAccounted
  GracefulClose

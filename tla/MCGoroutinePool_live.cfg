CONSTANTS
  c1 = c1
  c2 = c2
  c3 = c3
  w1 = w1
  k1 = k1
  k2 = k2
  None = None
  Calls = {c1, c2, c3}
  NilCalls = {c3}
  Core = {w1}
  Closers = {k1}
  MaxWorkers = 2
  QueueSize = 1
  RetryTimes = 1
SPECIFICATION FairSpec
PROPERTIES
  AcceptedRuns
  SubmitReturns
  ScalesBack
  ImplementsTaskPool

CONSTANTS
  r1 = r1
  r2 = r2
  r3 = r3
  l1 = l1
  n1 = n1
  n2 = n2
  a = a
  A = A
  p = p
  q = q
  s1 = s1
  s2 = s2
  Nobody = Nobody
  Requests = {r1, r2, r3}
  Blank = {r3}
  Logins = {}
  node <- Node
  email <- Email
  password <- Password
  shard <- ShardOf
  same <- IgnoreCase
  MaxFaults = 1
  MaxCancels = 1
SPECIFICATION FairSpec
PROPERTY
  RegisterReturns

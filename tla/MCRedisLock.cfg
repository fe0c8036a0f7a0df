CONSTANTS
  l1 = l1
  l2 = l2
  Free = Free
  Locks = {l1, l2}
  rounds <- Rounds
  Expire = 4
  Renew = 1
  MaxDelay = 1
  MaxFaults = 2
  Budgets <- Mixes
SPECIFICATION FairSpec
INVARIANTS
  TypeOK
  MutualExclusion
  ReleaseCertifies
PROPERTIES
  FirstUseExpires

CONSTANTS
  MaxVersion = 2
  Unusable <- MCUnusable
  TokenLife = 1
  Zero = Zero
  Partial = Partial
  Empty = Empty
SPECIFICATION FairSpec
INVARIANTS LockSettingsFit NeverEmpty TokenHonoured
PROPERTY Applied

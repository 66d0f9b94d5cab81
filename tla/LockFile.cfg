SPECIFICATION FairSpec
CONSTANTS
  p3 = p3  h1 = h1  h2 = h2
  Processes = {p1, p2, p3}
  Host <- MCHost
  NoFile = NoFile
  MaxCrashes = 1
  MaxErrors = 1
INVARIANTS NoLockLeak NoTempFileLeak
PROPERTY EveryProcessFinishes

CONSTANTS
  Chunks = {k0, k1}
  Calls = {u1}
  Replicas = {p1}
  MaxMishaps = 1
  MaxFinishes = 2
  MaxCron = 1
  MaxVer = 1
  Nothing = Nothing
SPECIFICATION FairSpec
INVARIANTS
  SourceKeptUntilFinal
  LinkPostedOnce
  LinkLeadsToFile
PROPERTY Settles
CHECK_DEADLOCK FALSE

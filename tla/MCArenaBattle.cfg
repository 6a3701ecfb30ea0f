CONSTANTS
  h1 = h1
  p1 = p1
  hal = hal
  pam = pam
  Accounts = {hal, pam}
  UserOf <- MCUserOf
  NoPlayer = NoPlayer
  NoUser = NoUser
  NoCall = NoCall
  NQ = 2
  MaxIndex = 2
  Sockets = {h1, p1}
  MaxBattles = 1
  Calls = {k1, k2}
SPECIFICATION FairSpec
INVARIANTS
  PointsOfQuestions
  HistoryOnce
PROPERTY FinishedIsRemoved
CHECK_DEADLOCK FALSE

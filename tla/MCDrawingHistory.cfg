CONSTANTS
  s1 = s1
  s2 = s2
  s3 = s3
  Ids = {s1, s2, s3}
  MaxStrokes = 2
  MaxPoints = 2
  MaxHistory = 2
SPECIFICATION DrawingSpec
INVARIANTS
  UniqueIds
  HistoryFits
PROPERTY ImplementsTimeline

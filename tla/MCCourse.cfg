CONSTANTS
  Requests = {r1, r2}
  MaxRequests = 2
  Author = author
  member = member
  outsider = outsider
  l1 = l1
  l2 = l2
  l3 = l3
  h1 = h1
  h2 = h2
  t1 = t1
  t2 = t2
  Users <- MCUsers
  LessonIds <- MCLessons
  HomeworkIds <- MCHomework
  TestIds <- MCTests
  Percents <- MCPercents
  Minimums <- MCMinimums
  MaxScores <- MCMaxScores
  Stars <- MCStars
  MaxCount = 2
  LessonLimit = 2
  HomeworkLimit = 1
  NoteLimit = 1
  Scenarios <- MCScenarios
  Nobody = Nobody
SPECIFICATION Spec
SYMMETRY Symmetry
INVARIANTS
  OneEntryPerUser
  PassedMeansReached
  RatingOfReviews
  TraceNeedsAccess
PROPERTY SoloRequestStored
CHECK_DEADLOCK FALSE

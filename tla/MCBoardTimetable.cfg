\* The catalogue cache against a load that overlaps CreateLesson.
SPECIFICATION FairSpec
CONSTANTS
  r1 = r1  r2 = r2  l1 = l1  l2 = l2
  Sched = Sched
  None = None
  Requests <- TwoRequests
  Handlers <- TimetableAndLesson
  Lessons <- TwoLessons
  Clash <- BothClash
  MaxFailures = 0
PROPERTY
  TimetableConverges

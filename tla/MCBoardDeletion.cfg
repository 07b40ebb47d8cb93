\* DeleteOverride when the queries for its building fail.
SPECIFICATION Spec
CONSTANTS
  r1 = r1  r2 = r2  l1 = l1  l2 = l2
  Sched = Sched
  None = None
  Requests <- TwoRequests
  Handlers <- OnlyDeleteOverride
  Lessons <- TwoLessons
  Clash <- BothClash
  MaxFailures = 0
INVARIANT
  DeletionIsTold

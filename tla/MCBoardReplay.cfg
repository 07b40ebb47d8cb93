\* The snapshot kept for new subscribers against an events handler that publishes late.
SPECIFICATION Spec
CONSTANTS
  r1 = r1  r2 = r2  l1 = l1  l2 = l2
  Sched = Sched
  None = None
  Requests <- TwoRequests
  Handlers <- EventsAndOverride
  Lessons <- TwoLessons
  Clash <- BothClash
  MaxFailures = 0
INVARIANT
  ReplayIsCurrent

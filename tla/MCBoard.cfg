\* Every handler but the travelling one, two requests, one lesson, one failure.
SPECIFICATION FairSpec
CONSTANTS
  r1 = r1  r2 = r2  l1 = l1  l2 = l2
  Sched = Sched
  None = None
  Requests <- TwoRequests
  Handlers <- AllButMoments
  Lessons = {l1}
  Clash = {}
  MaxFailures = 1
INVARIANTS
  TypeOK
  NoLostWakeup
PROPERTIES
  ReplayConverges
  LiveConverges

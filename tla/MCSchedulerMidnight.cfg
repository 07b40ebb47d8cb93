SPECIFICATION Spec
CONSTANTS
  r1 = r1
  r2 = r2
  t1 = t1
  Never = Never
  Rooms = {r1, r2}
  Schedulable = {r1, r2}
  SoonWindow = 2
  EndingWindow = 1
  NextHorizon = 4
  Dates <- MCDates
  DateIn <- MCDateIn
  Midnight <- MCMidnight
  MaxTime = 23
  MaxLag = 1
  Timelines <- MCTimelines
  MaxSleep = 5
  MinWait = 1
  MaxBackoff = 2
INVARIANTS
  MidnightIsNoticed
CHECK_DEADLOCK FALSE

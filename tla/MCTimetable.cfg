SPECIFICATION Spec
CONSTANTS
  r1 = r1
  r2 = r2
  lobby = lobby
  other = other
  t1 = t1
  t2 = t2
  Never = Never
  Rooms = {r1, r2, lobby}
  Schedulable = {r1, r2}
  OtherRooms = {other}
  Teachers = {t1, t2}
  Slots <- MCSlots
  Semester <- MCSemester
  Midnight <- MCMidnight
  Templates <- MCTemplates
  Delays = {15, 60}
  Days <- MCDays
  EditDates = {9}
  MaxOverrides = 3
  MaxCreated = 3
INVARIANTS
  TypeOK
  SessionsAsPromised
  UntouchedNeverClash
  FoundInItsRoom
  WeeksAreWhole
CHECK_DEADLOCK FALSE

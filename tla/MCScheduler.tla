---------------------------- MODULE MCScheduler -----------------------------
(***************************************************************************)
(* Two short days of one building.  The timelines the scheduler meets are  *)
(* those the engine builds from two or three lessons and their overrides.  *)
(***************************************************************************)
EXTENDS Scheduler, TLC

CONSTANTS r1, r2, t1

DayLength == 12
MCDates   == {0, 1}
MCDateIn(t)   == t \div DayLength
MCMidnight(d) == d * DayLength

MCSlots    == 1 :> [start |-> 2, end |-> 4] @@ 2 :> [start |-> 5, end |-> 8]
MCSemester == [first |-> 0, last |-> 1, parity |-> "odd"]

Day == INSTANCE Timeline WITH
         Teachers <- {t1}, Slots <- MCSlots, Semester <- MCSemester,
         Midnight <- MCMidnight

Lesson(id, weekday, slot, room) ==
  [id |-> id, weekday |-> weekday, parity |-> "all", slot |-> slot, room |-> room,
   teacher |-> t1]

Lessons ==
  {Lesson(1, 1, 1, r1), Lesson(2, 1, 2, r1), Lesson(3, 1, 2, r2), Lesson(4, 2, 1, r2)}

Change(kind, d, lesson, room, delay) ==
  [id |-> 100, kind |-> kind, date |-> d, lesson |-> lesson, room |-> room,
   teacher |-> t1, delay |-> delay, slot |-> 1]

\* Nothing, one change, or two that overlap in room r1.
Plans ==
  0 :> {<<>>,
        <<Change("cancel", 0, 1, Never, 0)>>,
        <<Change("extra", 0, Never, r1, 0)>>,
        <<Change("move", 0, 3, r1, 0), Change("delay", 0, 1, Never, 8)>>}
  @@ 1 :> {<<>>, <<Change("delay", 1, 4, Never, 2)>>}

MCTimelines == [d \in MCDates |-> {Day!BuildDayTimeline(d, Lessons, p) : p \in Plans[d]}]

ASSUME MCThresholds == ThresholdsFit
=============================================================================

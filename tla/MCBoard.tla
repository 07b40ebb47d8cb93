------------------------------ MODULE MCBoard ------------------------------
(* Small instances of Board. *)
EXTENDS Board

CONSTANTS r1, r2, l1, l2

TwoRequests == {r1, r2}
TwoLessons == {l1, l2}
BothClash == {<<l1, l2>>, <<l2, l1>>}

\* Without GET board of another moment, which touches of the shared state only
\* the catalogue, as the list of lessons does.
AllButMoments == AllHandlers \ {"boardAt"}
EventsAndOverride  == {"events", "createOverride"}
TimetableAndLesson == {"timetable", "createLesson"}
OnlyCreateLesson   == {"createLesson"}
OnlyDeleteOverride == {"deleteOverride"}
=============================================================================

------------------------------ MODULE Timeline ------------------------------
(***************************************************************************)
(* The other half of the engine: BuildDayTimeline materialises the         *)
(* sessions of one date from weekly lesson templates and the overrides of  *)
(* that date.  Dates are integers, 0 being a Monday.                       *)
(***************************************************************************)
EXTENDS Integers, Sequences, SequencesExt

CONSTANTS
  Rooms,         \* rooms in the building's catalogue
  Teachers,      \* teachers in the catalogue
  Slots,         \* Slots[i]: start and end, in minutes since midnight
  Semester,      \* its first and last date and the parity of its first week
  Midnight(_),   \* the instant a date begins
  Never          \* nil

ASSUME TimelineAssumption ==
  /\ Semester.first \in Int /\ Semester.last \in Int
  /\ Semester.parity \in {"odd", "even"}
  /\ \A i \in DOMAIN Slots : Slots[i].start \in Nat /\ Slots[i].end \in Nat

\* A lesson has an id, weekday, parity, slot, room and teacher; an override an
\* id, kind and date and the fields of its kind, the others being Never.  IDs
\* are ranks: "x:..." puts the sessions of extras after those of lessons.
-----------------------------------------------------------------------------
(***************************************************************************)
(* The calendar: WeekInfo and the filter on templates.                     *)
(***************************************************************************)
Weekday(d)    == (d % 7) + 1
InSemester(d) == Semester.first <= d /\ d <= Semester.last
Flip(parity)  == IF parity = "odd" THEN "even" ELSE "odd"

\* Variant of Week: counted from the first day of the semester.
WeekFromStart(d) == ((d - Semester.first) \div 7) + 1

Week(d) == ((d - (Semester.first - (Weekday(Semester.first) - 1))) \div 7) + 1

WeekParity(d) ==
  IF InSemester(d) /\ Week(d) % 2 = 0 THEN Flip(Semester.parity) ELSE Semester.parity

Resolves(room, teacher, slot) ==
  room \in Rooms /\ teacher \in Teachers /\ slot \in DOMAIN Slots

Occurs(l, d) ==
  /\ InSemester(d)
  /\ l.weekday = Weekday(d)
  /\ l.parity \in {"all", WeekParity(d)}
  /\ Resolves(l.room, l.teacher, l.slot)
-----------------------------------------------------------------------------
(***************************************************************************)
(* One session: its template, then every override of its lesson on that    *)
(* date in the order they were created.                                    *)
(***************************************************************************)
SessionOf(id, room, teacher, slot, d, status) ==
  [id |-> id, room |-> room, teacher |-> teacher, status |-> status,
   start |-> Midnight(d) + Slots[slot].start, end |-> Midnight(d) + Slots[slot].end,
   movedFrom |-> Never, delay |-> 0, conflict |-> FALSE]

Unless(s, status) == IF s.status = "cancelled" THEN s.status ELSE status

\* Variant of Moved: the room of the last move but one is kept as the origin.
MovedAgain(s, room) ==
  [s EXCEPT !.movedFrom = s.room,
            !.room = room, !.status = Unless(s, "moved")]

Moved(s, room) ==
  [s EXCEPT !.movedFrom = IF s.movedFrom = Never THEN s.room ELSE s.movedFrom,
            !.room = room, !.status = Unless(s, "moved")]

\* Variant of Delayed: a delay brings a cancelled session back.
DelayedAlive(s, d) ==
  [s EXCEPT !.start = @ + d, !.end = @ + d, !.delay = @ + d, !.status = "delayed"]

Delayed(s, d) ==
  [s EXCEPT !.start = @ + d, !.end = @ + d, !.delay = @ + d,
            !.status = Unless(s, "delayed")]

Applied(s, o) ==
  CASE o.kind = "cancel" -> [s EXCEPT !.status = "cancelled"]
    [] o.kind = "move" /\ o.room \in Rooms -> Moved(s, o.room)
    [] o.kind = "delay" /\ o.delay > 0 -> Delayed(s, o.delay)
    [] o.kind = "reassign_teacher" /\ o.teacher \in Teachers ->
         [s EXCEPT !.teacher = o.teacher]
    [] OTHER -> s

\* byLesson: the overrides of a lesson on a date, extras apart.
OfLesson(o, l, d) == o.kind # "extra" /\ o.lesson = l.id /\ o.date = d

\* The session as it is after the first i overrides of the day.
Stages(l, d, overrides) ==
  LET after[i \in 0 .. Len(overrides)] ==
        IF i = 0 THEN SessionOf(l.id, l.room, l.teacher, l.slot, d, "scheduled")
        ELSE IF OfLesson(overrides[i], l, d) THEN Applied(after[i - 1], overrides[i])
        ELSE after[i - 1]
  IN  after

Materialised(l, d, overrides) == Stages(l, d, overrides)[Len(overrides)]

Extras(d, overrides) ==
  {SessionOf(o.id, o.room, o.teacher, o.slot, d, "extra") :
     o \in {x \in ToSet(overrides) : /\ x.kind = "extra" /\ x.date = d
                                     /\ Resolves(x.room, x.teacher, x.slot)}}
-----------------------------------------------------------------------------
(***************************************************************************)
(* markConflicts and the whole day.                                        *)
(***************************************************************************)
Overlap(s, u) == s.start < u.end /\ u.start < s.end

Clash(s, u) ==
  /\ s.id # u.id /\ s.room = u.room /\ Overlap(s, u)
  /\ s.status # "cancelled" /\ u.status # "cancelled"

WithConflicts(S) == {[s EXCEPT !.conflict = \E u \in S : Clash(s, u)] : s \in S}

BuildDayTimeline(d, lessons, overrides) ==
  WithConflicts({Materialised(l, d, overrides) : l \in {x \in lessons : Occurs(x, d)}}
                  \cup Extras(d, overrides))
=============================================================================

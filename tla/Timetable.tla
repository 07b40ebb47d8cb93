----------------------------- MODULE Timetable ------------------------------
(***************************************************************************)
(* The timetable as administrators edit it: weekly lessons behind the      *)
(* double-booking check of CreateLesson, point overrides behind the        *)
(* validation of CreateOverride, and the timeline of the day they give.    *)
(* Each request is one step here; module Board has their interleavings.    *)
(***************************************************************************)
EXTENDS Timeline, FiniteSetsExt

CONSTANTS
  Templates,     \* lessons an administrator may ask for
  Schedulable,   \* rooms lessons may be put in
  OtherRooms,    \* such rooms of other buildings
  Delays,        \* delays asked for, within 1..180
  Days,          \* the dates that are looked at
  EditDates,     \* the dates overrides are made for
  MaxOverrides,  \* bound on the overrides stored at a time
  MaxCreated     \* bound on the overrides ever created

ASSUME TimetableAssumption ==
  /\ Delays \subseteq 1 .. 180
  /\ Schedulable \subseteq Rooms
  /\ \A l \in Templates : l.room \in Schedulable
  /\ MaxOverrides \in Nat /\ MaxCreated \in Nat
  /\ OtherRooms \cap Rooms = {} /\ Never \notin Rooms \cup OtherRooms
  /\ Days \subseteq Int /\ \A d \in Days : Midnight(d) \in Int

\* The slots are written by the seed alone: lessons of one after the other.
ASSUME SlotsAssumption ==
  /\ \A i \in DOMAIN Slots : Slots[i].start < Slots[i].end
  /\ \A i, j \in DOMAIN Slots :
       i # j => Slots[i].end <= Slots[j].start \/ Slots[j].end <= Slots[i].start

VARIABLES
  today,      \* the date on the board
  lessons,    \* lessons
  overrides,  \* session_overrides, by created_at
  created     \* how many overrides were ever created: the next one's ID

vars == <<today, lessons, overrides, created>>

Init ==
  /\ today \in Days
  /\ lessons = {}
  /\ overrides = <<>>
  /\ created = 0
-----------------------------------------------------------------------------
\* Variant of ParityOverlap: "all" is compared like any other parity.
ParityEqual(p, q) == p = q

ParityOverlap(p, q) == p = "all" \/ q = "all" \/ p = q

DoubleBooked(l) ==
  \E x \in lessons :
    /\ x.weekday = l.weekday /\ x.slot = l.slot
    /\ ParityOverlap(x.parity, l.parity)
    /\ x.room = l.room \/ x.teacher = l.teacher

CreateLesson(l) ==
  /\ l \notin lessons
  /\ ~DoubleBooked(l)
  /\ lessons' = lessons \cup {l}
  /\ UNCHANGED <<today, overrides, created>>

\* Variant of DeleteLesson: its overrides stay behind.
DeleteLessonOnly(l) ==
  /\ lessons' = lessons \ {l}
  /\ UNCHANGED <<today, overrides, created>>

\* What is left of the first i overrides without those of a lesson.
Left(l) ==
  LET left[i \in 0 .. Len(overrides)] ==
        IF i = 0 THEN <<>>
        ELSE IF overrides[i].lesson = l.id THEN left[i - 1]
        ELSE Append(left[i - 1], overrides[i])
  IN  left

\* The lesson's overrides go with it (on delete cascade).
DeleteLesson(l) ==
  /\ lessons' = lessons \ {l}
  /\ overrides' = Left(l)[Len(overrides)]
  /\ UNCHANGED <<today, created>>
-----------------------------------------------------------------------------
Override(kind, d, lesson) ==
  [id |-> 100 + created, kind |-> kind, date |-> d, lesson |-> lesson, room |-> Never,
   teacher |-> Never, delay |-> 0, slot |-> Never]

\* The overrides that pass CreateOverride's validation.
Cancels   == {Override("cancel", d, l.id) : d \in EditDates, l \in lessons}
Moves     == {[Override("move", d, l.id) EXCEPT !.room = r] :
                d \in EditDates, l \in lessons, r \in Schedulable \cup OtherRooms}
Postpones == {[Override("delay", d, l.id) EXCEPT !.delay = m] :
                d \in EditDates, l \in lessons, m \in Delays}
Reassigns == {[Override("reassign_teacher", d, l.id) EXCEPT !.teacher = t] :
                d \in EditDates, l \in lessons, t \in Teachers}
Extra(d, r, t, i) ==
  [Override("extra", d, Never) EXCEPT !.room = r, !.teacher = t, !.slot = i]
ExtraOnes == {Extra(d, r, t, i) :
                d \in EditDates, r \in Rooms, t \in Teachers, i \in DOMAIN Slots}

CreateOverride(o) ==
  /\ Len(overrides) < MaxOverrides /\ created < MaxCreated
  /\ overrides' = Append(overrides, o)
  /\ created' = created + 1
  /\ UNCHANGED <<today, lessons>>

DeleteOverride(i) ==
  /\ overrides' = RemoveAt(overrides, i)
  /\ UNCHANGED <<today, lessons, created>>

NextDay ==
  /\ today + 1 \in Days
  /\ today' = today + 1
  /\ UNCHANGED <<lessons, overrides, created>>

Next ==
  \/ \E l \in Templates : CreateLesson(l)
  \/ \E l \in lessons : DeleteLesson(l)
  \/ \E o \in Cancels \cup Moves \cup Postpones \cup Reassigns \cup ExtraOnes :
       CreateOverride(o)
  \/ \E i \in DOMAIN overrides : DeleteOverride(i)
  \/ NextDay

Spec == Init /\ [][Next]_vars
-----------------------------------------------------------------------------
Sessions == BuildDayTimeline(today, lessons, overrides)

\* What is stored and what the engine makes of it are well formed: an override
\* of a lesson has its lesson, and a session ends after it starts.
TypeOK ==
  /\ today \in Days /\ created \in 0 .. MaxCreated
  /\ lessons \subseteq Templates
  /\ \A i \in DOMAIN overrides :
       /\ overrides[i].date \in EditDates
       /\ overrides[i].kind # "extra" => \E l \in lessons : l.id = overrides[i].lesson
  /\ \A s \in Sessions : s.room \in Rooms /\ s.teacher \in Teachers /\ s.start < s.end

(***************************************************************************)
(* What the first n overrides add up to for a lesson on the date shown:    *)
(* any cancel wins, delays add up, and of moves and of new teachers the    *)
(* last one counts.  A move to another building counts for nothing.        *)
(***************************************************************************)
Asked(l, kinds, n) ==
  {i \in 1 .. n : /\ OfLesson(overrides[i], l, today) /\ overrides[i].kind \in kinds
                  /\ overrides[i].room \notin OtherRooms}

LastAsked(l, kinds, n) == IF Asked(l, kinds, n) = {} THEN 0 ELSE Max(Asked(l, kinds, n))

Late(l) ==
  LET late[n \in 0 .. Len(overrides)] ==
        IF n = 0 THEN 0
        ELSE late[n - 1] + (IF n \in Asked(l, {"delay"}, n) THEN overrides[n].delay ELSE 0)
  IN  late

IsPromised(s, l, n) ==
  LET moved    == LastAsked(l, {"move"}, n)
      replaced == LastAsked(l, {"reassign_teacher"}, n)
      changed  == LastAsked(l, {"move", "delay"}, n)
  IN  /\ s.id = l.id
      /\ s.room = IF moved = 0 THEN l.room ELSE overrides[moved].room
      /\ s.teacher = IF replaced = 0 THEN l.teacher ELSE overrides[replaced].teacher
      /\ s.start = Midnight(today) + Slots[l.slot].start + Late(l)[n]
      /\ s.end = Midnight(today) + Slots[l.slot].end + Late(l)[n]
      /\ s.status = IF Asked(l, {"cancel"}, n) # {} THEN "cancelled"
                    ELSE IF changed = 0 THEN "scheduled"
                    ELSE IF overrides[changed].kind = "move" THEN "moved" ELSE "delayed"

\* Applying a lesson's overrides one after the other, which is what the board
\* shows, gives the session that an administrator reading them would expect.
SessionsAsPromised ==
  \A l \in {x \in lessons : Occurs(x, today)} :
    \E s \in Sessions : IsPromised(s, l, Len(overrides))

\* The double-booking check of CreateLesson is enough: lessons that no override
\* has touched never clash on the board, and no teacher has two at a time.
UntouchedNeverClash ==
  \A s, u \in {x \in Sessions : x.status = "scheduled"} :
    s.id # u.id /\ Overlap(s, u) =>
      /\ s.room # u.room
      /\ s.teacher = u.teacher =>
           \E i \in DOMAIN overrides : overrides[i].kind = "reassign_teacher"

\* RoomDay: the sessions listed for a room.
RoomDay(r) == {s \in Sessions : s.room = r \/ s.movedFrom = r}

\* However often a session is moved, both the list of the room in the weekly
\* timetable and the list of the room it ends up in show it.
FoundInItsRoom ==
  \A l \in {x \in lessons : Occurs(x, today)} :
    /\ \E s \in RoomDay(l.room) : s.id = l.id
    /\ \A s \in Sessions : s.id = l.id => s \in RoomDay(s.room)

\* A calendar week of the semester has one parity from Monday to Sunday, and
\* the next week has the other, on whichever weekday the semester starts.
WeeksAreWhole ==
  \A d \in Days :
    InSemester(d) /\ InSemester(today) =>
      ((WeekParity(d) = WeekParity(today))
         <=> ((d \div 7) % 2 = (today \div 7) % 2))
=============================================================================

---------------------------- MODULE MCTimetable -----------------------------
(***************************************************************************)
(* A semester that starts on a Wednesday and is looked at for three weeks. *)
(***************************************************************************)
EXTENDS Timetable

CONSTANTS r1, r2, lobby, other, t1, t2

MCSlots    == 1 :> [start |-> 480, end |-> 530] @@ 2 :> [start |-> 540, end |-> 590]
MCSemester == [first |-> 2, last |-> 16, parity |-> "odd"]
MCMidnight(d) == 1440 * d

Template(id, weekday, parity, slot, room, teacher) ==
  [id |-> id, weekday |-> weekday, parity |-> parity, slot |-> slot, room |-> room,
   teacher |-> teacher]

MCTemplates ==
  {Template(1, 3, "all", 1, r1, t1), Template(2, 3, "odd", 1, r1, t2),
   Template(3, 3, "even", 1, r2, t1)}

MCDays == {2, 3, 7, 9, 16}
=============================================================================

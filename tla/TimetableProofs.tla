-------------------------- MODULE TimetableProofs --------------------------
(***************************************************************************)
(* The weekly timetable, for any semester, slots, lessons and overrides:   *)
(* the weeks alternate, the double-booking check keeps lessons apart that  *)
(* no override touched, and a session is found in the lists of its rooms.  *)
(***************************************************************************)
EXTENDS Timetable, SequenceTheorems, TLAPS
WF == INSTANCE WellFoundedInduction

-----------------------------------------------------------------------------
(* The calendar. *)

\* The weeks are counted from the Monday at or before the first day.
LEMMA WeekOfMonday ==
  ASSUME NEW d \in Int
  PROVE  Week(d) = d \div 7 - Semester.first \div 7 + 1
  BY TimelineAssumption DEF Week, Weekday

LEMMA SameParity ==
  ASSUME NEW c \in Int, NEW d \in Int, InSemester(c), InSemester(d)
  PROVE  (WeekParity(c) = WeekParity(d)) <=> ((c \div 7) % 2 = (d \div 7) % 2)
<1> DEFINE m == Semester.first \div 7
           x == c \div 7
           y == d \div 7
<1>1. m \in Int /\ x \in Int /\ y \in Int
  BY TimelineAssumption
<1>2. Week(c) = x - m + 1 /\ Week(d) = y - m + 1
  BY WeekOfMonday
<1>3. Flip(Semester.parity) # Semester.parity
  BY TimelineAssumption DEF Flip
<1>4. (WeekParity(c) = WeekParity(d)) <=> ((Week(c) % 2 = 0) <=> (Week(d) % 2 = 0))
  BY <1>3 DEF WeekParity
<1> HIDE DEF m, x, y
<1>5. ((x - m + 1) % 2 = 0 <=> (y - m + 1) % 2 = 0) <=> x % 2 = y % 2
  BY <1>1
<1> QED
  BY <1>2, <1>4, <1>5 DEF x, y

-----------------------------------------------------------------------------
(* What goes through the overrides one by one, in order. *)

LEMMA LeastNat ==
  ASSUME NEW T \in SUBSET Nat, NEW t \in T
  PROVE  \E n \in T : \A m \in T : n <= m
<1> DEFINE R == {p \in Nat \X Nat : p[1] < p[2]}
<1>1. WF!IsWellFoundedOn(R, Nat)
  BY WF!NatLessThanWellFounded DEF WF!OpToRel
<1>2. PICK n \in T : \A m \in T : ~ (<<m, n>> \in R)
  <2> HIDE DEF R
  <2> QED
    BY <1>1, WF!WFMin
<1>3. ASSUME NEW m \in T PROVE n <= m
  <2>1. m \in Nat /\ n \in Nat
    BY <1>2
  <2>2. ~ (m < n)
    BY <1>2, <2>1
  <2> QED
    BY <2>1, <2>2
<1> QED
  BY <1>3

\* The stages of a session start with its template and follow one another.
LEMMA StagesFollow ==
  ASSUME NEW l, NEW d, NEW overs, Len(overs) \in Nat
  PROVE  LET f == Stages(l, d, overs) IN
         /\ f[0] = SessionOf(l.id, l.room, l.teacher, l.slot, d, "scheduled")
         /\ \A i \in 1 .. Len(overs) :
              f[i] = IF OfLesson(overs[i], l, d) THEN Applied(f[i - 1], overs[i]) ELSE f[i - 1]
<1> DEFINE start == SessionOf(l.id, l.room, l.teacher, l.slot, d, "scheduled")
           Step(s, i) == IF OfLesson(overs[i], l, d) THEN Applied(s, overs[i]) ELSE s
           Rule(g, k) == g = [i \in 0 .. k |-> IF i = 0 THEN start ELSE Step(g[i - 1], i)]
           f == Stages(l, d, overs)
           T == {k \in Nat : ~ \E g : Rule(g, k)}
<1>1. f = CHOOSE g : Rule(g, Len(overs))
  BY DEF Stages
<1> HIDE DEF start, Step, f
<1>2. ASSUME NEW k \in T, \A m \in T : k <= m PROVE FALSE
  <2>1. CASE k = 0
    <3> DEFINE g == [i \in 0 .. 0 |-> start]
    <3>1. Rule(g, 0)
      OBVIOUS
    <3> HIDE DEF g
    <3> QED
      BY <2>1, <3>1
  <2>2. CASE k # 0
    <3>1. k - 1 \in Nat /\ k - 1 \notin T
      <4>1. k \in Nat
        OBVIOUS
      <4> HIDE DEF T
      <4> QED
        BY <1>2, <2>2, <4>1
    <3>2. PICK g : Rule(g, k - 1)
      BY <3>1
    <3> DEFINE h == [i \in 0 .. k |-> IF i = k THEN Step(g[k - 1], k) ELSE g[i]]
    <3>3. \A i \in 0 .. k : h[i] = IF i = 0 THEN start ELSE Step(h[i - 1], i)
      <4>1. ASSUME NEW i \in 0 .. k - 1 PROVE h[i] = g[i]
        <5>1. k \in Nat /\ i \in 0 .. k /\ i # k
          BY <3>1
        <5> QED
          BY <5>1
      <4>2. ASSUME NEW i \in 0 .. k - 1 PROVE g[i] = IF i = 0 THEN start ELSE Step(g[i - 1], i)
        BY <3>2
      <4>3. h[k] = Step(g[k - 1], k)
        OBVIOUS
      <4> HIDE DEF h, Rule
      <4>4. ASSUME NEW i \in 0 .. k PROVE h[i] = IF i = 0 THEN start ELSE Step(h[i - 1], i)
        <5>1. CASE i = k
          BY <2>2, <3>1, <4>1, <4>3, <5>1
        <5>2. CASE i # k
          <6>1. i \in 0 .. k - 1 /\ (i # 0 => i - 1 \in 0 .. k - 1)
            BY <5>2
          <6> QED
            BY <4>1, <4>2, <6>1
        <5> QED
          BY <5>1, <5>2
      <4> QED
        BY <4>4
    <3>4. Rule(h, k)
      BY <3>3
    <3> QED
      BY <3>4
  <2> QED
    BY <2>1, <2>2
<1>3. \E g : Rule(g, Len(overs))
  <2> HIDE DEF Rule
  <2> QED
    BY <1>2, LeastNat
<1>4. Rule(f, Len(overs))
  <2> HIDE DEF Rule
  <2> QED
    BY <1>1, <1>3
<1>5. /\ f[0] = start
      /\ \A i \in 1 .. Len(overs) : f[i] = Step(f[i - 1], i)
  BY <1>4
<1> QED
  BY <1>5 DEF start, Step, f

-----------------------------------------------------------------------------
(* The session of a lesson. *)

\* What overrides may make of a lesson's session on a date.
IsSessionOf(s, l, d, overs) ==
  /\ s = [id |-> l.id, room |-> s.room, teacher |-> s.teacher, status |-> s.status,
          start |-> s.start, end |-> s.end, movedFrom |-> s.movedFrom, delay |-> s.delay,
          conflict |-> FALSE]
  /\ s.room \in Rooms /\ s.teacher \in Teachers
  /\ s.start \in Int /\ s.end \in Int /\ s.start < s.end
  /\ IF s.movedFrom = Never THEN s.room = l.room ELSE s.movedFrom = l.room
  /\ s.status = "scheduled" => /\ s.room = l.room
                               /\ s.start = Midnight(d) + Slots[l.slot].start
                               /\ s.end = Midnight(d) + Slots[l.slot].end
  /\ (\A i \in DOMAIN overs : overs[i].kind # "reassign_teacher") => s.teacher = l.teacher

\* A session made of parts that fit.
Parts(l, room, teacher, status, start, end, from, delay) ==
  [id |-> l.id, room |-> room, teacher |-> teacher, status |-> status, start |-> start,
   end |-> end, movedFrom |-> from, delay |-> delay, conflict |-> FALSE]

Fit(l, d, overs, room, teacher, status, start, end, from) ==
  /\ room \in Rooms /\ teacher \in Teachers
  /\ start \in Int /\ end \in Int /\ start < end
  /\ IF from = Never THEN room = l.room ELSE from = l.room
  /\ status = "scheduled" => /\ room = l.room
                             /\ start = Midnight(d) + Slots[l.slot].start
                             /\ end = Midnight(d) + Slots[l.slot].end
  /\ (\A i \in DOMAIN overs : overs[i].kind # "reassign_teacher") => teacher = l.teacher

LEMMA PartsFit ==
  ASSUME NEW l, NEW d, NEW overs, NEW room, NEW teacher, NEW status, NEW start, NEW end,
         NEW from, NEW delay, Fit(l, d, overs, room, teacher, status, start, end, from)
  PROVE  IsSessionOf(Parts(l, room, teacher, status, start, end, from, delay), l, d, overs)
<1> DEFINE s == Parts(l, room, teacher, status, start, end, from, delay)
<1>1. /\ s.room = room /\ s.teacher = teacher /\ s.status = status /\ s.start = start
      /\ s.end = end /\ s.movedFrom = from /\ s.delay = delay
  BY DEF Parts
<1>2. s = Parts(l, s.room, s.teacher, s.status, s.start, s.end, s.movedFrom, s.delay)
  BY <1>1
<1> HIDE DEF s
<1>3. s = [id |-> l.id, room |-> s.room, teacher |-> s.teacher, status |-> s.status,
           start |-> s.start, end |-> s.end, movedFrom |-> s.movedFrom, delay |-> s.delay,
           conflict |-> FALSE]
  BY <1>2 DEF Parts
<1> QED
  BY <1>1, <1>3 DEF IsSessionOf, Fit, s

LEMMA AppliedKeeps ==
  ASSUME NEW l, l.room \in Rooms, NEW d, NEW overs, NEW s, IsSessionOf(s, l, d, overs),
         NEW i \in DOMAIN overs, overs[i].delay \in Int
  PROVE  IsSessionOf(Applied(s, overs[i]), l, d, overs)
<1> DEFINE o == overs[i]
           u == Applied(s, o)
<1>1. PICK room, teacher, status, start, end, from, delay :
        /\ s = Parts(l, room, teacher, status, start, end, from, delay)
        /\ Fit(l, d, overs, room, teacher, status, start, end, from)
  BY DEF IsSessionOf, Parts, Fit
<1>2. CASE o.kind = "cancel"
  <2>1. u = Parts(l, room, teacher, "cancelled", start, end, from, delay)
    BY <1>1, <1>2 DEF Applied, Parts
  <2>2. Fit(l, d, overs, room, teacher, "cancelled", start, end, from)
    BY <1>1 DEF Fit
  <2> QED
    BY <2>1, <2>2, PartsFit
<1>3. CASE o.kind = "move" /\ o.room \in Rooms
  <2> DEFINE st == Unless(s, "moved")
  <2>1. st # "scheduled"
    BY DEF Unless
  <2>2. from = Never => room = l.room
    BY <1>1 DEF Fit
  <2>3. u = Moved(s, o.room)
    BY <1>3 DEF Applied
  <2> HIDE DEF st, u
  <2>4. u = Parts(l, o.room, teacher, st, start, end, l.room, delay)
    <3>1. (IF s.movedFrom = Never THEN s.room ELSE s.movedFrom) = l.room
      BY <1>1 DEF Fit, Parts
    <3>2. u = [s EXCEPT !.movedFrom = l.room, !.room = o.room, !.status = st]
      BY <2>3, <3>1 DEF Moved, st
    <3> QED
      BY <1>1, <3>2 DEF Parts
  <2>5. Fit(l, d, overs, o.room, teacher, st, start, end, l.room)
    <3>1. l.room # Never
      BY TimetableAssumption
    <3> HIDE DEF o
    <3> QED
      BY <1>1, <1>3, <2>1, <3>1 DEF Fit
  <2> QED
    BY <2>4, <2>5, PartsFit DEF u
<1>4. CASE o.kind = "delay" /\ o.delay > 0
  <2> DEFINE st == Unless(s, "delayed")
             later == start + o.delay
             until == end + o.delay
  <2>1. st # "scheduled"
    BY DEF Unless
  <2>2. u = Delayed(s, o.delay)
    BY <1>4 DEF Applied
  <2>3. later \in Int /\ until \in Int /\ later < until
    BY <1>1 DEF Fit
  <2> HIDE DEF st, u
  <2>4. u = Parts(l, room, teacher, st, later, until, from, delay + o.delay)
    <3>1. u = [s EXCEPT !.start = s.start + o.delay, !.end = s.end + o.delay,
                        !.delay = s.delay + o.delay, !.status = st]
      BY <2>2 DEF Delayed, st
    <3> QED
      BY <1>1, <3>1 DEF Parts
  <2> HIDE DEF later, until
  <2>5. Fit(l, d, overs, room, teacher, st, later, until, from)
    BY <1>1, <2>1, <2>3 DEF Fit
  <2> QED
    BY <2>4, <2>5, PartsFit DEF u
<1>5. CASE o.kind = "reassign_teacher" /\ o.teacher \in Teachers
  <2>1. u = Parts(l, room, o.teacher, status, start, end, from, delay)
    BY <1>1, <1>5 DEF Applied, Parts
  <2>2. Fit(l, d, overs, room, o.teacher, status, start, end, from)
    <3>1. ~ \A k \in DOMAIN overs : overs[k].kind # "reassign_teacher"
      BY <1>5
    <3> HIDE DEF o
    <3> QED
      BY <1>1, <1>5, <3>1 DEF Fit
  <2> QED
    BY <2>1, <2>2, PartsFit
<1>6. CASE /\ ~(o.kind = "cancel") /\ ~(o.kind = "move" /\ o.room \in Rooms)
           /\ ~(o.kind = "delay" /\ o.delay > 0)
           /\ ~(o.kind = "reassign_teacher" /\ o.teacher \in Teachers)
  <2>1. u = s
    BY <1>6 DEF Applied
  <2> QED
    BY <2>1
<1> QED
  BY <1>2, <1>3, <1>4, <1>5, <1>6

LEMMA StagesAre ==
  ASSUME NEW d, Midnight(d) \in Int, NEW l, Occurs(l, d),
         NEW overs, Len(overs) \in Nat, DOMAIN overs = 1 .. Len(overs),
         \A i \in DOMAIN overs : overs[i].delay \in Int
  PROVE  \A n \in 0 .. Len(overs) : IsSessionOf(Stages(l, d, overs)[n], l, d, overs)
<1> DEFINE f == Stages(l, d, overs)
           T == {k \in Nat : k <= Len(overs) /\ ~IsSessionOf(f[k], l, d, overs)}
<1>1. /\ f[0] = SessionOf(l.id, l.room, l.teacher, l.slot, d, "scheduled")
      /\ \A i \in 1 .. Len(overs) :
           f[i] = IF OfLesson(overs[i], l, d) THEN Applied(f[i - 1], overs[i]) ELSE f[i - 1]
  BY StagesFollow
<1> HIDE DEF f
<1>2. l.room \in Rooms /\ l.teacher \in Teachers /\ l.slot \in DOMAIN Slots
  BY DEF Occurs, Resolves
<1>3. IsSessionOf(f[0], l, d, overs)
  <2> DEFINE a == Midnight(d) + Slots[l.slot].start
             b == Midnight(d) + Slots[l.slot].end
  <2>1. a \in Int /\ b \in Int /\ a < b
    BY <1>2, TimelineAssumption, SlotsAssumption
  <2>2. f[0] = Parts(l, l.room, l.teacher, "scheduled", a, b, Never, 0)
    BY <1>1 DEF SessionOf, Parts
  <2>3. Fit(l, d, overs, l.room, l.teacher, "scheduled", a, b, Never)
    BY <1>2, <2>1 DEF Fit
  <2> QED
    BY <2>2, <2>3, PartsFit
<1>4. ASSUME NEW k \in T, \A m \in T : k <= m PROVE FALSE
  <2>1. k \in Nat /\ k <= Len(overs) /\ ~IsSessionOf(f[k], l, d, overs) /\ k # 0
    BY <1>3
  <2>2. k - 1 \in Nat /\ k - 1 <= Len(overs) /\ k \in 1 .. Len(overs)
    BY <2>1
  <2>3. k - 1 \notin T
    <3> HIDE DEF T
    <3> QED
      BY <1>4, <2>1
  <2>4. IsSessionOf(f[k - 1], l, d, overs)
    BY <2>2, <2>3
  <2>5. IsSessionOf(Applied(f[k - 1], overs[k]), l, d, overs)
    BY <1>2, <2>2, <2>4, AppliedKeeps
  <2> QED
    BY <1>1, <2>1, <2>2, <2>4, <2>5
<1>5. \A k \in T : FALSE
  <2>1. T \subseteq Nat
    OBVIOUS
  <2> HIDE DEF T
  <2> QED
    BY <1>4, <2>1, LeastNat
<1>6. \A n \in 0 .. Len(overs) : IsSessionOf(f[n], l, d, overs)
  BY <1>5
<1> QED
  BY <1>6 DEF f

-----------------------------------------------------------------------------
(* What is stored. *)

\* The stored overrides are a sequence of what is in it.
Listed(overs) == overs \in Seq(ToSet(overs))

LEMMA ListedOf ==
  ASSUME NEW S, NEW s \in Seq(S)
  PROVE  /\ Listed(s) /\ ToSet(s) \subseteq S
         /\ Len(s) \in Nat /\ DOMAIN s = 1 .. Len(s)
         /\ \A i \in DOMAIN s : s[i] \in ToSet(s)
<1>1. Len(s) \in Nat /\ DOMAIN s = 1 .. Len(s) /\ \A i \in 1 .. Len(s) : s[i] \in S
  BY LenProperties, ElementOfSeq
<1>2. s \in [1 .. Len(s) -> ToSet(s)]
  <2>1. PICK n \in Nat : s \in [1 .. n -> S]
    BY SeqDef
  <2>2. s = [i \in 1 .. n |-> s[i]] /\ DOMAIN s = 1 .. n
    BY <2>1
  <2>3. \A i \in 1 .. n : s[i] \in ToSet(s)
    BY <2>2 DEF ToSet
  <2>4. n = Len(s)
    BY <2>1, LenProperties
  <2> QED
    BY <2>2, <2>3, <2>4
<1>3. Listed(s)
  BY <1>1, <1>2, SeqDef DEF Listed
<1> QED
  BY <1>1, <1>3 DEF ToSet

\* What is left after a cascade was there, and is not of the lesson.
LEMMA LeftWithout ==
  ASSUME NEW l, Listed(overrides)
  PROVE  LET left == Left(l)[Len(overrides)]
             S == {o \in ToSet(overrides) : o.lesson # l.id}
         IN  left \in Seq(S)
<1> DEFINE Step(s, i) == IF overrides[i].lesson = l.id THEN s ELSE Append(s, overrides[i])
           Rule(g, k) == g = [i \in 0 .. k |-> IF i = 0 THEN <<>> ELSE Step(g[i - 1], i)]
           f == Left(l)
           S == {o \in ToSet(overrides) : o.lesson # l.id}
           T == {k \in Nat : ~ \E g : Rule(g, k)}
           U == {k \in Nat : k <= Len(overrides) /\ f[k] \notin Seq(S)}
<1>1. f = CHOOSE g : Rule(g, Len(overrides))
  BY DEF Left
<1> HIDE DEF f
<1>2. /\ Len(overrides) \in Nat
      /\ \A i \in 1 .. Len(overrides) : overrides[i] \in ToSet(overrides)
  BY ListedOf DEF Listed
<1>3. ASSUME NEW k \in T, \A m \in T : k <= m PROVE FALSE
  <2> HIDE DEF Step
  <2>1. CASE k = 0
    <3> DEFINE g == [i \in 0 .. 0 |-> <<>>]
    <3>1. Rule(g, 0)
      OBVIOUS
    <3> HIDE DEF g
    <3> QED
      BY <2>1, <3>1
  <2>2. CASE k # 0
    <3>1. k - 1 \in Nat /\ k - 1 \notin T
      <4>1. k \in Nat
        OBVIOUS
      <4> HIDE DEF T
      <4> QED
        BY <1>3, <2>2, <4>1
    <3>2. PICK g : Rule(g, k - 1)
      BY <3>1
    <3> DEFINE h == [i \in 0 .. k |-> IF i = k THEN Step(g[k - 1], k) ELSE g[i]]
    <3>3. \A i \in 0 .. k : h[i] = IF i = 0 THEN <<>> ELSE Step(h[i - 1], i)
      <4>1. ASSUME NEW i \in 0 .. k - 1 PROVE h[i] = g[i]
        <5>1. k \in Nat /\ i \in 0 .. k /\ i # k
          BY <3>1
        <5> QED
          BY <5>1
      <4>2. ASSUME NEW i \in 0 .. k - 1 PROVE g[i] = IF i = 0 THEN <<>> ELSE Step(g[i - 1], i)
        BY <3>2
      <4>3. h[k] = Step(g[k - 1], k)
        OBVIOUS
      <4> HIDE DEF h, Rule
      <4>4. ASSUME NEW i \in 0 .. k PROVE h[i] = IF i = 0 THEN <<>> ELSE Step(h[i - 1], i)
        <5>1. CASE i = k
          BY <2>2, <3>1, <4>1, <4>3, <5>1
        <5>2. CASE i # k
          <6>1. i \in 0 .. k - 1 /\ (i # 0 => i - 1 \in 0 .. k - 1)
            BY <5>2
          <6> QED
            BY <4>1, <4>2, <6>1
        <5> QED
          BY <5>1, <5>2
      <4> QED
        BY <4>4
    <3>4. Rule(h, k)
      BY <3>3
    <3> QED
      BY <3>4
  <2> QED
    BY <2>1, <2>2
<1>4. \E g : Rule(g, Len(overrides))
  <2> HIDE DEF Rule
  <2> QED
    BY <1>2, <1>3, LeastNat
<1>5. Rule(f, Len(overrides))
  <2> HIDE DEF Rule
  <2> QED
    BY <1>1, <1>4
<1>6. f[0] = <<>> /\ \A i \in 1 .. Len(overrides) : f[i] = Step(f[i - 1], i)
  <2> HIDE DEF Step
  <2> QED
    BY <1>2, <1>5
<1>7. ASSUME NEW k \in U, \A m \in U : k <= m PROVE FALSE
  <2>1. k \in Nat /\ k <= Len(overrides) /\ f[k] \notin Seq(S)
    OBVIOUS
  <2>2. k # 0
    <3> HIDE DEF S
    <3> QED
      BY <1>6, <2>1, EmptySeq
  <2>3. k - 1 \in Nat /\ k - 1 <= Len(overrides) /\ k \in 1 .. Len(overrides)
    BY <1>2, <2>1, <2>2
  <2>4. k - 1 \notin U
    <3> HIDE DEF U
    <3> QED
      BY <1>7, <2>1
  <2>5. f[k - 1] \in Seq(S)
    BY <2>3, <2>4
  <2>6. overrides[k].lesson # l.id => overrides[k] \in S
    BY <1>2, <2>3
  <2> HIDE DEF S
  <2>7. Step(f[k - 1], k) \in Seq(S)
    BY <2>5, <2>6, AppendProperties
  <2> QED
    BY <1>6, <2>1, <2>3, <2>7
<1>8. \A k \in U : FALSE
  <2>1. U \subseteq Nat
    OBVIOUS
  <2> HIDE DEF U
  <2> QED
    BY <1>7, <2>1, LeastNat
<1>9. f[Len(overrides)] \in Seq(S)
  BY <1>2, <1>8
<1> QED
  BY <1>9 DEF f

LEMMA RemovedListed ==
  ASSUME NEW S, NEW s \in Seq(S), NEW i \in DOMAIN s
  PROVE  RemoveAt(s, i) \in Seq(S)
<1> DEFINE a == SubSeq(s, 1, i - 1)
           b == SubSeq(s, i + 1, Len(s))
<1>1. /\ DOMAIN s = 1 .. Len(s) /\ Len(s) \in Nat /\ i \in 1 .. Len(s)
      /\ \A j \in 1 .. Len(s) : s[j] \in S
  BY LenProperties, ElementOfSeq
<1>2. a \in Seq(S)
  <2>1. \A j \in 1 .. i - 1 : s[j] \in S
    BY <1>1
  <2> QED
    BY <1>1, <2>1, SubSeqProperties
<1>3. b \in Seq(S)
  <2>1. \A j \in i + 1 .. Len(s) : s[j] \in S
    BY <1>1
  <2> QED
    BY <1>1, <2>1, SubSeqProperties
<1>4. RemoveAt(s, i) = a \o b
  BY DEF RemoveAt
<1> HIDE DEF a, b
<1>5. a \o b \in Seq(S)
  BY ONLY <1>2, <1>3, ConcatProperties
<1> QED
  BY <1>4, <1>5

-----------------------------------------------------------------------------
(* The invariant. *)

WellFormed(o) ==
  /\ o.kind \in {"cancel", "move", "delay", "reassign_teacher", "extra"}
  /\ o.kind = "move" => o.room \in Rooms \cup OtherRooms
  /\ o.kind \in {"cancel", "delay", "reassign_teacher"} => o.room \notin OtherRooms
  /\ o.kind = "delay" => o.delay > 0
  /\ o.kind = "reassign_teacher" => o.teacher \in Teachers

Kept(o) ==
  /\ WellFormed(o)
  /\ o.date \in EditDates /\ o.delay \in Int
  /\ o.kind # "extra" => \E l \in lessons : l.id = o.lesson

\* What the check of CreateLesson keeps: no two lessons want the same room or
\* teacher at the same hour of a week.
Booked(x, y) ==
  /\ x.weekday = y.weekday /\ x.slot = y.slot
  /\ ParityOverlap(x.parity, y.parity)
  /\ x.room = y.room \/ x.teacher = y.teacher

TimetableInv ==
  /\ today \in Days /\ created \in 0 .. MaxCreated /\ lessons \subseteq Templates
  /\ \A x, y \in lessons : x # y => ~Booked(x, y)
  /\ Listed(overrides) /\ \A o \in ToSet(overrides) : Kept(o)

LEMMA TimetableStarts == Init => TimetableInv
<1> SUFFICES ASSUME Init PROVE TimetableInv
  OBVIOUS
<1> DEFINE S == {}
<1>1. overrides \in Seq(S)
  <2> HIDE DEF S
  <2> QED
    BY EmptySeq DEF Init
<1>2. Listed(overrides) /\ ToSet(overrides) \subseteq S
  <2> HIDE DEF S
  <2> QED
    BY ONLY <1>1, ListedOf
<1>3. created \in 0 .. MaxCreated
  <2>1. MaxCreated \in Nat
    BY TimetableAssumption
  <2> QED
    BY <2>1 DEF Init
<1> QED
  BY <1>2, <1>3 DEF Init, TimetableInv

\* The overrides that are made are ones to keep.
LEMMA NewKept ==
  ASSUME NEW o \in Cancels \cup Moves \cup Postpones \cup Reassigns \cup ExtraOnes
  PROVE  Kept(o)
<1>1. /\ \A m \in Delays : m \in Int /\ m > 0
      /\ 0 \in Int /\ Never \notin OtherRooms /\ Schedulable \subseteq Rooms
  BY TimetableAssumption
<1>2. ASSUME NEW d \in EditDates, NEW l \in lessons, NEW kind, WellFormed(o),
             o.date = d, o.lesson = l.id, o.kind = kind, o.delay \in Int
      PROVE  Kept(o)
  BY <1>2 DEF Kept
<1>3. CASE o \in Cancels
  <2>1. PICK d \in EditDates, l \in lessons : o = Override("cancel", d, l.id)
    BY <1>3 DEF Cancels
  <2>2. o.date = d /\ o.lesson = l.id /\ o.kind = "cancel" /\ o.delay = 0 /\ o.room = Never
    BY <2>1 DEF Override
  <2>3. WellFormed(o)
    BY <1>1, <2>2 DEF WellFormed
  <2> QED
    BY <1>1, <1>2, <2>2, <2>3
<1>4. CASE o \in Moves
  <2>1. PICK d \in EditDates, l \in lessons :
          \E r \in Schedulable \cup OtherRooms : o = [Override("move", d, l.id) EXCEPT !.room = r]
    BY <1>4 DEF Moves
  <2>2. /\ o.date = d /\ o.lesson = l.id /\ o.kind = "move" /\ o.delay = 0
        /\ o.room \in Schedulable \cup OtherRooms
    BY <2>1 DEF Override
  <2>3. WellFormed(o)
    BY <1>1, <2>2 DEF WellFormed
  <2> QED
    BY <1>1, <1>2, <2>2, <2>3
<1>5. CASE o \in Postpones
  <2>1. PICK d \in EditDates, l \in lessons, m \in Delays :
          o = [Override("delay", d, l.id) EXCEPT !.delay = m]
    BY <1>5 DEF Postpones
  <2>2. o.date = d /\ o.lesson = l.id /\ o.kind = "delay" /\ o.delay = m /\ o.room = Never
    BY <2>1 DEF Override
  <2>3. WellFormed(o)
    BY <1>1, <2>2 DEF WellFormed
  <2> QED
    BY <1>1, <1>2, <2>2, <2>3
<1>6. CASE o \in Reassigns
  <2>1. PICK d \in EditDates, l \in lessons :
          \E t \in Teachers : o = [Override("reassign_teacher", d, l.id) EXCEPT !.teacher = t]
    BY <1>6 DEF Reassigns
  <2>2. /\ o.date = d /\ o.lesson = l.id /\ o.kind = "reassign_teacher" /\ o.delay = 0
        /\ o.room = Never /\ o.teacher \in Teachers
    BY <2>1 DEF Override
  <2>3. WellFormed(o)
    BY <1>1, <2>2 DEF WellFormed
  <2> QED
    BY <1>1, <1>2, <2>2, <2>3
<1>7. CASE o \in ExtraOnes
  <2>1. PICK d \in EditDates, r \in Rooms, t \in Teachers, i \in DOMAIN Slots :
          o = Extra(d, r, t, i)
    BY <1>7 DEF ExtraOnes
  <2>2. o.date = d /\ o.kind = "extra" /\ o.delay = 0
    BY <2>1 DEF Extra, Override
  <2>3. WellFormed(o)
    BY <2>2 DEF WellFormed
  <2> QED
    BY <1>1, <2>2, <2>3 DEF Kept
<1> QED
  BY <1>3, <1>4, <1>5, <1>6, <1>7

LEMMA TimetableKept == TimetableInv /\ [Next]_vars => TimetableInv'
<1> SUFFICES ASSUME TimetableInv, [Next]_vars PROVE TimetableInv'
  OBVIOUS
<1> USE DEF TimetableInv
<1>1. ASSUME NEW l \in Templates, CreateLesson(l) PROVE TimetableInv'
  <2>1. lessons' = lessons \cup {l} /\ UNCHANGED <<today, overrides, created>>
    BY <1>1 DEF CreateLesson
  <2>2. \A x \in lessons : ~Booked(x, l) /\ ~Booked(l, x)
    BY <1>1 DEF CreateLesson, DoubleBooked, Booked, ParityOverlap
  <2>3. \A x, y \in lessons' : x # y => ~Booked(x, y)
    BY <2>1, <2>2
  <2>4. \A o \in ToSet(overrides) : Kept(o)'
    BY <2>1 DEF Kept
  <2> QED
    BY <2>1, <2>3, <2>4
<1>2. ASSUME NEW l \in lessons, DeleteLesson(l) PROVE TimetableInv'
  <2> DEFINE S == {o \in ToSet(overrides) : o.lesson # l.id}
  <2>1. /\ lessons' = lessons \ {l} /\ overrides' = Left(l)[Len(overrides)]
        /\ UNCHANGED <<today, created>>
    BY <1>2 DEF DeleteLesson
  <2>2. Left(l)[Len(overrides)] \in Seq(S)
    BY LeftWithout
  <2>3. Listed(overrides') /\ ToSet(overrides') \subseteq S
    <3> HIDE DEF S
    <3> QED
      BY <2>1, <2>2, ListedOf
  <2>4. \A o \in S : Kept(o)'
    BY <2>1 DEF Kept
  <2>5. Listed(overrides)' /\ \A o \in ToSet(overrides') : Kept(o)'
    BY <2>3, <2>4 DEF Listed
  <2> QED
    BY <2>1, <2>5
<1>3. ASSUME NEW o \in Cancels \cup Moves \cup Postpones \cup Reassigns \cup ExtraOnes,
             CreateOverride(o)
      PROVE  TimetableInv'
  <2> DEFINE S == ToSet(overrides) \cup {o}
  <2>1. /\ overrides' = Append(overrides, o) /\ created' = created + 1
        /\ created < MaxCreated /\ UNCHANGED <<today, lessons>>
    BY <1>3 DEF CreateOverride
  <2>2. overrides \in Seq(S) /\ o \in S
    BY SeqMonotonic DEF Listed
  <2>3. Listed(overrides') /\ ToSet(overrides') \subseteq S
    <3> HIDE DEF S
    <3>1. Append(overrides, o) \in Seq(S)
      BY ONLY <2>2, AppendProperties
    <3> QED
      BY <2>1, <3>1, ListedOf
  <2>4. \A x \in S : Kept(x)'
    BY <2>1, NewKept DEF Kept
  <2>5. Listed(overrides)' /\ \A x \in ToSet(overrides') : Kept(x)'
    BY <2>3, <2>4 DEF Listed
  <2>6. created' \in 0 .. MaxCreated
    <3>1. MaxCreated \in Nat
      BY TimetableAssumption
    <3> QED
      BY <2>1, <3>1
  <2> QED
    BY <2>1, <2>5, <2>6
<1>4. ASSUME NEW i \in DOMAIN overrides, DeleteOverride(i) PROVE TimetableInv'
  <2> DEFINE S == ToSet(overrides)
  <2>1. overrides' = RemoveAt(overrides, i) /\ UNCHANGED <<today, lessons, created>>
    BY <1>4 DEF DeleteOverride
  <2>2. Listed(overrides') /\ ToSet(overrides') \subseteq S
    <3>1. overrides \in Seq(S)
      BY DEF Listed
    <3> HIDE DEF S
    <3>2. RemoveAt(overrides, i) \in Seq(S)
      BY <3>1, RemovedListed
    <3> QED
      BY <2>1, <3>2, ListedOf
  <2>3. \A x \in S : Kept(x)'
    BY <2>1 DEF Kept
  <2>4. Listed(overrides)' /\ \A x \in ToSet(overrides') : Kept(x)'
    BY <2>2, <2>3 DEF Listed
  <2> QED
    BY <2>1, <2>4
<1>5. ASSUME NextDay PROVE TimetableInv'
  BY <1>5 DEF NextDay, Kept, Listed
<1>6. CASE UNCHANGED vars
  BY <1>6 DEF vars, Kept, Listed
<1> QED
  BY <1>1, <1>2, <1>3, <1>4, <1>5, <1>6 DEF Next

-----------------------------------------------------------------------------
(* The sessions of the day. *)

\* Where a session on the board comes from.
FromLesson(s) ==
  \E l \in lessons : Occurs(l, today)
    /\ \E t : IsSessionOf(t, l, today, overrides) /\ s = [t EXCEPT !.conflict = s.conflict]

LEMMA BoardOfLessons ==
  ASSUME TimetableInv
  PROVE  /\ \A l \in lessons : Occurs(l, today) =>
              IsSessionOf(Materialised(l, today, overrides), l, today, overrides)
         /\ \A s \in Sessions : FromLesson(s) \/ s.status = "extra"
         /\ \A s \in Sessions : s.room \in Rooms /\ s.teacher \in Teachers /\ s.start < s.end
<1>1. /\ Midnight(today) \in Int /\ Len(overrides) \in Nat
      /\ DOMAIN overrides = 1 .. Len(overrides)
      /\ \A i \in DOMAIN overrides : overrides[i].delay \in Int
  BY TimetableAssumption, ListedOf DEF TimetableInv, Listed, Kept
<1>2. ASSUME NEW l \in lessons, Occurs(l, today)
      PROVE  IsSessionOf(Materialised(l, today, overrides), l, today, overrides)
  BY <1>1, <1>2, StagesAre DEF Materialised
<1> DEFINE M == {Materialised(l, today, overrides) : l \in {x \in lessons : Occurs(x, today)}}
           X == Extras(today, overrides)
<1>3. ASSUME NEW s \in Sessions PROVE \E t \in M \cup X : s = [t EXCEPT !.conflict = s.conflict]
  <2>1. PICK t \in M \cup X : \E c : s = [t EXCEPT !.conflict = c]
    BY DEF Sessions, BuildDayTimeline, WithConflicts
  <2>2. "conflict" \in DOMAIN t
    BY <1>2 DEF IsSessionOf, Extras, SessionOf
  <2> HIDE DEF M, X
  <2> QED
    BY <2>1, <2>2
<1>4. ASSUME NEW s, NEW t \in M, s = [t EXCEPT !.conflict = s.conflict]
      PROVE  FromLesson(s) /\ s.room \in Rooms /\ s.teacher \in Teachers /\ s.start < s.end
  <2>1. PICK l \in lessons : Occurs(l, today) /\ t = Materialised(l, today, overrides)
    OBVIOUS
  <2>2. IsSessionOf(t, l, today, overrides)
    BY <1>2, <2>1
  <2>3. FromLesson(s)
    BY <1>4, <2>1, <2>2 DEF FromLesson
  <2>4. s.room = t.room /\ s.teacher = t.teacher /\ s.start = t.start /\ s.end = t.end
    BY <1>4, <2>2 DEF IsSessionOf
  <2> QED
    BY <2>2, <2>3, <2>4 DEF IsSessionOf
<1>5. ASSUME NEW s, NEW t \in X, s = [t EXCEPT !.conflict = s.conflict]
      PROVE  /\ s.status = "extra"
             /\ s.room \in Rooms /\ s.teacher \in Teachers /\ s.start < s.end
  <2>1. PICK o : /\ t = SessionOf(o.id, o.room, o.teacher, o.slot, today, "extra")
                 /\ Resolves(o.room, o.teacher, o.slot)
    BY DEF Extras
  <2> DEFINE a == Midnight(today) + Slots[o.slot].start
             b == Midnight(today) + Slots[o.slot].end
  <2>2. a < b
    <3>1. /\ Slots[o.slot].start \in Int /\ Slots[o.slot].end \in Int
          /\ Slots[o.slot].start < Slots[o.slot].end
      BY <2>1, TimelineAssumption, SlotsAssumption DEF Resolves
    <3> QED
      BY <1>1, <3>1
  <2>3. t = [id |-> o.id, room |-> o.room, teacher |-> o.teacher, status |-> "extra",
             start |-> a, end |-> b, movedFrom |-> Never, delay |-> 0, conflict |-> FALSE]
    BY <2>1 DEF SessionOf
  <2> HIDE DEF a, b, X
  <2>4. /\ s.room = o.room /\ s.teacher = o.teacher /\ s.status = "extra"
        /\ s.start = a /\ s.end = b
    BY <1>5, <2>3
  <2> QED
    BY <2>1, <2>2, <2>4 DEF Resolves
<1> QED
  BY <1>2, <1>3, <1>4, <1>5

-----------------------------------------------------------------------------
(* What is stored is well formed, an override of a lesson has its lesson   *)
(* after any deletions, and every session of the board is in a room and    *)
(* with a teacher of the catalogue and ends after it starts.               *)
THEOREM TypeCorrect == Spec => []TypeOK
<1>1. TimetableInv => TypeOK
  <2> SUFFICES ASSUME TimetableInv PROVE TypeOK
    OBVIOUS
  <2>1. \A i \in DOMAIN overrides : Kept(overrides[i])
    BY DEF TimetableInv, ToSet
  <2> QED
    BY <2>1, BoardOfLessons DEF TimetableInv, TypeOK, Kept
<1> QED
  BY <1>1, TimetableStarts, TimetableKept, PTL DEF Spec

(* The calendar of WeekInfo: the parities of the weeks alternate from       *)
(* Monday to Monday, whichever day the semester starts on.                  *)
THEOREM WeeksStayWhole == Spec => []WeeksAreWhole
<1>1. TimetableInv => WeeksAreWhole
  <2>1. Days \subseteq Int
    BY TimetableAssumption
  <2> QED
    BY <2>1, SameParity DEF TimetableInv, WeeksAreWhole
<1> QED
  BY <1>1, TimetableStarts, TimetableKept, PTL DEF Spec

(* The double-booking check of CreateLesson is enough for every timetable:  *)
(* lessons no override has touched never share a room at a time on the      *)
(* board, nor a teacher unless one was reassigned.                          *)
THEOREM UntouchedStayApart == Spec => []UntouchedNeverClash
<1>1. ASSUME TimetableInv, NEW s \in Sessions, NEW u \in Sessions,
             s.status = "scheduled", u.status = "scheduled", s.id # u.id, Overlap(s, u)
      PROVE  /\ s.room # u.room
             /\ s.teacher = u.teacher =>
                  \E i \in DOMAIN overrides : overrides[i].kind = "reassign_teacher"
  <2>1. FromLesson(s) /\ FromLesson(u)
    BY <1>1, BoardOfLessons
  <2>2. ASSUME NEW x, x \in {s, u}
        PROVE  \E l \in lessons :
                 /\ Occurs(l, today) /\ x.id = l.id /\ x.room = l.room
                 /\ x.start = Midnight(today) + Slots[l.slot].start
                 /\ x.end = Midnight(today) + Slots[l.slot].end
                 /\ (\A i \in DOMAIN overrides : overrides[i].kind # "reassign_teacher")
                      => x.teacher = l.teacher
    <3>1. FromLesson(x) /\ x.status = "scheduled"
      BY <1>1, <2>1, <2>2
    <3>2. PICK l \in lessons : /\ Occurs(l, today)
                               /\ \E t : /\ IsSessionOf(t, l, today, overrides)
                                         /\ x = [t EXCEPT !.conflict = x.conflict]
      BY <3>1 DEF FromLesson
    <3>3. PICK t : /\ IsSessionOf(t, l, today, overrides)
                   /\ x = [t EXCEPT !.conflict = x.conflict]
      BY <3>2
    <3>4. /\ x.id = l.id /\ x.room = t.room /\ x.teacher = t.teacher /\ x.status = t.status
          /\ x.start = t.start /\ x.end = t.end
      BY <3>3 DEF IsSessionOf
    <3> QED
      BY <3>1, <3>2, <3>3, <3>4 DEF IsSessionOf
  <2>3. PICK l \in lessons :
          /\ Occurs(l, today) /\ s.id = l.id /\ s.room = l.room
          /\ s.start = Midnight(today) + Slots[l.slot].start
          /\ s.end = Midnight(today) + Slots[l.slot].end
          /\ (\A i \in DOMAIN overrides : overrides[i].kind # "reassign_teacher")
               => s.teacher = l.teacher
    BY <2>2
  <2>4. PICK m \in lessons :
          /\ Occurs(m, today) /\ u.id = m.id /\ u.room = m.room
          /\ u.start = Midnight(today) + Slots[m.slot].start
          /\ u.end = Midnight(today) + Slots[m.slot].end
          /\ (\A i \in DOMAIN overrides : overrides[i].kind # "reassign_teacher")
               => u.teacher = m.teacher
    BY <2>2
  <2>5. l # m /\ ~Booked(l, m)
    BY <1>1, <2>3, <2>4 DEF TimetableInv
  <2>6. l.weekday = m.weekday /\ ParityOverlap(l.parity, m.parity)
    BY <2>3, <2>4 DEF Occurs, ParityOverlap
  <2>7. l.slot = m.slot
    <3> DEFINE i == l.slot
               j == m.slot
               n == Midnight(today)
    <3>1. i \in DOMAIN Slots /\ j \in DOMAIN Slots /\ n \in Int
      BY <1>1, <2>3, <2>4, TimetableAssumption DEF Occurs, Resolves, TimetableInv
    <3>2. /\ Slots[i].start \in Int /\ Slots[i].end \in Int
          /\ Slots[j].start \in Int /\ Slots[j].end \in Int
      BY <3>1, TimelineAssumption
    <3>3. /\ n + Slots[i].start < n + Slots[j].end
          /\ n + Slots[j].start < n + Slots[i].end
      BY <1>1, <2>3, <2>4 DEF Overlap
    <3>4. ~(Slots[i].end <= Slots[j].start \/ Slots[j].end <= Slots[i].start)
      <4> HIDE DEF i, j, n
      <4> QED
        BY <3>1, <3>2, <3>3
    <3>5. i = j
      <4> HIDE DEF i, j
      <4> QED
        BY <3>1, <3>4, SlotsAssumption
    <3> QED
      BY <3>5
  <2> QED
    BY <2>3, <2>4, <2>5, <2>6, <2>7 DEF Booked
<1>2. TimetableInv => UntouchedNeverClash
  BY <1>1 DEF UntouchedNeverClash
<1> QED
  BY <1>2, TimetableStarts, TimetableKept, PTL DEF Spec

(* RoomDay: however often the session of a lesson was moved, the list of    *)
(* the room in the weekly timetable and the list of the room where it ended *)
(* up both show it.                                                         *)
THEOREM FoundWhereItIs == Spec => []FoundInItsRoom
<1>1. ASSUME TimetableInv, NEW l \in lessons, Occurs(l, today)
      PROVE  \E s \in RoomDay(l.room) : s.id = l.id
  <2> DEFINE t == Materialised(l, today, overrides)
  <2>1. IsSessionOf(t, l, today, overrides)
    BY <1>1, BoardOfLessons
  <2>2. \E c : [t EXCEPT !.conflict = c] \in Sessions
    BY <1>1 DEF Sessions, BuildDayTimeline, WithConflicts
  <2> HIDE DEF t
  <2>3. PICK c : [t EXCEPT !.conflict = c] \in Sessions
    BY <2>2
  <2> DEFINE s == [t EXCEPT !.conflict = c]
  <2>4. s.id = l.id /\ s.room = t.room /\ s.movedFrom = t.movedFrom
    BY <2>1 DEF IsSessionOf
  <2>5. s \in Sessions
    BY <2>3
  <2> HIDE DEF s
  <2>6. s.room = l.room \/ s.movedFrom = l.room
    BY <2>1, <2>4 DEF IsSessionOf
  <2> QED
    BY <2>4, <2>5, <2>6 DEF RoomDay
<1>2. TimetableInv => FoundInItsRoom
  BY <1>1 DEF FoundInItsRoom, RoomDay
<1> QED
  BY <1>2, TimetableStarts, TimetableKept, PTL DEF Spec
-----------------------------------------------------------------------------
(***************************************************************************)
(* What was asked for.  One override more changes the sets by itself only, *)
(* and the session as the promise says.                                    *)
(***************************************************************************)
LEMMA LateGrows ==
  ASSUME NEW l, Len(overrides) \in Nat
  PROVE  /\ Late(l)[0] = 0
         /\ \A n \in 1 .. Len(overrides) :
              Late(l)[n] = Late(l)[n - 1]
                             + (IF n \in Asked(l, {"delay"}, n) THEN overrides[n].delay ELSE 0)
<1> DEFINE Step(x, n) == x + (IF n \in Asked(l, {"delay"}, n) THEN overrides[n].delay ELSE 0)
           Rule(g, k) == g = [n \in 0 .. k |-> IF n = 0 THEN 0 ELSE Step(g[n - 1], n)]
           f == Late(l)
           T == {k \in Nat : ~ \E g : Rule(g, k)}
<1>1. f = CHOOSE g : Rule(g, Len(overrides))
  BY DEF Late
<1> HIDE DEF Step, f
<1>2. ASSUME NEW k \in T, \A m \in T : k <= m PROVE FALSE
  <2>1. CASE k = 0
    <3> DEFINE g == [i \in 0 .. 0 |-> 0]
    <3>1. Rule(g, 0)
      OBVIOUS
    <3> HIDE DEF g
    <3> QED
      BY <2>1, <3>1
  <2>2. CASE k # 0
    <3>1. k - 1 \in Nat /\ k - 1 \notin T
      <4>1. k \in Nat
        OBVIOUS
      <4> HIDE DEF T
      <4> QED
        BY <1>2, <2>2, <4>1
    <3>2. PICK g : Rule(g, k - 1)
      BY <3>1
    <3> DEFINE h == [i \in 0 .. k |-> IF i = k THEN Step(g[k - 1], k) ELSE g[i]]
    <3>3. \A i \in 0 .. k : h[i] = IF i = 0 THEN 0 ELSE Step(h[i - 1], i)
      <4>1. ASSUME NEW i \in 0 .. k - 1 PROVE h[i] = g[i]
        <5>1. k \in Nat /\ i \in 0 .. k /\ i # k
          BY <3>1
        <5> QED
          BY <5>1
      <4>2. ASSUME NEW i \in 0 .. k - 1 PROVE g[i] = IF i = 0 THEN 0 ELSE Step(g[i - 1], i)
        BY <3>2
      <4>3. h[k] = Step(g[k - 1], k)
        OBVIOUS
      <4> HIDE DEF h, Rule
      <4>4. ASSUME NEW i \in 0 .. k PROVE h[i] = IF i = 0 THEN 0 ELSE Step(h[i - 1], i)
        <5>1. CASE i = k
          BY <2>2, <3>1, <4>1, <4>3, <5>1
        <5>2. CASE i # k
          <6>1. i \in 0 .. k - 1 /\ (i # 0 => i - 1 \in 0 .. k - 1)
            BY <5>2
          <6> QED
            BY <4>1, <4>2, <6>1
        <5> QED
          BY <5>1, <5>2
      <4> QED
        BY <4>4
    <3>4. Rule(h, k)
      BY <3>3
    <3> QED
      BY <3>4
  <2> QED
    BY <2>1, <2>2
<1>3. \E g : Rule(g, Len(overrides))
  <2> HIDE DEF Rule
  <2> QED
    BY <1>2, LeastNat
<1>4. Rule(f, Len(overrides))
  <2> HIDE DEF Rule
  <2> QED
    BY <1>1, <1>3
<1>5. /\ f[0] = 0
      /\ \A n \in 1 .. Len(overrides) : f[n] = Step(f[n - 1], n)
  BY <1>4
<1> QED
  BY <1>5 DEF Step, f

LEMMA AskedGrows ==
  ASSUME NEW l, NEW kinds, NEW n \in Nat, n > 0
  PROVE  /\ Asked(l, kinds, n) = Asked(l, kinds, n - 1)
                                   \cup {i \in {n} : i \in Asked(l, kinds, n)}
         /\ LastAsked(l, kinds, n) = IF n \in Asked(l, kinds, n) THEN n
                                     ELSE LastAsked(l, kinds, n - 1)
<1>1. Asked(l, kinds, n) = Asked(l, kinds, n - 1) \cup {i \in {n} : i \in Asked(l, kinds, n)}
  BY DEF Asked
<1>2. ASSUME n \in Asked(l, kinds, n) PROVE LastAsked(l, kinds, n) = n
  <2>1. \A i \in Asked(l, kinds, n) : i \in Int /\ n >= i
    BY DEF Asked
  <2>2. Max(Asked(l, kinds, n)) = n
    BY <1>2, <2>1 DEF Max
  <2> QED
    BY <1>2, <2>2 DEF LastAsked
<1>3. ASSUME n \notin Asked(l, kinds, n) PROVE LastAsked(l, kinds, n) = LastAsked(l, kinds, n - 1)
  <2>1. Asked(l, kinds, n) = Asked(l, kinds, n - 1)
    BY <1>1, <1>3
  <2> QED
    BY <2>1 DEF LastAsked
<1> QED
  BY <1>1, <1>2, <1>3

LEMMA NothingAsked ==
  ASSUME NEW l, NEW kinds
  PROVE  Asked(l, kinds, 0) = {} /\ LastAsked(l, kinds, 0) = 0
  BY DEF Asked, LastAsked

\* The promise after one override more, kind by kind.
LEMMA PromiseGrows ==
  ASSUME TimetableInv, NEW l \in lessons, NEW s,
         IsSessionOf(s, l, today, overrides),
         Midnight(today) \in Int, Slots[l.slot].start \in Int, Slots[l.slot].end \in Int,
         NEW n \in 1 .. Len(overrides), Late(l)[n - 1] \in Int, IsPromised(s, l, n - 1)
  PROVE  /\ Late(l)[n] \in Int
         /\ IsPromised(IF OfLesson(overrides[n], l, today) THEN Applied(s, overrides[n]) ELSE s,
                       l, n)
<1> DEFINE o == overrides[n]
           counts == OfLesson(o, l, today) /\ o.room \notin OtherRooms
<1>1. /\ Len(overrides) \in Nat /\ DOMAIN overrides = 1 .. Len(overrides)
      /\ n \in Nat /\ n > 0 /\ n \in 1 .. n
      /\ WellFormed(o) /\ o.delay \in Int
  BY ListedOf DEF TimetableInv, Listed, Kept
<1>2. \A kinds : n \in Asked(l, kinds, n) <=> counts /\ o.kind \in kinds
  BY <1>1 DEF Asked
<1>3. \A kinds : /\ Asked(l, kinds, n) = IF counts /\ o.kind \in kinds
                                         THEN Asked(l, kinds, n - 1) \cup {n}
                                         ELSE Asked(l, kinds, n - 1)
                 /\ LastAsked(l, kinds, n) = IF counts /\ o.kind \in kinds THEN n
                                             ELSE LastAsked(l, kinds, n - 1)
  <2> HIDE DEF counts, o
  <2> SUFFICES ASSUME NEW kinds
               PROVE  /\ Asked(l, kinds, n) = IF counts /\ o.kind \in kinds
                                              THEN Asked(l, kinds, n - 1) \cup {n}
                                              ELSE Asked(l, kinds, n - 1)
                      /\ LastAsked(l, kinds, n) = IF counts /\ o.kind \in kinds THEN n
                                                  ELSE LastAsked(l, kinds, n - 1)
    OBVIOUS
  <2> DEFINE A == Asked(l, kinds, n - 1)
             B == Asked(l, kinds, n)
  <2>1. B = A \cup {i \in {n} : i \in B} /\ (n \in B <=> counts /\ o.kind \in kinds)
    BY <1>1, <1>2, AskedGrows
  <2>2. LastAsked(l, kinds, n) = IF n \in B THEN n ELSE LastAsked(l, kinds, n - 1)
    BY <1>1, AskedGrows
  <2> HIDE DEF A, B
  <2>3. B = IF counts /\ o.kind \in kinds THEN A \cup {n} ELSE A
    <3>1. CASE counts /\ o.kind \in kinds
      BY <2>1, <3>1
    <3>2. CASE ~(counts /\ o.kind \in kinds)
      BY <2>1, <3>2
    <3> QED
      BY <3>1, <3>2
  <2> QED
    BY <2>1, <2>2, <2>3 DEF A, B
<1>4. Late(l)[n] = IF counts /\ o.kind = "delay" THEN Late(l)[n - 1] + o.delay
                   ELSE Late(l)[n - 1]
  <2>1. Late(l)[n] = Late(l)[n - 1]
                       + (IF n \in Asked(l, {"delay"}, n) THEN o.delay ELSE 0)
    BY <1>1, LateGrows
  <2>2. n \in Asked(l, {"delay"}, n) <=> counts /\ o.kind = "delay"
    BY <1>2
  <2> HIDE DEF counts, o
  <2> QED
    BY <2>1, <2>2
<1>5. Late(l)[n] \in Int
  <2> HIDE DEF counts, o
  <2> QED
    BY <1>1, <1>4
<1> DEFINE u == IF OfLesson(o, l, today) THEN Applied(s, o) ELSE s
<1>6. CASE ~counts
  <2>1. u = s
    <3>1. CASE ~OfLesson(o, l, today)
      BY <3>1
    <3>2. CASE OfLesson(o, l, today)
      <4>1. o.room \in OtherRooms /\ o.kind # "extra"
        BY <1>6, <3>2 DEF OfLesson
      <4>2. o.kind = "move" /\ ~(o.room \in Rooms)
        <5>1. OtherRooms \cap Rooms = {}
          BY TimetableAssumption
        <5> HIDE DEF o
        <5> QED
          BY <1>1, <4>1, <5>1 DEF WellFormed
      <4> QED
        BY <4>2 DEF Applied
    <3> QED
      BY <3>1, <3>2
  <2>2. /\ \A kinds : /\ Asked(l, kinds, n) = Asked(l, kinds, n - 1)
                      /\ LastAsked(l, kinds, n) = LastAsked(l, kinds, n - 1)
        /\ Late(l)[n] = Late(l)[n - 1]
    BY <1>3, <1>4, <1>6
  <2>3. IsPromised(s, l, n)
    BY <2>2 DEF IsPromised
  <2> QED
    BY <1>5, <2>1, <2>3
<1> DEFINE moved    == LastAsked(l, {"move"}, n - 1)
           replaced == LastAsked(l, {"reassign_teacher"}, n - 1)
           changed  == LastAsked(l, {"move", "delay"}, n - 1)
           gone     == Asked(l, {"cancel"}, n - 1) # {}
           late     == Late(l)[n - 1]
<1>7. /\ s.id = l.id
      /\ s.room = IF moved = 0 THEN l.room ELSE overrides[moved].room
      /\ s.teacher = IF replaced = 0 THEN l.teacher ELSE overrides[replaced].teacher
      /\ s.start = Midnight(today) + Slots[l.slot].start + late
      /\ s.end = Midnight(today) + Slots[l.slot].end + late
      /\ s.status = IF gone THEN "cancelled"
                    ELSE IF changed = 0 THEN "scheduled"
                    ELSE IF overrides[changed].kind = "move" THEN "moved" ELSE "delayed"
  BY DEF IsPromised
<1>8. s = [id |-> l.id, room |-> s.room, teacher |-> s.teacher, status |-> s.status,
           start |-> s.start, end |-> s.end, movedFrom |-> s.movedFrom, delay |-> s.delay,
           conflict |-> FALSE]
  BY DEF IsSessionOf
<1>9. s.status = "cancelled" <=> gone
  BY <1>7
<1>10. CASE counts
  <2>1. OfLesson(o, l, today) /\ u = Applied(s, o) /\ n # 0
    BY <1>1, <1>10
  <2>2. o.kind \in {"cancel", "move", "delay", "reassign_teacher"}
    BY <1>1, <2>1 DEF WellFormed, OfLesson
  <2> HIDE DEF moved, replaced, changed, gone, late
  <2>3. /\ LastAsked(l, {"move"}, n) = IF o.kind = "move" THEN n ELSE moved
        /\ LastAsked(l, {"reassign_teacher"}, n) = IF o.kind = "reassign_teacher" THEN n ELSE replaced
        /\ LastAsked(l, {"move", "delay"}, n) = IF o.kind \in {"move", "delay"} THEN n ELSE changed
        /\ Asked(l, {"cancel"}, n) # {} <=> (o.kind = "cancel" \/ gone)
        /\ Late(l)[n] = IF o.kind = "delay" THEN late + o.delay ELSE late
    BY <1>3, <1>4, <1>10 DEF moved, replaced, changed, gone, late
  <2>4. CASE o.kind = "cancel"
    <3>1. u = [s EXCEPT !.status = "cancelled"]
      BY <2>1, <2>4 DEF Applied
    <3> HIDE DEF u
    <3>2. /\ u.id = s.id /\ u.room = s.room /\ u.teacher = s.teacher /\ u.start = s.start
          /\ u.end = s.end /\ u.status = "cancelled"
      BY <1>8, <3>1
    <3>3. IsPromised(u, l, n)
      BY <1>7, <2>3, <2>4, <3>2 DEF IsPromised
    <3> QED
      BY <1>5, <3>3 DEF u
  <2>5. CASE o.kind = "move"
    <3>1. o.room \in Rooms
      BY <1>1, <1>10, <2>5 DEF WellFormed
    <3>2. u = Moved(s, o.room)
      BY <2>1, <2>5, <3>1 DEF Applied
    <3> HIDE DEF u
    <3>3. /\ u.id = s.id /\ u.room = o.room /\ u.teacher = s.teacher /\ u.start = s.start
          /\ u.end = s.end /\ u.status = IF gone THEN "cancelled" ELSE "moved"
      BY <1>8, <1>9, <3>2 DEF Moved, Unless
    <3>4. IsPromised(u, l, n)
      BY <1>7, <2>1, <2>3, <2>5, <3>3 DEF IsPromised
    <3> QED
      BY <1>5, <3>4 DEF u
  <2>6. CASE o.kind = "delay"
    <3>1. o.delay > 0
      BY <1>1, <2>6 DEF WellFormed
    <3>2. u = Delayed(s, o.delay)
      BY <2>1, <2>6, <3>1 DEF Applied
    <3> HIDE DEF u
    <3>3. /\ u.id = s.id /\ u.room = s.room /\ u.teacher = s.teacher
          /\ u.start = s.start + o.delay /\ u.end = s.end + o.delay
          /\ u.status = IF gone THEN "cancelled" ELSE "delayed"
      BY <1>8, <1>9, <3>2 DEF Delayed, Unless
    <3>4. late \in Int /\ o.delay \in Int
      BY <1>1 DEF late
    <3>5. /\ u.start = Midnight(today) + Slots[l.slot].start + (late + o.delay)
          /\ u.end = Midnight(today) + Slots[l.slot].end + (late + o.delay)
      <4> DEFINE m == Midnight(today)
                 a == Slots[l.slot].start
                 b == Slots[l.slot].end
      <4>1. m \in Int /\ a \in Int /\ b \in Int
        OBVIOUS
      <4>2. u.start = (m + a + late) + o.delay /\ u.end = (m + b + late) + o.delay
        BY <1>7, <3>3 DEF late
      <4> HIDE DEF o, m, a, b
      <4>3. /\ (m + a + late) + o.delay = m + a + (late + o.delay)
            /\ (m + b + late) + o.delay = m + b + (late + o.delay)
        BY <3>4, <4>1
      <4> QED
        BY <4>2, <4>3 DEF m, a, b
    <3>6. IsPromised(u, l, n)
      BY <1>7, <2>1, <2>3, <2>6, <3>3, <3>5 DEF IsPromised
    <3> QED
      BY <1>5, <3>6 DEF u
  <2>7. CASE o.kind = "reassign_teacher"
    <3>1. o.teacher \in Teachers
      BY <1>1, <2>7 DEF WellFormed
    <3>2. u = [s EXCEPT !.teacher = o.teacher]
      BY <2>1, <2>7, <3>1 DEF Applied
    <3> HIDE DEF u
    <3>3. /\ u.id = s.id /\ u.room = s.room /\ u.teacher = o.teacher /\ u.start = s.start
          /\ u.end = s.end /\ u.status = s.status
      BY <1>8, <3>2
    <3>4. IsPromised(u, l, n)
      BY <1>7, <2>1, <2>3, <2>7, <3>3 DEF IsPromised
    <3> QED
      BY <1>5, <3>4 DEF u
  <2> QED
    BY <2>2, <2>4, <2>5, <2>6, <2>7
<1> QED
  BY <1>6, <1>10

LEMMA StagesArePromised ==
  ASSUME TimetableInv, NEW l \in lessons, Occurs(l, today)
  PROVE  IsPromised(Materialised(l, today, overrides), l, Len(overrides))
<1> DEFINE f == Stages(l, today, overrides)
           P(n) == Late(l)[n] \in Int /\ IsPromised(f[n], l, n)
           T == {k \in Nat : k <= Len(overrides) /\ ~P(k)}
<1>1. /\ Midnight(today) \in Int /\ Len(overrides) \in Nat
      /\ DOMAIN overrides = 1 .. Len(overrides)
      /\ \A i \in DOMAIN overrides : overrides[i].delay \in Int
  BY TimetableAssumption, ListedOf DEF TimetableInv, Listed, Kept
<1>2. /\ l.room \in Rooms /\ l.slot \in DOMAIN Slots
      /\ Slots[l.slot].start \in Int /\ Slots[l.slot].end \in Int
  BY TimelineAssumption DEF Occurs, Resolves
<1>3. /\ f[0] = SessionOf(l.id, l.room, l.teacher, l.slot, today, "scheduled")
      /\ \A i \in 1 .. Len(overrides) :
           f[i] = IF OfLesson(overrides[i], l, today) THEN Applied(f[i - 1], overrides[i])
                  ELSE f[i - 1]
  BY <1>1, StagesFollow
<1>4. \A n \in 0 .. Len(overrides) : IsSessionOf(f[n], l, today, overrides)
  BY <1>1, StagesAre
<1> HIDE DEF f
<1>5. P(0)
  <2>1. Late(l)[0] = 0
    BY <1>1, LateGrows
  <2>2. /\ f[0].id = l.id /\ f[0].room = l.room /\ f[0].teacher = l.teacher
        /\ f[0].start = Midnight(today) + Slots[l.slot].start
        /\ f[0].end = Midnight(today) + Slots[l.slot].end /\ f[0].status = "scheduled"
    BY <1>3 DEF SessionOf
  <2>3. /\ Midnight(today) + Slots[l.slot].start = Midnight(today) + Slots[l.slot].start + 0
        /\ Midnight(today) + Slots[l.slot].end = Midnight(today) + Slots[l.slot].end + 0
    BY <1>1, <1>2
  <2> QED
    BY <2>1, <2>2, <2>3, NothingAsked DEF IsPromised
<1>6. ASSUME NEW k \in T, \A m \in T : k <= m PROVE FALSE
  <2> HIDE DEF P
  <2>1. k \in Nat /\ k <= Len(overrides) /\ ~P(k) /\ k # 0
    BY <1>5
  <2>2. k - 1 \in Nat /\ k - 1 <= Len(overrides) /\ k \in 1 .. Len(overrides)
        /\ k - 1 \in 0 .. Len(overrides)
    BY <1>1, <2>1
  <2>3. k - 1 \notin T
    <3> HIDE DEF T
    <3> QED
      BY <1>6, <2>1
  <2>4. P(k - 1)
    BY <2>2, <2>3
  <2>5. P(k)
    BY <1>1, <1>2, <1>3, <1>4, <2>2, <2>4, PromiseGrows DEF P
  <2> QED
    BY <2>1, <2>5
<1>7. \A k \in T : FALSE
  <2>1. T \subseteq Nat
    OBVIOUS
  <2> HIDE DEF T
  <2> QED
    BY <1>6, <2>1, LeastNat
<1>8. P(Len(overrides))
  <2> HIDE DEF P
  <2> QED
    BY <1>1, <1>7
<1> QED
  BY <1>8 DEF Materialised, f

(* Applying a lesson's overrides one after the other, as the engine does,   *)
(* gives what they were meant to: any cancel wins, delays add up, the last  *)
(* move and the last new teacher count (applyOverride, engine.go:148-194).  *)
THEOREM BoardIsAsPromised == Spec => []SessionsAsPromised
<1>1. ASSUME TimetableInv, NEW l \in lessons, Occurs(l, today)
      PROVE  \E s \in Sessions : IsPromised(s, l, Len(overrides))
  <2> DEFINE t == Materialised(l, today, overrides)
  <2>1. IsSessionOf(t, l, today, overrides) /\ IsPromised(t, l, Len(overrides))
    BY <1>1, BoardOfLessons, StagesArePromised
  <2>2. \E c : [t EXCEPT !.conflict = c] \in Sessions
    BY <1>1 DEF Sessions, BuildDayTimeline, WithConflicts
  <2> HIDE DEF t
  <2>3. PICK c : [t EXCEPT !.conflict = c] \in Sessions
    BY <2>2
  <2> DEFINE s == [t EXCEPT !.conflict = c]
  <2>4. /\ s.id = t.id /\ s.room = t.room /\ s.teacher = t.teacher /\ s.start = t.start
        /\ s.end = t.end /\ s.status = t.status
    BY <2>1 DEF IsSessionOf
  <2>5. s \in Sessions
    BY <2>3
  <2> HIDE DEF s
  <2>6. IsPromised(s, l, Len(overrides))
    BY <2>1, <2>4 DEF IsPromised
  <2> QED
    BY <2>5, <2>6
<1>2. TimetableInv => SessionsAsPromised
  BY <1>1 DEF SessionsAsPromised
<1> QED
  BY <1>2, TimetableStarts, TimetableKept, PTL DEF Spec
=============================================================================

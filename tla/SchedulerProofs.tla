-------------------------- MODULE SchedulerProofs ---------------------------
(***************************************************************************)
(* NextTransition skips no change of the board, for any timeline and any   *)
(* thresholds, and a scheduler that sleeps until then keeps the published  *)
(* board current.                                                          *)
(***************************************************************************)
EXTENDS Scheduler, WellFoundedInduction, TLAPS

\* The earliest of the instants after t exists: none of them is far below.
LEMMA LeastOfLater ==
  ASSUME NEW t \in Int, NEW B \in SUBSET Int, \A b \in B : b > t, B # {}
  PROVE  Least(B) \in B /\ \A b \in B : Least(B) <= b
<1> DEFINE T == {n \in Nat : t + n \in B}
           R == {p \in Nat \X Nat : p[1] < p[2]}
<1>1. PICK b0 \in B : TRUE
  OBVIOUS
<1>2. b0 - t \in Nat /\ t + (b0 - t) = b0
  BY <1>1
<1>3. T \subseteq Nat /\ b0 - t \in T
  BY <1>1, <1>2
<1>4. IsWellFoundedOn(R, Nat)
  BY NatLessThanWellFounded DEF OpToRel
<1>5. PICK n \in T : \A m \in T : ~ (<<m, n>> \in R)
  <2> HIDE DEF T, R
  <2> QED
    BY <1>3, <1>4, WFMin
<1>6. \A m \in T : n <= m
  <2>1. n \in Nat /\ T \subseteq Nat
    BY <1>3, <1>5
  <2>2. \A m \in Nat : m < n => <<m, n>> \in R
    BY <2>1
  <2> HIDE DEF T, R
  <2>3. ASSUME NEW m \in T PROVE n <= m
    <3>1. m \in Nat /\ ~ (<<m, n>> \in R)
      BY <1>5, <2>1
    <3>2. ~ (m < n)
      BY <2>2, <3>1
    <3> QED
      BY <2>1, <3>1, <3>2
  <2> QED
    BY <2>3
<1>7. t + n \in B
  BY <1>5
<1>8. ASSUME NEW b \in B PROVE t + n <= b
  <2>1. b - t \in T
    <3>1. b - t \in Nat /\ t + (b - t) = b
      OBVIOUS
    <3> QED
      BY <3>1
  <2> QED
    BY <1>5, <1>6, <2>1
<1> QED
  BY <1>7, <1>8 DEF Least
-----------------------------------------------------------------------------
Timeline(S) == \A s \in S : IsSession(s)

\* NextTransition returns an instant or nil.
LEMMA TransitionType ==
  ASSUME NEW S, Timeline(S), NEW a \in Int
  PROVE  NextTransition(S, a) \in Int \cup {Never}
<1>1. After(S, a) \in SUBSET Int /\ \A b \in After(S, a) : b > a
  BY EngineAssumption DEF After, Boundaries, Timeline, IsSession
<1> QED
  BY <1>1, LeastOfLater DEF NextTransition

\* From a to b is within one interval: b comes before the next transition.
Within(S, a, b) ==
  /\ a \in Int /\ b \in Int /\ a <= b
  /\ NextTransition(S, a) = Never \/ b < NextTransition(S, a)

\* No session has a boundary in between.
LEMMA NothingInBetween ==
  ASSUME NEW S, Timeline(S), NEW a, NEW b, Within(S, a, b),
         NEW s \in S, NEW x \in Boundaries(s)
  PROVE  x \in Int /\ (x <= a \/ b < x)
<1>1. a \in Int /\ b \in Int /\ a <= b
  BY DEF Within
<1>2. After(S, a) \in SUBSET Int /\ \A y \in After(S, a) : y > a
  BY <1>1, EngineAssumption DEF After, Boundaries, Timeline, IsSession
<1>3. x \in Int
  BY EngineAssumption DEF Boundaries, Timeline, IsSession
<1>4. CASE x > a
  <2>1. x \in After(S, a)
    BY <1>4 DEF After
  <2>2. NextTransition(S, a) \in Int /\ NextTransition(S, a) <= x
    BY <1>1, <1>2, <2>1, LeastOfLater DEF NextTransition
  <2> QED
    BY <1>1, <1>3, <2>2, EngineAssumption DEF Within
<1> QED
  BY <1>1, <1>3, <1>4

\* Until the next transition no session changes phase, enters the NEXT list or
\* leaves it.
LEMMA SamePhase ==
  ASSUME NEW S, Timeline(S), NEW a, NEW b, Within(S, a, b), NEW s \in S
  PROVE  /\ PhaseAt(s, b) = PhaseAt(s, a)
         /\ s.start <= b + NextHorizon <=> s.start <= a + NextHorizon
         /\ s.end > b <=> s.end > a
<1>1. /\ a \in Int /\ b \in Int /\ a <= b /\ s.start \in Int /\ s.end \in Int
      /\ SoonWindow \in Int /\ EndingWindow \in Int /\ NextHorizon \in Int
  BY EngineAssumption DEF Within, Timeline, IsSession
<1>2. \A x \in Boundaries(s) : x <= a \/ b < x
  BY NothingInBetween
<1>3. /\ s.end <= a \/ b < s.end
      /\ s.start - NextHorizon <= a \/ b < s.start - NextHorizon
  BY <1>2 DEF Boundaries
<1>4. CASE Cancelled(s)
  BY <1>1, <1>3, <1>4 DEF PhaseAt
<1>5. CASE ~Cancelled(s)
  <2>1. /\ s.start - SoonWindow <= a \/ b < s.start - SoonWindow
        /\ s.start <= a \/ b < s.start
        /\ s.end - EndingWindow <= a \/ b < s.end - EndingWindow
    BY <1>2, <1>5 DEF Boundaries
  <2> QED
    BY <1>1, <1>3, <1>5, <2>1 DEF PhaseAt
<1> QED
  BY <1>4, <1>5

\* The announced transition is early enough: up to it the lists, the rooms and
\* the counts of the board are those of the instant it was computed for
\* (NextTransition against ComputeSnapshot, engine.go:250-426).
THEOREM NoChangeIsSkipped ==
  ASSUME NEW S, Timeline(S), NEW a, NEW b, Within(S, a, b)
  PROVE  Contents(S, b) = Contents(S, a)
<1>1. \A s \in S : /\ PhaseAt(s, b) = PhaseAt(s, a)
                   /\ s.start <= b + NextHorizon <=> s.start <= a + NextHorizon
                   /\ s.end > b <=> s.end > a
  BY SamePhase
<1>2. \A Z \in SUBSET S : \A p : In(Z, b, p) = In(Z, a, p)
  BY <1>1 DEF In
<1>3. \A Z \in SUBSET S : NowList(Z, b) = NowList(Z, a)
  BY <1>2 DEF NowList
<1>4. NextList(S, b) = NextList(S, a)
  BY <1>1 DEF NextList
<1>5. \A s \in S : Phased(s, b) = Phased(s, a)
  BY <1>1 DEF Phased
<1>6. \A Z \in SUBSET S : Waiting(Z, b) = Waiting(Z, a)
  BY <1>2 DEF Waiting
<1>7. \A r : RoomState(S, r, b) = RoomState(S, r, a)
  <2> SUFFICES ASSUME NEW r PROVE RoomState(S, r, b) = RoomState(S, r, a)
    OBVIOUS
  <2> DEFINE here == {s \in S : s.room = r}
  <2>1. here \in SUBSET S
    OBVIOUS
  <2>2. /\ \A p : In(here, b, p) = In(here, a, p)
        /\ NowList(here, b) = NowList(here, a)
        /\ Waiting(here, b) = Waiting(here, a)
    BY <1>2, <1>3, <1>6, <2>1
  <2> QED
    BY <2>2 DEF RoomState
<1>8. /\ {Phased(s, b) : s \in NowList(S, b)} = {Phased(s, a) : s \in NowList(S, a)}
      /\ {Phased(s, b) : s \in NextList(S, b)} = {Phased(s, a) : s \in NextList(S, a)}
  BY <1>3, <1>4, <1>5 DEF NowList, NextList, In
<1>9. In(S, b, "done") = In(S, a, "done")
  BY <1>2
<1>10. [r \in Schedulable |-> RoomState(S, r, b)]
         = [r \in Schedulable |-> RoomState(S, r, a)]
  BY <1>7
<1>11. {r \in Schedulable : RoomState(S, r, b).phase \in {"live", "ending"}}
         = {r \in Schedulable : RoomState(S, r, a).phase \in {"live", "ending"}}
  BY <1>7
<1> QED
  BY <1>8, <1>9, <1>10, <1>11, Zenon DEF Contents
-----------------------------------------------------------------------------
(***************************************************************************)
(* The type invariant.                                                     *)
(***************************************************************************)
LEMMA DatesOfInstants ==
  ASSUME NEW t \in Instants
  PROVE  /\ t \in Nat /\ DateIn(t) \in Dates
         /\ Midnight(DateIn(t) + 1) \in Int /\ t < Midnight(DateIn(t) + 1)
BY SchedulerAssumption DEF Instants

\* The scheduler sleeps at least MinWait and, unless it sleeps just that, wakes
\* by the next transition and by midnight.
LEMMA WaitIsShort ==
  ASSUME now \in Instants, board.nextTransition \in Int \cup {Never}
  PROVE  /\ Wait \in Nat \ {0}
         /\ \/ Wait = MinWait
            \/ /\ now + Wait <= Midnight(DateIn(now) + 1)
               /\ board.nextTransition = Never \/ now + Wait <= board.nextTransition
<1>1. /\ now \in Nat /\ Midnight(DateIn(now) + 1) \in Int
      /\ MaxSleep \in Nat /\ MinWait \in Nat /\ MinWait > 0
  BY DatesOfInstants, SchedulerAssumption
<1>2. CASE board.nextTransition = Never
  BY <1>1, <1>2 DEF Wait, Earliest
<1>3. CASE board.nextTransition # Never
  <2>1. board.nextTransition \in Int
    BY <1>3
  <2> QED
    BY <1>1, <1>3, <2>1 DEF Wait, Earliest
<1> QED
  BY <1>2, <1>3

\* A snapshot carries its instant, its date and a next transition.
LEMMA SnapshotType ==
  ASSUME NEW t \in Instants, TypeOK
  PROVE  /\ timetable[DateIn(t)] \in Timelines[DateIn(t)]
         /\ Timeline(timetable[DateIn(t)])
         /\ SnapshotAt(t).nextTransition \in Int \cup {Never}
<1>1. DateIn(t) \in Dates /\ t \in Int
  BY DatesOfInstants
<1>2. /\ timetable[DateIn(t)] \in Timelines[DateIn(t)]
      /\ Timeline(timetable[DateIn(t)])
  BY <1>1, SchedulerAssumption DEF TypeOK, Timeline
<1> QED
  BY <1>1, <1>2, TransitionType DEF SnapshotAt

\* The first state is well typed.
LEMMA InitType == Init => TypeOK
<1>1. 0 \in Instants /\ 1 \in 1 .. 2 * MaxBackoff - 1
  BY SchedulerAssumption DEF Instants
<1> SUFFICES ASSUME Init PROVE TypeOK
  OBVIOUS
<1>2. backoff \in 1 .. 2 * MaxBackoff - 1
  BY <1>1 DEF Init
<1>3. now \in Instants /\ at \in Instants /\ armed \in Instants /\ at <= now
  BY <1>1 DEF Init
<1> QED
  BY <1>2, <1>3 DEF Init, TypeOK

\* Every step keeps the types.
LEMMA TypeStep == TypeOK /\ [Next]_vars => TypeOK'
<1> SUFFICES ASSUME TypeOK, [Next]_vars PROVE TypeOK'
  OBVIOUS
<1>0. /\ MaxTime \in Nat /\ MinWait \in Nat \ {0} /\ MaxBackoff \in Nat \ {0}
      /\ now \in Nat /\ armed \in Nat /\ alarm \in Nat /\ backoff \in Nat
  BY SchedulerAssumption DEF TypeOK, Instants
<1>1. CASE Tick
  BY <1>0, <1>1 DEF Tick, TypeOK, Instants
<1>2. ASSUME NEW d \in Dates, NEW S \in Timelines[d], Edit(d, S) PROVE TypeOK'
  BY <1>0, <1>2 DEF Edit, TypeOK
<1>3. CASE ReadClock
  BY <1>0, <1>3 DEF ReadClock, TypeOK
<1>4. CASE Rebuild
  <2>1. /\ board'.at = at /\ board'.date = DateIn(at)
        /\ board'.nextTransition \in Int \cup {Never}
    BY <1>4, SnapshotType DEF Rebuild, SnapshotAt, TypeOK
  <2>2. backoff' \in 1 .. 2 * MaxBackoff - 1
    BY <1>0, <1>4 DEF Rebuild
  <2> QED
    BY <1>4, <2>1, <2>2 DEF Rebuild, TypeOK
<1>5. CASE RebuildFails
  BY <1>0, <1>5 DEF RebuildFails, TypeOK
<1>6. CASE Arm
  <2>1. Wait \in Nat \ {0}
    BY <1>6, WaitIsShort DEF Arm, TypeOK
  <2> QED
    BY <1>0, <1>6, <2>1 DEF Arm, TypeOK
<1>7. CASE TimerFires \/ Invalidated
  BY <1>7 DEF TimerFires, Invalidated, TypeOK
<1>8. CASE UNCHANGED vars
  BY <1>8 DEF vars, TypeOK
<1> QED
  BY <1>1, <1>2, <1>3, <1>4, <1>5, <1>6, <1>7, <1>8 DEF Next

\* The scheduler's state is always well formed: it never sleeps without an
\* alarm that is still to come, its backoff is bounded, and what it sleeps on
\* is a snapshot of an instant that has been.
THEOREM TypeCorrect == Spec => []TypeOK
<1>1. Init => TypeOK
  BY InitType
<1> QED
  BY <1>1, TypeStep, PTL DEF Spec
-----------------------------------------------------------------------------
(***************************************************************************)
(* AsleepIsCurrent.  What is published is the snapshot of its instant, and *)
(* the alarm is set for the next transition or midnight at the latest.     *)
(***************************************************************************)
Faithful ==
  Settled =>
    /\ board.contents = Contents(timetable[board.date], board.at)
    /\ board.nextTransition = NextTransition(timetable[board.date], board.at)

Planned ==
  pc = "asleep" /\ ~failed =>
    /\ board.at <= armed /\ armed <= now
    /\ \/ alarm = armed + MinWait
       \/ /\ alarm <= Midnight(DateIn(armed) + 1)
          /\ board.nextTransition = Never \/ alarm <= board.nextTransition

\* Every step keeps Faithful.
LEMMA FaithfulStep == TypeOK /\ Faithful /\ [Next]_vars => Faithful'
<1> SUFFICES ASSUME TypeOK, Faithful, [Next]_vars PROVE Faithful'
  OBVIOUS
<1> USE DEF Faithful, Settled
<1>1. CASE Tick
  BY <1>1 DEF Tick
<1>2. ASSUME NEW d \in Dates, NEW S \in Timelines[d], Edit(d, S) PROVE Faithful'
  BY <1>2 DEF Edit
<1>3. CASE ReadClock \/ RebuildFails \/ TimerFires \/ Invalidated
  BY <1>3 DEF ReadClock, RebuildFails, TimerFires, Invalidated
<1>4. CASE Rebuild
  BY <1>4 DEF Rebuild, SnapshotAt
<1>5. CASE Arm
  BY <1>5 DEF Arm, TypeOK
<1>6. CASE UNCHANGED vars
  BY <1>6 DEF vars
<1> QED
  BY <1>1, <1>2, <1>3, <1>4, <1>5, <1>6 DEF Next

\* Every step keeps Planned.
LEMMA PlannedStep == TypeOK /\ Planned /\ [Next]_vars => Planned'
<1> SUFFICES ASSUME TypeOK, Planned, [Next]_vars PROVE Planned'
  OBVIOUS
<1> USE DEF Planned
<1>1. CASE Tick
  BY <1>1 DEF Tick, TypeOK, Instants
<1>2. ASSUME NEW d \in Dates, NEW S \in Timelines[d], Edit(d, S) PROVE Planned'
  BY <1>2 DEF Edit
<1>3. CASE ReadClock \/ Rebuild \/ RebuildFails \/ TimerFires \/ Invalidated
  BY <1>3 DEF ReadClock, Rebuild, RebuildFails, TimerFires, Invalidated
<1>4. CASE Arm
  <2>1. /\ Wait = MinWait
           \/ /\ now + Wait <= Midnight(DateIn(now) + 1)
              /\ board.nextTransition = Never \/ now + Wait <= board.nextTransition
        /\ board.at <= now /\ now \in Nat
    BY <1>4, WaitIsShort DEF Arm, TypeOK, Instants
  <2> QED
    BY <1>4, <2>1 DEF Arm
<1>5. CASE UNCHANGED vars
  BY <1>5 DEF vars
<1> QED
  BY <1>1, <1>2, <1>3, <1>4, <1>5 DEF Next

\* A faithful snapshot and a planned wait give a current board.
LEMMA PlannedIsCurrent == TypeOK /\ Faithful /\ Planned => AsleepIsCurrent
<1> SUFFICES ASSUME TypeOK, Faithful, Planned, Sleeping,
                    alarm # armed + MinWait, DateIn(armed) = board.date
             PROVE  Current
  BY DEF AsleepIsCurrent
<1> DEFINE S == timetable[board.date]
<1>1. /\ now \in Instants /\ armed \in Instants /\ board.at \in Instants
      /\ board.at <= armed /\ armed <= now /\ now < alarm
      /\ alarm \in Nat /\ board.nextTransition \in Int \cup {Never}
      /\ alarm <= Midnight(DateIn(armed) + 1)
      /\ board.nextTransition = Never \/ alarm <= board.nextTransition
  BY DEF Sleeping, Settled, TypeOK, Planned
<1>2. DateIn(now) = board.date
  <2>1. /\ now \in Int /\ armed \in Int /\ alarm \in Int
        /\ DateIn(armed) \in Dates /\ Midnight(DateIn(armed)) <= armed
        /\ Midnight(DateIn(armed)) \in Int /\ Midnight(DateIn(armed) + 1) \in Int
    BY <1>1, SchedulerAssumption DEF Instants
  <2>2. Midnight(DateIn(armed)) <= now /\ now < Midnight(DateIn(armed) + 1)
    BY <1>1, <2>1
  <2> QED
    BY <1>1, <2>1, <2>2, SchedulerAssumption
<1>3. Timeline(S) /\ board.contents = Contents(S, board.at)
      /\ board.nextTransition = NextTransition(S, board.at)
  BY <1>1, <1>2, SnapshotType DEF Faithful, Sleeping
<1>4. Within(S, board.at, now)
  <2>1. board.nextTransition # Never => board.nextTransition \in Int
    BY <1>1
  <2> QED
    BY <1>1, <1>3, <2>1 DEF Within, Instants
<1>5. Contents(S, now) = Contents(S, board.at)
  <2> HIDE DEF S
  <2> QED
    BY <1>3, <1>4, NoChangeIsSkipped
<1> QED
  BY <1>2, <1>3, <1>5 DEF Current

\* While the scheduler sleeps on a settled board, that board is what the engine
\* would make of the present instant, except after a build that a change or
\* midnight fell into.
THEOREM SleepersAreCurrent == Spec => []AsleepIsCurrent
<1>1. Init => TypeOK /\ Faithful /\ Planned
  BY InitType DEF Init, Faithful, Settled, Planned
<1>2. TypeOK /\ Faithful /\ Planned /\ [Next]_vars => (TypeOK /\ Faithful /\ Planned)'
  BY TypeStep, FaithfulStep, PlannedStep
<1> QED
  BY <1>1, <1>2, PlannedIsCurrent, PTL DEF Spec
-----------------------------------------------------------------------------
(***************************************************************************)
(* FreeUntilIsKept.  What follows in a room is the first of its waiting    *)
(* sessions, and a session that has not ended is waiting in a room where   *)
(* none runs.                                                              *)
(***************************************************************************)
\* Sessions that are all to come have an earliest one, by start and then by ID.
LEMMA FirstOfWaiting ==
  ASSUME NEW W, NEW t \in Int, W # {},
         \A s \in W : s.start \in Int /\ s.id \in Nat /\ s.start > t
  PROVE  First(W) \in W /\ \A u \in W : Earlier(First(W), u)
<1> DEFINE starts == {s.start : s \in W}
           m      == Least(starts)
           ids    == {s.id : s \in {u \in W : u.start = m}}
           k      == Least(ids)
<1>1. m \in starts /\ \A b \in starts : m <= b
  <2>1. starts \in SUBSET Int /\ starts # {} /\ \A b \in starts : b > t
    OBVIOUS
  <2> QED
    BY <2>1, LeastOfLater
<1>2. k \in ids /\ \A b \in ids : k <= b
  <2>1. PICK z \in Int : z < 0
    BY -1 \in Int
  <2>2. PICK s \in W : s.start = m
    BY <1>1
  <2> HIDE DEF m
  <2>3. ids \in SUBSET Nat /\ s.id \in ids
    BY <2>2
  <2> HIDE DEF ids
  <2>4. ids \in SUBSET Int /\ ids # {} /\ \A b \in ids : b > z
    BY <2>1, <2>3
  <2> QED
    BY <2>4, LeastOfLater
<1>3. PICK s \in W : s.start = m /\ s.id = k
  BY <1>2
<1>4. \A u \in W : Earlier(s, u)
  <2> SUFFICES ASSUME NEW u \in W PROVE Earlier(s, u)
    OBVIOUS
  <2>1. m <= u.start /\ (u.start = m => k <= u.id)
    BY <1>1, <1>2
  <2> QED
    BY <1>3, <2>1 DEF Earlier
<1> QED
  BY <1>3, <1>4 DEF First

\* Where no session runs, one that has not ended waits, and the room is shown
\* free until the first that does (roomState, engine.go:355-402).
LEMMA FreeUntilTheNext ==
  ASSUME NEW S, Timeline(S), NEW t \in Int, NEW r,
         RoomState(S, r, t).phase \in {"free", "soon"},
         NEW s \in S, s.room = r, ~Cancelled(s), s.end > t
  PROVE  /\ RoomState(S, r, t).freeUntil \in Int
         /\ RoomState(S, r, t).freeUntil <= s.start
<1> DEFINE here == {u \in S : u.room = r}
           W    == Waiting(here, t)
<1>1. SoonWindow \in Nat /\ EndingWindow \in Nat
  BY EngineAssumption
<1>2. \A u \in S : IsSession(u)
  BY DEF Timeline
<1>3. NowList(here, t) = {}
  BY DEF RoomState
<1>4. PhaseAt(s, t) \in {"soon", "upcoming"}
  <2>1. PhaseAt(s, t) \notin {"live", "ending"}
    BY <1>3 DEF NowList, In
  <2> QED
    BY <1>1, <1>2, <2>1 DEF PhaseAt, IsSession
<1>5. W # {} /\ \A u \in W : u \in here /\ PhaseAt(u, t) \in {"soon", "upcoming"}
  BY <1>4 DEF Waiting, In
<1>6. \A u \in W : u.start \in Int /\ u.id \in Nat /\ u.start > t
  <2> SUFFICES ASSUME NEW u \in W
               PROVE  u.start \in Int /\ u.id \in Nat /\ u.start > t
    OBVIOUS
  <2>1. IsSession(u) /\ PhaseAt(u, t) \in {"soon", "upcoming"}
    BY <1>2, <1>5
  <2> QED
    BY <1>1, <2>1 DEF PhaseAt, IsSession
<1>7. First(W) \in W /\ \A u \in W : Earlier(First(W), u)
  <2> HIDE DEF W
  <2> QED
    BY <1>5, <1>6, FirstOfWaiting
<1>8. RoomState(S, r, t).freeUntil = First(W).start
  BY <1>3, <1>5 DEF RoomState
<1>9. First(W).start <= s.start
  <2>1. CASE s \in W
    BY <1>2, <1>6, <1>7, <2>1 DEF Earlier, IsSession
  <2>2. CASE s \notin W
    <3>1. PhaseAt(s, t) = "upcoming" /\ PhaseAt(First(W), t) = "soon"
      BY <1>4, <1>7, <2>2 DEF Waiting, In
    <3>2. IsSession(s) /\ IsSession(First(W))
      BY <1>2, <1>5, <1>7
    <3> HIDE DEF W
    <3>3. t < s.start - SoonWindow
      BY <1>1, <3>1, <3>2 DEF PhaseAt, IsSession
    <3>4. ~(t < First(W).start - SoonWindow)
      BY <1>1, <3>1, <3>2 DEF PhaseAt, IsSession
    <3> QED
      BY <1>1, <3>2, <3>3, <3>4 DEF IsSession
  <2> QED
    BY <2>1, <2>2
<1> QED
  BY <1>6, <1>7, <1>8, <1>9

\* A room shown free or soon has no session before the instant it is shown to
\* be free until, for any timeline and any thresholds.
THEOREM FreeRoomsStayFree == Spec => []FreeUntilIsKept
<1>1. Init => TypeOK /\ Faithful
  BY InitType DEF Init, Faithful, Settled
<1>2. TypeOK /\ Faithful /\ [Next]_vars => (TypeOK /\ Faithful)'
  BY TypeStep, FaithfulStep
<1>3. TypeOK /\ Faithful => FreeUntilIsKept
  <2> SUFFICES ASSUME TypeOK, Faithful, Settled, NEW r \in Schedulable,
                      board.contents.rooms[r].phase \in {"free", "soon"},
                      NEW s \in timetable[board.date],
                      s.room = r, ~Cancelled(s), s.end > board.at
               PROVE  /\ board.contents.rooms[r].freeUntil # Never
                      /\ board.contents.rooms[r].freeUntil <= s.start
    BY DEF FreeUntilIsKept
  <2> DEFINE S == timetable[board.date]
  <2>1. board.at \in Instants /\ board.at \in Int /\ board.date = DateIn(board.at)
    BY DEF TypeOK, Settled, Instants
  <2>2. Timeline(S)
    BY <2>1, SnapshotType
  <2>3. board.contents.rooms[r] = RoomState(S, r, board.at)
    BY DEF Faithful, Contents
  <2> HIDE DEF S
  <2>4. RoomState(S, r, board.at).freeUntil \in Int
        /\ RoomState(S, r, board.at).freeUntil <= s.start
    <3>1. s \in S
      BY DEF S
    <3> QED
      BY <2>1, <2>2, <2>3, <3>1, FreeUntilTheNext
  <2> QED
    BY <2>3, <2>4, EngineAssumption
<1> QED
  BY <1>1, <1>2, <1>3, PTL DEF Spec
-----------------------------------------------------------------------------
(***************************************************************************)
(* TransitionIsAChange.  At a boundary a session is seen to change, if the *)
(* thresholds are those of ThresholdsFit.                                  *)
(***************************************************************************)
\* A session that runs, or follows, is on equal boards with the same phase.
LEMMA ShownIsSeen ==
  ASSUME NEW S, NEW s \in S, NEW t, NEW u, Contents(S, t) = Contents(S, u)
  PROVE  /\ s \in NowList(S, t) => s \in NowList(S, u) /\ PhaseAt(s, t) = PhaseAt(s, u)
         /\ s \in NextList(S, t) => s \in NextList(S, u) /\ PhaseAt(s, t) = PhaseAt(s, u)
<1>1. /\ {Phased(x, t) : x \in NowList(S, t)} = {Phased(x, u) : x \in NowList(S, u)}
      /\ {Phased(x, t) : x \in NextList(S, t)} = {Phased(x, u) : x \in NextList(S, u)}
  BY DEF Contents
<1>2. \A x, y : Phased(x, t) = Phased(y, u) => x = y /\ PhaseAt(x, t) = PhaseAt(y, u)
  BY DEF Phased
<1>3. ASSUME s \in NowList(S, t) PROVE s \in NowList(S, u) /\ PhaseAt(s, t) = PhaseAt(s, u)
  <2>1. PICK y \in NowList(S, u) : Phased(s, t) = Phased(y, u)
    BY <1>1, <1>3
  <2> QED
    BY <1>2, <2>1
<1>4. ASSUME s \in NextList(S, t) PROVE s \in NextList(S, u) /\ PhaseAt(s, t) = PhaseAt(s, u)
  <2>1. PICK y \in NextList(S, u) : Phased(s, t) = Phased(y, u)
    BY <1>1, <1>4
  <2> QED
    BY <1>2, <2>1
<1> QED
  BY <1>3, <1>4

\* At each of its boundaries a session enters a list, leaves one, or changes its
\* phase in one.
LEMMA BoundaryIsSeen ==
  ASSUME NEW S, Timeline(S), NEW s \in S, LongEnough(s), SoonWindow <= NextHorizon,
         NEW b \in Boundaries(s)
  PROVE  Contents(S, b) # Contents(S, b - 1)
<1> SUFFICES ASSUME Contents(S, b) = Contents(S, b - 1) PROVE FALSE
  OBVIOUS
<1> DEFINE c == b - 1
<1>1. /\ b \in Int /\ c \in Int /\ c = b - 1 /\ s.start \in Int /\ s.end \in Int
      /\ SoonWindow \in Nat /\ EndingWindow \in Nat /\ NextHorizon \in Nat
      /\ s.start < s.end /\ s.start <= s.end - EndingWindow /\ SoonWindow <= NextHorizon
  BY EngineAssumption DEF Timeline, IsSession, Boundaries, LongEnough
<1>2. /\ s \in NowList(S, b) => s \in NowList(S, c) /\ PhaseAt(s, b) = PhaseAt(s, c)
      /\ s \in NowList(S, c) => s \in NowList(S, b) /\ PhaseAt(s, b) = PhaseAt(s, c)
      /\ s \in NextList(S, b) => s \in NextList(S, c) /\ PhaseAt(s, b) = PhaseAt(s, c)
      /\ s \in NextList(S, c) => s \in NextList(S, b) /\ PhaseAt(s, b) = PhaseAt(s, c)
  BY ShownIsSeen
<1>3. \A t : /\ s \in NowList(S, t) <=> PhaseAt(s, t) \in {"live", "ending"}
             /\ s \in NextList(S, t) <=>
                  /\ s.start <= t + NextHorizon
                  /\ \/ PhaseAt(s, t) \in {"soon", "upcoming"}
                     \/ PhaseAt(s, t) = "cancelled" /\ s.end > t
  BY DEF NowList, NextList, In
<1> HIDE DEF c
<1>4. CASE Cancelled(s)
  <2>1. PhaseAt(s, b) = "cancelled" /\ PhaseAt(s, c) = "cancelled"
    BY <1>4 DEF PhaseAt
  <2>2. b = s.start - NextHorizon \/ b = s.end
    BY <1>4 DEF Boundaries
  <2> QED
    BY <1>1, <1>2, <1>3, <2>1, <2>2
<1>5. CASE ~Cancelled(s)
  <2>1. \A t \in {b, c} :
          /\ t < s.start - SoonWindow => PhaseAt(s, t) = "upcoming"
          /\ s.start - SoonWindow <= t /\ t < s.start => PhaseAt(s, t) = "soon"
          /\ s.start <= t /\ t < s.end - EndingWindow => PhaseAt(s, t) = "live"
          /\ s.end - EndingWindow <= t /\ t < s.end => PhaseAt(s, t) = "ending"
          /\ s.end <= t => PhaseAt(s, t) = "done"
    BY <1>1, <1>5 DEF PhaseAt
  <2>2. b < s.start => PhaseAt(s, b) \in {"soon", "upcoming"}
    BY <1>1, <2>1
  <2>3. CASE b = s.start - NextHorizon /\ b < s.start
    <3>1. s \in NextList(S, b)
      BY <1>1, <1>3, <2>2, <2>3
    <3>2. ~(s \in NextList(S, c))
      BY <1>1, <1>3, <2>1, <2>3
    <3> QED
      BY <1>2, <3>1, <3>2
  <2>4. CASE b = s.start - SoonWindow /\ b < s.start
    <3>1. PhaseAt(s, b) = "soon" /\ PhaseAt(s, c) = "upcoming"
      BY <1>1, <2>1, <2>4
    <3>2. s \in NextList(S, b)
      BY <1>1, <1>3, <2>4, <3>1
    <3> QED
      BY <1>2, <3>1, <3>2
  <2>5. CASE b = s.start
    <3>1. PhaseAt(s, b) \in {"live", "ending"}
      BY <1>1, <2>1, <2>5
    <3>2. PhaseAt(s, c) \in {"soon", "upcoming"}
      BY <1>1, <2>1, <2>5
    <3> QED
      BY <1>2, <1>3, <3>1, <3>2
  <2>6. CASE b = s.end
    <3>1. PhaseAt(s, b) = "done" /\ PhaseAt(s, c) \in {"live", "ending"}
      BY <1>1, <2>1, <2>6
    <3> QED
      BY <1>2, <1>3, <3>1
  <2>7. CASE b = s.end - EndingWindow /\ b < s.end /\ s.start < b
    <3>1. PhaseAt(s, b) = "ending" /\ PhaseAt(s, c) = "live"
      BY <1>1, <2>1, <2>7
    <3> QED
      BY <1>2, <1>3, <3>1
  <2>8. \/ b = s.start - NextHorizon \/ b = s.end \/ b = s.start - SoonWindow
        \/ b = s.start \/ b = s.end - EndingWindow
    BY <1>5 DEF Boundaries
  <2>9. /\ b = s.start - NextHorizon => b < s.start \/ b = s.start
        /\ b = s.start - SoonWindow => b < s.start \/ b = s.start
        /\ b = s.end - EndingWindow => b = s.end \/ b = s.start \/ (b < s.end /\ s.start < b)
    BY <1>1
  <2> QED
    BY <2>3, <2>4, <2>5, <2>6, <2>7, <2>8, <2>9
<1> QED
  BY <1>4, <1>5

\* "At every transition it must change": where every session lasts longer than
\* it counts as ending, and is listed by the time it counts as soon, the instant
\* announced by the published board is one at which the board changes
\* (NextTransition against ComputeSnapshot, engine.go:250-426).
THEOREM TransitionsAreChanges ==
  ASSUME ThresholdsFit
  PROVE  Spec => []TransitionIsAChange
<1>1. Init => TypeOK /\ Faithful
  BY InitType DEF Init, Faithful, Settled
<1>2. TypeOK /\ Faithful /\ [Next]_vars => (TypeOK /\ Faithful)'
  BY TypeStep, FaithfulStep
<1>3. TypeOK /\ Faithful => TransitionIsAChange
  <2> SUFFICES ASSUME TypeOK, Faithful, Settled, board.nextTransition # Never
               PROVE  Contents(timetable[board.date], board.nextTransition)
                        # Contents(timetable[board.date], board.nextTransition - 1)
    BY DEF TransitionIsAChange
  <2> DEFINE S == timetable[board.date]
             b == board.nextTransition
  <2>1. board.at \in Int /\ board.at \in Instants /\ board.date = DateIn(board.at)
    BY DEF TypeOK, Settled, Instants
  <2>2. Timeline(S)
    BY <2>1, SnapshotType
  <2>3. \A s \in S : LongEnough(s)
    <3>1. board.date \in Dates
      BY <2>1, SchedulerAssumption
    <3> QED
      BY <3>1 DEF TypeOK, ThresholdsFit
  <2>4. b = NextTransition(S, board.at)
    BY DEF Faithful
  <2> HIDE DEF S, b
  <2>5. After(S, board.at) # {} /\ b = Least(After(S, board.at))
    <3>1. b # Never
      BY DEF b
    <3> QED
      BY <2>4, <3>1 DEF NextTransition
  <2>6. After(S, board.at) \in SUBSET Int /\ \A y \in After(S, board.at) : y > board.at
    BY <2>1, <2>2, EngineAssumption DEF After, Boundaries, Timeline, IsSession
  <2>7. b \in After(S, board.at)
    BY <2>1, <2>5, <2>6, LeastOfLater
  <2>8. PICK s \in S : b \in Boundaries(s)
    BY <2>7 DEF After
  <2>9. Contents(S, b) # Contents(S, b - 1)
    BY <2>2, <2>3, <2>8, BoundaryIsSeen DEF ThresholdsFit
  <2> QED
    BY <2>9 DEF S, b
<1> QED
  BY <1>1, <1>2, <1>3, PTL DEF Spec
=============================================================================

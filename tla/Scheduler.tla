----------------------------- MODULE Scheduler ------------------------------
(***************************************************************************)
(* The loop of internal/scheduler/scheduler.go against the clock: it reads *)
(* the time, builds and publishes the board of that instant, reads the     *)
(* time again to decide how long to sleep, and sleeps until its timer or a *)
(* poke.  Module Board has the same loop among the other goroutines; here  *)
(* the subject is time: is the published board the board of the present?   *)
(***************************************************************************)
EXTENDS Engine

CONSTANTS
  Dates,          \* calendar dates, in the building's time zone
  DateIn(_),      \* the date of an instant
  Midnight(_),    \* the instant a date begins
  MaxTime,        \* bound on the clock
  MaxLag,         \* bound on the time a build takes and a timer is late
  Timelines,      \* Timelines[d]: what BuildDayTimeline may return for date d
  MaxSleep,       \* Scheduler.MaxSleep
  MinWait,        \* the 250 ms of NextWakeup
  MaxBackoff      \* the 30 s of the error path, in units of its first wait

Instants == 0 .. MaxTime

ASSUME SchedulerAssumption ==
  /\ MaxTime \in Nat /\ MaxLag \in Nat /\ MaxSleep \in Nat /\ MinWait \in Nat \ {0}
  /\ MaxBackoff \in Nat \ {0}
  /\ \A t \in Instants : DateIn(t) \in Dates
  /\ \A d \in Dates : Midnight(d) \in Int /\ Midnight(d + 1) \in Int
  /\ \A t \in Instants : \A d \in Dates :
       DateIn(t) = d <=> Midnight(d) <= t /\ t < Midnight(d + 1)
  /\ \A d \in Dates : \A S \in Timelines[d] : \A s \in S : IsSession(s)

VARIABLES
  now,         \* clock.Now()
  timetable,   \* what the database holds, as the timeline of each date
  token,       \* a poke waits in the invalidation channel
  pc,          \* "rebuild", "reading", "arming" or "asleep"
  at,          \* the instant the rebuild under way is for
  board,       \* the last published snapshot
  armed,       \* when the timer was set
  alarm,       \* when it fires
  failed,      \* the rebuild before this sleep failed
  backoff      \* the next wait after a failure

vars == <<now, timetable, token, pc, at, board, armed, alarm, failed, backoff>>

SnapshotAt(t) ==
  [date |-> DateIn(t), at |-> t,
   contents |-> Contents(timetable[DateIn(t)], t),
   nextTransition |-> NextTransition(timetable[DateIn(t)], t)]

Init ==
  /\ now = 0
  /\ timetable \in [Dates -> UNION {Timelines[d] : d \in Dates}]
  /\ \A d \in Dates : timetable[d] \in Timelines[d]
  /\ token = FALSE
  /\ pc = "rebuild"
  /\ at = 0
  /\ board = Never               \* nothing published yet
  /\ armed = 0
  /\ alarm = 0
  /\ failed = FALSE
  /\ backoff = 1
-----------------------------------------------------------------------------
\* A build takes its time and a timer may fire late.
Tick ==
  /\ now < MaxTime
  /\ \/ pc \in {"reading", "arming"} /\ now < at + MaxLag
     \/ pc = "asleep" /\ now < alarm + MaxLag
  /\ now' = now + 1
  /\ UNCHANGED <<timetable, token, pc, at, board, armed, alarm, failed, backoff>>

\* An administrator's handler changes a date and pokes the building.
Edit(d, S) ==
  /\ timetable[d] # S
  /\ timetable' = [timetable EXCEPT ![d] = S]
  /\ token' = TRUE
  /\ UNCHANGED <<now, pc, at, board, armed, alarm, failed, backoff>>

ReadClock ==
  /\ pc = "rebuild"
  /\ at' = now
  /\ pc' = "reading"
  /\ UNCHANGED <<now, timetable, token, board, armed, alarm, failed, backoff>>

Rebuild ==
  /\ pc = "reading"
  /\ board' = SnapshotAt(at)
  /\ failed' = FALSE
  /\ backoff' = 1
  /\ pc' = "arming"
  /\ UNCHANGED <<now, timetable, token, at, armed, alarm>>

\* Variant of RebuildFails: the wait doubles for ever.
RebuildFailsForever ==
  /\ pc = "reading"
  /\ failed' = TRUE
  /\ backoff' = 2 * backoff
  /\ armed' = now
  /\ alarm' = now + backoff
  /\ pc' = "asleep"
  /\ UNCHANGED <<now, timetable, token, at, board>>

RebuildFails ==
  /\ pc = "reading"
  /\ failed' = TRUE
  /\ backoff' = IF backoff < MaxBackoff THEN 2 * backoff ELSE backoff
  /\ armed' = now
  /\ alarm' = now + backoff
  /\ pc' = "asleep"
  /\ UNCHANGED <<now, timetable, token, at, board>>

\* NextWakeup, with its own reading of the clock.
Earliest(a, b) == IF a < b THEN a ELSE b

Wait ==
  LET toChange   == IF board.nextTransition = Never THEN MaxSleep
                    ELSE board.nextTransition - now
      toMidnight == Midnight(DateIn(now) + 1) - now
      wait       == Earliest(MaxSleep, Earliest(toChange, toMidnight))
  IN  IF wait < MinWait THEN MinWait ELSE wait

Arm ==
  /\ pc = "arming"
  /\ armed' = now
  /\ alarm' = now + Wait
  /\ pc' = "asleep"
  /\ UNCHANGED <<now, timetable, token, at, board, failed, backoff>>

TimerFires ==
  /\ pc = "asleep" /\ now >= alarm
  /\ pc' = "rebuild"
  /\ UNCHANGED <<now, timetable, token, at, board, armed, alarm, failed, backoff>>

Invalidated ==
  /\ pc = "asleep" /\ token
  /\ token' = FALSE
  /\ pc' = "rebuild"
  /\ UNCHANGED <<now, timetable, at, board, armed, alarm, failed, backoff>>

Next ==
  \/ Tick
  \/ \E d \in Dates : \E S \in Timelines[d] : Edit(d, S)
  \/ ReadClock \/ Rebuild \/ RebuildFails \/ Arm \/ TimerFires \/ Invalidated

Spec == Init /\ [][Next]_vars
-----------------------------------------------------------------------------
\* The backoff is bounded, a sleep is never empty, the snapshot the loop sleeps
\* on was computed for an instant that has been.
TypeOK ==
  /\ now \in Instants /\ at \in Instants /\ at <= now
  /\ timetable \in [Dates -> UNION {Timelines[d] : d \in Dates}]
  /\ \A d \in Dates : timetable[d] \in Timelines[d]
  /\ token \in BOOLEAN /\ failed \in BOOLEAN
  /\ pc \in {"rebuild", "reading", "arming", "asleep"}
  /\ armed \in Instants /\ alarm \in Nat /\ backoff \in 1 .. 2 * MaxBackoff - 1
  /\ pc = "asleep" => armed < alarm
  /\ pc = "arming" => ~failed
  /\ pc \in {"arming", "asleep"} /\ ~failed =>
       /\ board.at \in Instants /\ board.at <= now /\ board.date = DateIn(board.at)
       /\ board.nextTransition \in Int \cup {Never}

\* The published board is the last word: no poke waits and no build has failed.
Settled == pc \in {"arming", "asleep"} /\ ~failed /\ ~token
Sleeping == Settled /\ pc = "asleep" /\ now < alarm

Current ==
  /\ board.date = DateIn(now)
  /\ board.contents = Contents(timetable[DateIn(now)], now)

\* While the scheduler sleeps, the board it published is the board of the
\* present: NextTransition skips no change.  Two exceptions: a change fell into
\* the build itself, and it sleeps the minimum; or midnight did.
AsleepIsCurrent ==
  Sleeping => \/ Current
              \/ alarm = armed + MinWait
              \/ DateIn(armed) # board.date

\* NextWakeup: "until the next engine transition or the next local midnight
\* (date change)" -- a sleeping scheduler shows the board of today.
MidnightIsNoticed ==
  Sleeping => board.date = DateIn(now) \/ alarm = armed + MinWait

\* The thresholds are read from the environment (config.go:51-57) and nothing
\* relates them.  With a soon window beyond the horizon, or an ending window
\* longer than a session, a boundary passes that nobody sees; the defaults and
\* the slots of the seed are far from it.
LongEnough(s) == s.start < s.end /\ EndingWindow <= s.end - s.start

ThresholdsFit ==
  /\ SoonWindow <= NextHorizon
  /\ \A d \in Dates : \A S \in Timelines[d] : \A s \in S : LongEnough(s)

\* "At every transition it must change" (TestNextTransitionFullDay): the
\* instant announced as the next change is one.
TransitionIsAChange ==
  Settled /\ board.nextTransition # Never =>
    LET S == timetable[board.date] IN
    Contents(S, board.nextTransition) # Contents(S, board.nextTransition - 1)

\* A room shown free or soon is left alone until the instant it is shown to be
\* free until, or for the rest of the day when there is none.
FreeUntilIsKept ==
  Settled =>
    \A r \in Schedulable :
      board.contents.rooms[r].phase \in {"free", "soon"} =>
        \A s \in timetable[board.date] :
          s.room = r /\ ~Cancelled(s) /\ s.end > board.at =>
            /\ board.contents.rooms[r].freeUntil # Never
            /\ board.contents.rooms[r].freeUntil <= s.start
=============================================================================

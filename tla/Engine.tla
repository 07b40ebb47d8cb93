------------------------------- MODULE Engine -------------------------------
(***************************************************************************)
(* The pure half of the engine (internal/engine/engine.go): what the board *)
(* shows of a day's sessions at an instant, and when it next changes.      *)
(* Instants are integers, in any unit.  A timeline is a set of sessions:   *)
(* the sorted lists of the code are determined by the sets shown here.     *)
(***************************************************************************)
EXTENDS Integers, FiniteSets

CONSTANTS
  Rooms,          \* rooms a session may be in
  Schedulable,    \* those the snapshot lists
  SoonWindow,     \* Thresholds
  EndingWindow,
  NextHorizon,
  Never           \* a nil *time.Time or *Session

ASSUME EngineAssumption ==
  /\ Schedulable \subseteq Rooms
  /\ SoonWindow \in Nat /\ EndingWindow \in Nat /\ NextHorizon \in Nat
  /\ Never \notin Int

Statuses == {"scheduled", "moved", "delayed", "extra", "cancelled"}

\* id stands for the rank of the session's ID among the IDs of its day.
IsSession(s) ==
  /\ s.id \in Nat /\ s.room \in Rooms /\ s.start \in Int /\ s.end \in Int
  /\ s.status \in Statuses /\ s.conflict \in BOOLEAN

Cancelled(s) == s.status = "cancelled"
-----------------------------------------------------------------------------
\* PhaseAt: the first case of the switch that applies.
PhaseAt(s, t) ==
  IF Cancelled(s) THEN "cancelled"
  ELSE IF t < s.start - SoonWindow THEN "upcoming"
  ELSE IF t < s.start THEN "soon"
  ELSE IF t < s.end - EndingWindow THEN "live"
  ELSE IF t < s.end THEN "ending"
  ELSE "done"

Phased(s, t) == [session |-> s, phase |-> PhaseAt(s, t)]
In(S, t, phase) == {s \in S : PhaseAt(s, t) = phase}

NowList(S, t) == In(S, t, "live") \cup In(S, t, "ending")

NextList(S, t) ==
  {s \in S : /\ s.start <= t + NextHorizon
             /\ \/ PhaseAt(s, t) \in {"soon", "upcoming"}
                \/ PhaseAt(s, t) = "cancelled" /\ s.end > t}
-----------------------------------------------------------------------------
(***************************************************************************)
(* roomState: the earliest running session owns the room; what follows is  *)
(* the earliest soon one, else the earliest upcoming one.                  *)
(***************************************************************************)
Earlier(s, u) == s.start < u.start \/ (s.start = u.start /\ s.id <= u.id)
First(S) == CHOOSE s \in S : \A u \in S : Earlier(s, u)

\* Variant of Waiting: an upcoming session is looked at before a soon one.
WaitingFar(here, t) ==
  IF In(here, t, "upcoming") # {} THEN In(here, t, "upcoming") ELSE In(here, t, "soon")

Waiting(here, t) ==
  IF In(here, t, "soon") # {} THEN In(here, t, "soon") ELSE In(here, t, "upcoming")

RoomState(S, r, t) ==
  LET here    == {s \in S : s.room = r}
      running == NowList(here, t)
      soon    == In(here, t, "soon") # {}
      waiting == Waiting(here, t)
      owner   == First(running)
      next    == First(waiting)
      phase   == IF owner \in In(here, t, "ending") THEN "ending" ELSE "live"
      follows == IF waiting = {} THEN Never
                 ELSE [session |-> next, phase |-> IF soon THEN "soon" ELSE "upcoming"]
  IN  IF running # {}
      THEN [phase |-> phase, current |-> [session |-> owner, phase |-> phase],
            next |-> follows, freeUntil |-> Never, conflict |-> owner.conflict]
      ELSE [phase |-> IF soon THEN "soon" ELSE "free", current |-> Never,
            next |-> follows,
            freeUntil |-> IF waiting = {} THEN Never ELSE next.start,
            conflict |-> soon /\ next.conflict]

\* What ComputeSnapshot makes of a timeline, the instant itself left out.
Contents(S, t) ==
  [now   |-> {Phased(s, t) : s \in NowList(S, t)},
   next  |-> {Phased(s, t) : s \in NextList(S, t)},
   rooms |-> [r \in Schedulable |-> RoomState(S, r, t)],
   busy  |-> Cardinality({r \in Schedulable :
                            RoomState(S, r, t).phase \in {"live", "ending"}}),
   done  |-> Cardinality(In(S, t, "done")),
   today |-> Cardinality({s \in S : ~Cancelled(s)})]
-----------------------------------------------------------------------------
(***************************************************************************)
(* NextTransition: the earliest boundary after t.                          *)
(***************************************************************************)
\* Variant of Boundaries: a cancelled session has the phases of any other.
BoundariesOfAll(s) ==
  {s.start - NextHorizon, s.end, s.start - SoonWindow, s.start, s.end - EndingWindow}

\* Variant of Boundaries: entering the NEXT list is forgotten.
BoundariesOfPhases(s) ==
  {s.end} \cup (IF Cancelled(s) THEN {}
                ELSE {s.start - SoonWindow, s.start, s.end - EndingWindow})

Boundaries(s) ==
  {s.start - NextHorizon, s.end}
    \cup (IF Cancelled(s) THEN {}
          ELSE {s.start - SoonWindow, s.start, s.end - EndingWindow})

After(S, t) == {b \in UNION {Boundaries(s) : s \in S} : b > t}
Least(B) == CHOOSE b \in B : \A a \in B : b <= a

NextTransition(S, t) == IF After(S, t) = {} THEN Never ELSE Least(After(S, t))
=============================================================================

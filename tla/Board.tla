------------------------------- MODULE Board -------------------------------
(***************************************************************************)
(* The read model of one building (services/api/internal/service/board.go) *)
(* together with the goroutines that share it: the scheduler loop          *)
(* (internal/scheduler) and one goroutine per HTTP request.                *)
(*                                                                         *)
(* Shared state is the database, the catalogue cache, the live-snapshot    *)
(* cache, the capacity-one invalidation channel and the snapshot the       *)
(* broker replays to new subscribers.  A step of a goroutine ends where    *)
(* another goroutine may run: at a query, or at a section under b.mu.      *)
(***************************************************************************)
EXTENDS Naturals, FiniteSets

CONSTANTS
  Requests,     \* HTTP requests; each is one goroutine and runs once
  Sched,        \* the scheduler goroutine of the building
  Handlers,     \* the handlers the requests of this instance may call
  Lessons,      \* ids of weekly lesson templates
  Clash,        \* pairs of lessons that share a slot and a room, teacher or group
  None,         \* an absent cache entry (nil map entry, nil h.last)
  MaxFailures   \* bound on the rebuilds of the scheduler that fail

AllHandlers ==
  {"board", "boardAt", "events", "timetable", "createOverride", "deleteOverride",
   "createAnnouncement", "createLesson", "deleteLesson"}

ASSUME BoardAssumption ==
  /\ Sched \notin Requests
  /\ Handlers \subseteq AllHandlers
  /\ None \notin AllHandlers
  /\ Clash \subseteq Lessons \X Lessons
  /\ \A pair \in Clash : pair[1] # pair[2] /\ <<pair[2], pair[1]>> \in Clash
  /\ MaxFailures \in Nat

Procs == Requests \cup {Sched}

(***************************************************************************)
(* A snapshot is abstracted to the rows it was computed from: the lesson   *)
(* templates, and how many writes to the overrides and the announcements   *)
(* tables its queries could see.                                           *)
(***************************************************************************)
Snapshot == [lessons : SUBSET Lessons, overrides : Nat, announcements : Nat]
NoRows   == [lessons |-> {}, overrides |-> 0, announcements |-> 0]

VARIABLES
  lessons,        \* lessons table
  overrides,      \* number of writes committed to session_overrides
  announcements,  \* number of writes committed to announcements
  catalog,        \* b.catalogs[code]: the lessons it holds, or None
  live,           \* b.live[code]: a snapshot, or None
  token,          \* b.invalidate[code] holds its one element
  last,           \* h.last of the broker's hub: a snapshot, or None
  pc,             \* where each goroutine stands
  site,           \* the call of catalog() a goroutine is loading for
  op,             \* the handler a request calls
  arg,            \* the lesson a request creates or deletes
  snap,           \* the rows a goroutine has read so far
  failures,       \* failed rebuilds of the scheduler
  told            \* history: the table versions at the last send on b.invalidate

db    == <<lessons, overrides, announcements>>
local == <<site, op, arg, snap>>
vars  == <<lessons, overrides, announcements, catalog, live, token, last,
           pc, site, op, arg, snap, failures, told>>

(***************************************************************************)
(* Where a goroutine may stand.  CatalogCalls are the calls of catalog():  *)
(* SnapshotAt, Timeline inside it, Building in the scheduler and in the    *)
(* events handler, ListLessons, buildingOfRoomID, CreateLesson before the  *)
(* conflict check and after the reload, CreateAnnouncement.                *)
(***************************************************************************)
CatalogCalls ==
  {"snapshot", "timeline", "building", "subscribe", "timetable", "room",
   "conflicts", "view", "announce"}
Queries ==
  {"load", "overrides", "announcements", "room", "everyBuilding", "reread",
   "insertOverride", "deleteOverride", "insertAnnouncement", "insertLesson",
   "deleteLesson", "deleteUnlocated"}
Finished == {"ok", "failed", "refused"}
Labels ==
  CatalogCalls \cup Queries \cup Finished \cup
  {"start", "install", "current", "store", "hasSnapshot", "publish", "sleep",
   "backoff", "reload", "invalidate", "poke"}

Goto(p, label) == pc' = [pc EXCEPT ![p] = label]

\* Which statement follows the call of catalog() that returned at `call`.
AfterCatalog(p, call) ==
  CASE call = "snapshot"  -> "timeline"
    [] call = "timeline"  -> "overrides"
    [] call = "building"  -> "sleep"
    [] call = "subscribe" -> "hasSnapshot"
    [] call = "conflicts" -> "insertLesson"
    [] call = "announce"  -> "insertAnnouncement"
    [] call = "room" /\ op[p] = "createOverride" -> "insertOverride"
    [] call = "room" /\ op[p] = "deleteOverride" -> "invalidate"
    [] call = "room" /\ op[p] = "deleteLesson"   -> "deleteLesson"
    [] OTHER -> "ok"

\* Variant of AfterError: the error of a request is not handled at all.
AfterErrorPanics(p) == IF p = Sched THEN "backoff" ELSE "panic"

(***************************************************************************)
(* Which statement follows a query that failed.  The scheduler backs off   *)
(* and retries; the events handler ignores a failed Current; the delete    *)
(* handlers ignore a failed buildingOfRoomID and fall back to every        *)
(* building, and ignore that query failing too.                            *)
(***************************************************************************)
AfterError(p) ==
  LET at == IF pc[p] = "load" THEN site[p] ELSE pc[p]
  IN  CASE at = "building" -> "sleep"
        [] at \in {"snapshot", "timeline", "overrides", "announcements"} ->
             IF p = Sched THEN "backoff"
             ELSE IF op[p] = "events" THEN "ok" ELSE "failed"
        [] at = "room" /\ op[p] = "deleteOverride" -> "everyBuilding"
        [] at = "room" /\ op[p] = "deleteLesson"   -> "deleteUnlocated"
        [] at = "everyBuilding" -> "ok"
        [] OTHER -> "failed"

Init ==
  /\ lessons \in {ls \in SUBSET Lessons : Clash \cap (ls \X ls) = {}}
  /\ overrides = 0 /\ announcements = 0
  /\ catalog = None /\ live = None /\ last = None /\ token = FALSE
  /\ pc = [p \in Procs |-> IF p = Sched THEN "snapshot" ELSE "start"]
  /\ site = [p \in Procs |-> "snapshot"]
  /\ op = [p \in Procs |-> None]
  /\ arg = [p \in Procs |-> None]
  /\ snap = [p \in Procs |-> NoRows]
  /\ failures = 0
  /\ told = [overrides |-> 0, announcements |-> 0]
-----------------------------------------------------------------------------
(***************************************************************************)
(* catalog(): a read-locked look at the cache, the queries of loadCatalog  *)
(* without a lock, and the installation under the write lock.  The queries *)
(* are several; only the one for lesson templates reads rows this program  *)
(* changes, so one step stands for them all.                               *)
(***************************************************************************)
Lookup(p) ==
  /\ pc[p] \in CatalogCalls
  /\ IF catalog # None
     THEN /\ snap' = [snap EXCEPT ![p].lessons = catalog]
          /\ Goto(p, AfterCatalog(p, pc[p]))
          /\ UNCHANGED site
     ELSE /\ site' = [site EXCEPT ![p] = pc[p]]
          /\ Goto(p, "load")
          /\ UNCHANGED snap
  /\ UNCHANGED <<db, catalog, live, token, last, op, arg, failures, told>>

LoadCatalog(p) ==
  /\ pc[p] = "load"
  /\ snap' = [snap EXCEPT ![p].lessons = lessons]
  /\ Goto(p, "install")
  /\ UNCHANGED <<db, catalog, live, token, last, site, op, arg, failures, told>>

InstallCatalog(p) ==
  /\ pc[p] = "install"
  /\ catalog' = snap[p].lessons
  /\ site' = [site EXCEPT ![p] = "snapshot"]
  /\ Goto(p, AfterCatalog(p, site[p]))
  /\ UNCHANGED <<db, live, token, last, op, arg, snap, failures, told>>

\* Current: the cached snapshot, or a rebuild.
Current(p) ==
  /\ pc[p] = "current"
  /\ IF live # None
     THEN /\ snap' = [snap EXCEPT ![p] = live]
          /\ Goto(p, IF op[p] = "events" THEN "publish" ELSE "ok")
     ELSE /\ Goto(p, "snapshot")
          /\ UNCHANGED snap
  /\ UNCHANGED <<db, catalog, live, token, last, site, op, arg, failures, told>>

\* SnapshotAt after the two calls of catalog(): two more queries.
ReadOverrides(p) ==
  /\ pc[p] = "overrides"
  /\ snap' = [snap EXCEPT ![p].overrides = overrides]
  /\ Goto(p, "announcements")
  /\ UNCHANGED <<db, catalog, live, token, last, site, op, arg, failures, told>>

ReadAnnouncements(p) ==
  /\ pc[p] = "announcements"
  /\ snap' = [snap EXCEPT ![p].announcements = announcements]
  /\ Goto(p, IF op[p] = "boardAt" THEN "ok" ELSE "store")
  /\ UNCHANGED <<db, catalog, live, token, last, site, op, arg, failures, told>>

\* Variant of StoreLive: an entry that is already there is kept.
StoreIfAbsent(p) ==
  /\ pc[p] = "store"
  /\ live' = IF live = None THEN snap[p] ELSE live
  /\ Goto(p, IF p = Sched \/ op[p] = "events" THEN "publish" ELSE "ok")
  /\ UNCHANGED <<db, catalog, token, last, local, failures, told>>

\* Rebuild caches what it computed.
StoreLive(p) ==
  /\ pc[p] = "store"
  /\ live' = snap[p]
  /\ Goto(p, IF p = Sched \/ op[p] = "events" THEN "publish" ELSE "ok")
  /\ UNCHANGED <<db, catalog, token, last, local, failures, told>>

\* Variant of PublishSnapshot: a tick that arrived during the rebuild is drained.
PublishAndDrain(p) ==
  /\ pc[p] = "publish"
  /\ last' = snap[p]
  /\ token' = IF p = Sched THEN FALSE ELSE token
  /\ Goto(p, IF p = Sched THEN "building" ELSE "ok")
  /\ UNCHANGED <<db, catalog, live, local, failures, told>>

\* Variant of PublishSnapshot: only the first snapshot is remembered.
RememberFirst(p) ==
  /\ pc[p] = "publish"
  /\ last' = IF last = None THEN snap[p] ELSE last
  /\ Goto(p, IF p = Sched THEN "building" ELSE "ok")
  /\ UNCHANGED <<db, catalog, live, token, local, failures, told>>

\* Broker.Publish of a snapshot event, by the scheduler or by the events handler.
PublishSnapshot(p) ==
  /\ pc[p] = "publish"
  /\ last' = snap[p]
  /\ Goto(p, IF p = Sched THEN "building" ELSE "ok")
  /\ UNCHANGED <<db, catalog, live, token, local, failures, told>>

\* The events handler publishes only when the scheduler has not published yet.
HasSnapshot(p) ==
  /\ pc[p] = "hasSnapshot"
  /\ Goto(p, IF last = None THEN "current" ELSE "ok")
  /\ UNCHANGED <<db, catalog, live, token, last, local, failures, told>>

\* A query of goroutine p returns an error (or finds no row to work on).
Fail(p) ==
  /\ pc[p] \in Queries
  /\ Goto(p, AfterError(p))
  /\ failures' = IF p = Sched THEN failures + 1 ELSE failures
  /\ failures' <= MaxFailures
  /\ UNCHANGED <<db, catalog, live, token, last, local, told>>
-----------------------------------------------------------------------------
(***************************************************************************)
(* The scheduler's select: a tick on the invalidation channel, or a timer  *)
(* (the wait of NextWakeup, or the backoff).                               *)
(***************************************************************************)
Waiting == pc[Sched] \in {"sleep", "backoff"}

Invalidated ==
  /\ Waiting /\ token
  /\ token' = FALSE
  /\ Goto(Sched, "snapshot")
  /\ UNCHANGED <<db, catalog, live, last, local, failures, told>>

TimerFires ==
  /\ Waiting
  /\ Goto(Sched, "snapshot")
  /\ UNCHANGED <<db, catalog, live, token, last, local, failures, told>>
-----------------------------------------------------------------------------
(***************************************************************************)
(* Requests.  Start picks the handler and the row it is about; validation  *)
(* that only reads is the error step of the first query.                   *)
(***************************************************************************)
FirstStep(h) ==
  CASE h = "board"     -> "current"
    [] h = "boardAt"   -> "snapshot"
    [] h = "events"    -> "subscribe"
    [] h = "timetable" -> "timetable"
    [] h = "createOverride"     -> "room"
    [] h = "deleteOverride"     -> "deleteOverride"
    [] h = "createAnnouncement" -> "announce"
    [] h = "createLesson"       -> "conflicts"
    [] h = "deleteLesson"       -> "room"

Start(r) ==
  /\ pc[r] = "start"
  /\ \E h \in Handlers :
       /\ op' = [op EXCEPT ![r] = h]
       /\ Goto(r, FirstStep(h))
       /\ CASE h = "createLesson" ->
                 \E l \in Lessons \ lessons :
                    /\ \A q \in Requests : arg[q] # l
                    /\ arg' = [arg EXCEPT ![r] = l]
            [] h = "deleteLesson" ->
                 \E l \in lessons : arg' = [arg EXCEPT ![r] = l]
            [] OTHER -> UNCHANGED arg
  /\ UNCHANGED <<db, catalog, live, token, last, site, snap, failures, told>>

InsertOverride(r) ==
  /\ pc[r] = "insertOverride"
  /\ overrides' = overrides + 1
  /\ Goto(r, "invalidate")
  /\ UNCHANGED <<lessons, announcements, catalog, live, token, last, local,
                 failures, told>>

\* DeleteOverride looks for the building only after the row is gone.
DeleteOverride(r) ==
  /\ pc[r] = "deleteOverride"
  /\ overrides' = overrides + 1
  /\ Goto(r, "room")
  /\ UNCHANGED <<lessons, announcements, catalog, live, token, last, local,
                 failures, told>>

InsertAnnouncement(r) ==
  /\ pc[r] = "insertAnnouncement"
  /\ announcements' = announcements + 1
  /\ Goto(r, "invalidate")
  /\ UNCHANGED <<lessons, overrides, catalog, live, token, last, local,
                 failures, told>>

\* The conflict check looks at the catalogue fetched before, not at the table.
InsertLesson(r) ==
  /\ pc[r] = "insertLesson"
  /\ IF \E l \in snap[r].lessons : <<arg[r], l>> \in Clash
     THEN Goto(r, "refused") /\ UNCHANGED lessons
     ELSE Goto(r, "reread") /\ lessons' = lessons \cup {arg[r]}
  /\ UNCHANGED <<overrides, announcements, catalog, live, token, last, local,
                 failures, told>>

\* InsertLesson ends with a second query for the stored row.
Reread(r) ==
  /\ pc[r] = "reread"
  /\ Goto(r, IF arg[r] \in lessons THEN "reload" ELSE "failed")
  /\ UNCHANGED <<db, catalog, live, token, last, local, failures, told>>

\* Overrides of the lesson cascade.  A missing row is ErrNotFound.
DeleteLesson(r) ==
  /\ pc[r] \in {"deleteLesson", "deleteUnlocated"}
  /\ IF arg[r] \in lessons
     THEN /\ lessons' = lessons \ {arg[r]}
          /\ overrides' = overrides + 1
          /\ Goto(r, IF pc[r] = "deleteLesson" THEN "reload" ELSE "everyBuilding")
     ELSE /\ Goto(r, "failed")
          /\ UNCHANGED <<lessons, overrides>>
  /\ UNCHANGED <<announcements, catalog, live, token, last, local, failures, told>>

\* The fallback when the building of a row is unknown: every building.
EveryBuilding(r) ==
  /\ pc[r] = "everyBuilding"
  /\ Goto(r, IF op[r] = "deleteLesson" THEN "reload" ELSE "invalidate")
  /\ UNCHANGED <<db, catalog, live, token, last, local, failures, told>>

ReloadCatalog(r) ==
  /\ pc[r] = "reload"
  /\ catalog' = None /\ live' = None
  /\ Goto(r, "invalidate")
  /\ UNCHANGED <<db, token, last, local, failures, told>>

\* Invalidate drops the cached snapshot under the lock ...
Invalidate(r) ==
  /\ pc[r] = "invalidate"
  /\ live' = None
  /\ Goto(r, "poke")
  /\ UNCHANGED <<db, catalog, token, last, local, failures, told>>

\* ... and then sends without blocking on a channel of capacity one.
Poke(r) ==
  /\ pc[r] = "poke"
  /\ token' = TRUE
  /\ told' = [overrides |-> overrides, announcements |-> announcements]
  /\ Goto(r, IF op[r] = "createLesson" THEN "view" ELSE "ok")
  /\ UNCHANGED <<db, catalog, live, last, local, failures>>
-----------------------------------------------------------------------------
\* Steps of any goroutine in the read path.
Read(p) ==
  \/ Lookup(p) \/ LoadCatalog(p) \/ InstallCatalog(p)
  \/ ReadOverrides(p) \/ ReadAnnouncements(p)
  \/ StoreLive(p) \/ PublishSnapshot(p)

\* Steps of a request only.
Handle(r) ==
  \/ Start(r) \/ Current(r) \/ HasSnapshot(r)
  \/ InsertOverride(r) \/ DeleteOverride(r) \/ InsertAnnouncement(r)
  \/ InsertLesson(r) \/ Reread(r) \/ DeleteLesson(r)
  \/ EveryBuilding(r) \/ ReloadCatalog(r) \/ Invalidate(r) \/ Poke(r)

Next ==
  \/ \E p \in Procs : Read(p) \/ Fail(p)
  \/ \E r \in Requests : Handle(r)
  \/ Invalidated
  \/ TimerFires

Spec == Init /\ [][Next]_vars

(***************************************************************************)
(* The Go runtime runs the scheduler goroutine, its queries return and its *)
(* timer fires.  Nothing is assumed of requests: a client may stall.       *)
(***************************************************************************)
Fairness == WF_vars(Read(Sched)) /\ WF_vars(TimerFires)

FairSpec == Spec /\ Fairness
-----------------------------------------------------------------------------
\* Every cache entry, program counter and working copy is of its kind: no error
\* path of a handler or of the scheduler leads to a statement there is not.
TypeOK ==
  /\ lessons \in SUBSET Lessons
  /\ overrides \in Nat /\ announcements \in Nat
  /\ catalog \in (SUBSET Lessons) \cup {None}
  /\ live \in Snapshot \cup {None}
  /\ last \in Snapshot \cup {None}
  /\ token \in BOOLEAN
  /\ pc \in [Procs -> Labels]
  /\ site \in [Procs -> CatalogCalls]
  /\ op \in [Procs -> AllHandlers \cup {None}]
  /\ arg \in [Procs -> Lessons \cup {None}]
  /\ snap \in [Procs -> Snapshot]
  /\ failures \in Nat
  /\ told \in [overrides : Nat, announcements : Nat]

\* The rows s was computed from include every override and announcement
\* committed when the tables had the versions in v.
Covers(s, v) == s.overrides >= v.overrides /\ s.announcements >= v.announcements

(***************************************************************************)
(* No lost wakeup.  When the scheduler sleeps after a successful rebuild   *)
(* and no tick waits in the channel, the snapshot it published covers      *)
(* every override and announcement whose invalidation was sent, however    *)
(* many invalidations the channel of capacity one merged and wherever in   *)
(* the rebuild they arrived (board.go:94-102, scheduler.go:43-79).         *)
(***************************************************************************)
NoLostWakeup ==
  pc[Sched] = "sleep" /\ ~token => Covers(snap[Sched], told)

Now == [overrides |-> overrides, announcements |-> announcements]

(***************************************************************************)
(* The snapshot replayed to new subscribers ends up covering every         *)
(* committed override and announcement and stays so, even when the handler *)
(* that wrote it never sent its invalidation and even when an events       *)
(* handler published an older snapshot late: the timer rebuilds            *)
(* (scheduler.go:70-78, server.go:489-497).                                *)
(***************************************************************************)
ReplayConverges == <>[](last # None /\ Covers(last, Now))

(***************************************************************************)
(* The live cache never keeps an outdated snapshot for good, although a    *)
(* slow Current may store one over the scheduler's (board.go:309-330).     *)
(***************************************************************************)
LiveConverges == <>[](live # None => Covers(live, Now))
-----------------------------------------------------------------------------
(***************************************************************************)
(* What comments of the code claim and its steps do not keep.              *)
(***************************************************************************)
AtRest ==
  /\ pc[Sched] = "sleep" /\ ~token
  /\ \A r \in Requests : pc[r] \in {"start", "ok", "refused"}

\* "Snapshots are remembered so that a new subscriber immediately gets the
\* current state" (broker.go:74-75): with nothing left to do, the remembered
\* snapshot covers what is committed.
ReplayIsCurrent == AtRest => Covers(last, Now)

\* CreateLesson "invalidates the building so every open screen gets the new
\* timetable" (board.go:743-744): in the end the last broadcast was computed
\* from the lessons in the database whenever nothing is left to do.
TimetableConverges == <>[](AtRest => last.lessons = lessons)

\* CreateLesson "refuses double bookings" (board.go:743).
NoDoubleBooking == Clash \cap (lessons \X lessons) = {}

\* "DeleteOverride removes an override and invalidates the building"
\* (board.go:573): a deletion that succeeded was followed by an invalidation.
DeletionIsTold == AtRest => Covers(told, Now)
=============================================================================

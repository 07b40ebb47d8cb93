# Campus Live: a verification project

Campus Live shows what happens in the rooms of a university building, now and
next, on wall screens and in browsers. A Go service (`services/api`) computes a
*snapshot* of a building from a weekly timetable and its point overrides,
publishes it over Server-Sent Events whenever it changes, and answers REST
requests; a Next.js application (`apps/web`) displays it. The building's floor
plans are traced and corrected in a map editor (`apps/map-editor`) and turned
into the map of the web pages by the floor-plan tools. These modules model the
core of the service, the state of a web page, the editor and the tools, state
what must hold of them, and prove part of that.

## The system and its parts

| Part | State it keeps | Operations | What must hold |
|---|---|---|---|
| Board service, `internal/service/board.go` | catalogue cache, live-snapshot cache, one capacity-1 channel per building | `catalog`, `Current`, `Rebuild`, `Invalidate`, `ReloadCatalog`, create/delete of overrides, lessons and announcements | no write is forgotten: caches and broadcasts converge; no double booking |
| Scheduler, `internal/scheduler` | timer, backoff | rebuild, publish, sleep until the next transition, midnight, or a poke | the board on the screens is the board of the present |
| Broker, `internal/realtime` | clients with bounded queues, last snapshot | `Publish`, `Subscribe`, unsubscribe, `ServeSSE` | no gaps, no repeats, a slow client is dropped once and leaves |
| Engine, `internal/engine` | none | `BuildDayTimeline`, `ComputeSnapshot`, `NextTransition` | what is announced (next change, free until) comes true |
| Repository, `internal/repo`, PostgreSQL | timetable, overrides, announcements | queries, one transaction per write | - |
| HTTP handlers, `internal/httpapi` | none | one goroutine per request, calls into board and broker | - |
| Clock, `internal/clock` | none | `Now` (real, offset, fixed) | - |
| Process, `cmd/api` | - | migrate, seed, start schedulers, serve, stop | shutdown ends |
| Web data: board store, realtime client, time travel | live and travelled snapshot, announcements, connection, the bar's timer and request | SSE events, drops and retries, refetch, watchdog, travel, go live | the board shows the live snapshot or the moment its clock says, and catches up |
| Web page: UI store, pager, kiosk, search | selection, filter, highlight, page of each section, floor of the kiosk, query with timer and requests | clicks, keys, rotation, kiosk step, search and choice | no row is skipped for ever; board and map agree; a search ends with its own result |
| Administrator panels, query cache | mount, last override, form, requests, lessons per room with their age | single changes and undo, lessons added and removed, invalidation, reset | undo is offered for what exists; the grid settles on what the server has |
| Clock of the page | offset to the server | interpolates | - |
| Map editor: history and plan store, `src/store` | plans, two stacks per floor, selection, tool, mode, issues | edits of points, walls, doors, rooms; drags; undo, redo, import | undo and redo are inverse; references whole; contours closed; issues current |
| Map editor: pages and geometry, `src/components`, `src/geometry` | drag, pending point | pointer and key handlers; contours, areas, snapping, validation | the readings of one contour agree |
| Floor-plan tools, map data: `tools`, `packages/map-data/scripts` | plan files, map | identities of faces, schema, check of the build, map for the web | every identity lands in its face, every room of a checked plan is drawn |
| Seed, configuration, contracts, generated code | - | run once or generated | - |

How they interact. A request handler writes to the database, drops the cached
snapshot under `b.mu` and sends on the channel without blocking. The scheduler
goroutine of the building receives from that channel or from its timer, rebuilds
through the same caches, and publishes to the hub of the broker. Under `h.mu`
the hub remembers the snapshot and offers it to the queue of every client; one
goroutine per connection drains a queue into its socket. The *events* handler,
too, may publish a snapshot, when it finds that none was published yet.

A web page receives those events through an `EventSource` into the board store,
refetches over REST when the stream comes back, and asks REST for the moment
picked on the bar after a debounce. Board, map, pager, kiosk and search read
that store and write the UI store. The panels send requests of their own and
see the effect through the stream and through `react-query`, whose cache they
invalidate. The editor never talks to the service: `generateFloors` writes plan
files from traced drawings, the editor imports and exports such files, and
`vector2map` makes of them the map that the web pages are built with.

What is hard here: request goroutines and the scheduler share two caches that
are filled outside the lock; pokes merge; the scheduler decides how long to
sleep from pure functions over the timetable; a client may fall behind and be
dropped while it leaves; queries fail between two steps of a handler. On a page,
timers, aborted requests, late answers and events of the stream meet in one
store, and what is cached beside the server's data goes stale. In the editor a
topology with shared walls is edited in place, under an undo history that holds
whole plans while selection, issues and drags are kept beside it.
`PROJECT.json` lists these hazards one by one, at the line where each bites.

## Modules

- **Board** - the caches, the channel, and every goroutine that touches them.
- **EventStream** - what the broker promises: a log of events, and connections
  that each receive a contiguous stretch of it after the last snapshot.
- **Broker** - the hub and the streaming goroutines; implements EventStream.
- **Engine** - phases, board contents and next transition (operators only).
- **Scheduler** - the loop against the clock; extends Engine.
- **Timeline** - a day's sessions from templates and overrides (operators only).
- **Timetable** - administrators editing the timetable; extends Timeline.
- **Client** - the data of a web page: store, stream, refetch, travel.
- **BoardPage** - board, map, pager, kiosk and search; extends Client, and takes
  the contents of a snapshot from Engine.
- **AdminPanels** - the two panels and the query cache; extends BoardPage.
- **WebPage** - the page they make together, its parts by the constant `Scenes`,
  and its fairness.
- **UndoTimeline** - what an undo history promises: versions in one line and a
  cursor.
- **HistoryStore** - history store and plans; implements UndoTimeline.
- **PlanGeometry, PlanBuild** - contours, issues, snapping; identities, schema,
  check and map (operators only).
- **Editor** - store, handlers and panels of the editor; extends HistoryStore
  and PlanBuild.
- **BoardProofs, BrokerProofs, SchedulerProofs, TimetableProofs,
  WebPageProofs, AdminPanelsProofs, HistoryStoreProofs, EditorProofs** - the
  theorems about the module in their name; those about the search are in
  WebPageProofs.
- **MCBoard, MCBroker, MCScheduler, MCTimetable, MCWeb, MCEditor** - instances
  for TLC.
  MCScheduler takes its timelines from Timeline, so the scheduler is checked
  with what the engine's first half gives it.

A definition whose comment begins "Variant of" is a plausible wrong version of
the definition after it. No specification uses it; it is there to show that the
property named for it in `PROJECT.json` would notice.

### Board

`pc[p]` is the statement a goroutine has reached. A step ends where another
goroutine may run in between: at each query and at each section under `b.mu`
or `h.mu`. `catalog()` is three steps (`Lookup`, `LoadCatalog`,
`InstallCatalog`), and a goroutine remembers in `site` from which call to
return. A snapshot is abstracted to the rows it was computed from: the set of
lessons, and how many writes of overrides and of announcements its queries
could see. `Fail` is any query that returns an error, or a row that is not
there; `AfterError` is what each caller does then, including the errors the
code drops. `told` is a history variable: the table versions at the last send
on the channel.

Left out: the several queries of `loadCatalog` are one step, since only the one
for lessons reads rows the program changes. The catalogue of other buildings is
not modelled; `EveryBuilding` is the query for their codes. A request runs once.

### Broker and EventStream

Each critical section of the hub is one step; `ServeSSE` takes one step per
`select` and one per write. `closes[c]` counts the closes of `c.done`. `log`,
`sent`, `joined`, `left` and `replay` are history variables, and through them
the hub implements EventStream. A write hands its bytes to the connection; what
the network does after that is not modelled.

### Engine and Scheduler

Instants are integers in any unit. A timeline is a set of sessions, because the
lists of the code are sorted copies of the sets; ids are ranks, and two sessions
that tie in everything but their id are ordered by it. `Rebuild` reads the clock
(`ReadClock`) and then the database, `Arm` reads the clock again as `NextWakeup`
does. Time passes (`Tick`) during a build and during a sleep. `Edit` is an
administrator's write together with its poke; Board has the steps in between.
Time zones are the constants `DateIn` and `Midnight`, of which only
`SchedulerAssumption` is assumed, so that days may have 23 or 25 hours. Not
modelled: a failing `Encode`, cancellation at shutdown, the fixed clock.
Sessions have no date of their own here; `timetable[d]` is what
`BuildDayTimeline` returns for `d`. `ThresholdsFit` is a hypothesis of one
theorem, not an assumption of the module.

### Timeline and Timetable

`Applied` is `applyOverride`. `Stages` applies the overrides of a lesson one by
one in order of creation and passes over those of other lessons and days;
`Materialised` is what is left after the last. `Left` keeps of the overrides
those of other lessons, as `on delete cascade` does. Both are recursive
functions, so that proofs can speak of them. Groups, courses and notes are left
out: groups take part in the double-booking check exactly as rooms and teachers
do. `CreateOverride` takes any override that passes its validation, moves to
rooms of another building and extras in rooms that are not schedulable included.
Requests come one at a time.

### Client

Of the server, whose steps are in Board and Broker, there is one action per
effect: it publishes snapshots `1..MaxVersion`, replays the current one to
whoever connects, and answers a request with what it has when it serves it. The
same holds for the days, lessons and changes of the modules after this one: a
handler of `board.go` is one step there. A snapshot is `Live(v)` or `Past(m)`.
`stream` is the EventSource with the events under way; it may drop with or
without an error, retry, and be given up by the browser after an answer that is
no stream. Ages of the last sign of life are 0, 1 (older than 30 s) and 2 (older
than 120 s). A debounce timer is the moment it is to ask for, a request under
way the moment it asked for. Two history variables name where the code shows
something else than it says: `disturbed` (a failed travel request, or a refetch
taken for a travelled answer) and `overtaken` (a refetch that replaced a newer
snapshot).

### BoardPage

The rows of a section are what Engine makes of the snapshot on the board,
filtered as the code filters them. The lists are given by rank: `InOrder` puts
at each place the element with so many before it, `FilterSessions` the row with
so many that pass before it. Of the days a snapshot is computed from, the module
assumes what the schema gives: finitely many sessions, each named once; of the
search, that a room it finds is on the map. `pager[s]` keeps page, rows per page
and hovering; `RowsOf` and `VisibleRows` are what is rendered of them. A query
has a timer and any number of requests, of which all but the last are aborted;
an aborted request still runs its `finally`. A choice of a teacher or a course
asks for a day and then sets a highlight. The kiosk steps through floors in use.

### AdminPanels

A mount of the panels has a number, because a request outlives it: its answer
then reaches a component that is gone. The query cache holds per room the data,
whether it is old, and the state of its fetch; a change invalidates all rooms
and refetches the one shown. An override knows its lesson: the server refuses one
for a lesson that is gone, and removing a lesson removes its overrides
(`OverridesWithout`, the `on delete cascade` of the schema). A request that was
given up may still be served. `unsure` and `excused` remember undoings that were
never answered, and rooms that a failure, a change served after it was given up,
or a fetch under way left stale. `errands` counts the requests of both panels and
the remounts, against the bound `MaxErrands`.

### WebPage

Bound: in one behaviour the visitor uses one part of the page (`scene`), of those
in `Scenes`. The parts meet in the stores they start from: live, travelled, or
without an answer; search and panels start live, the kiosk runs on the board. The
two panels of the administrator are one part, because they are mounted together
and what is done in one reaches the other through the server.

### UndoTimeline and HistoryStore

Abstractly a floor has one line of versions and a cursor. The mapping puts
`past`, the current plan and the reversed `future` behind one another
(`LineOf`), with the cursor after `past`. A drag revises the current version in
place. HistoryStore leaves open what a plan is; Editor's edits are its `Commit`
and gesture steps, and the run checks the mapping on Editor itself.

### PlanGeometry, PlanBuild and Editor

Coordinates are integers in a unit fine enough for the plans given, so the
tolerances of the code are zero; an arc is its apex and the sign of its bulge; a
door stands at quarters of its wall. A floor begins as a traced drawing under an
identity table, as `generateFloors` makes it; a wrong table makes none. One
action of Editor is one handler with every store call it makes: the push on the
history, the edit, the new issues. `drag` and `held` are FloorMap's refs for
points and labels, `pressed` is what the pointer holds; a label drag edits the
room it began with, whatever is selected or imported meanwhile. An import may
land after the mode was left, since the panel waits for the file. `SplitThrows`
is a split of a wall without an end: it throws when the plan has already been
pushed.
`Reach` and `Raws` bound what the pointer goes for, and only recorded changes
count against `MaxEdits`. `Rank` is the order of the levels, by which
`loadBundledFloors` sorts; `NoPlan` stands for a floor that is not in the list,
and no handler reads it. `Formed` says what the types of a plan promise of a
drawing or a file, and that areas of faces are numbers not below 0. The tools
read their inputs one by one and throw at the first that is wrong;
`AssignIdentities` and `Vector2Map` say when none is, which is the same outcome.
`vector2map` reads the files of two fixed floors, `Vector2Map` takes the floors
that are listed; that their viewBoxes are equal and that the map passes its JSON
schema is left out. That boundaries and outlines come closed, which no code
between a file and the editor checks, is `ClosedFiles`; the instance of the run
satisfies it.

## What the runs check

| Run | Question | Bounds |
|---|---|---|
| MCBoard | Is a poke ever lost, is every error path handled, do the replayed and the cached snapshot become current for good? | 2 requests of any of 8 handlers, 1 lesson, `MaxFailures` = 1; 4,946,311 states |
| MCBroker | Are streams gapless, do dropped clients leave, is EventStream implemented? | 2 connections, `ClientBuffer` = 2, `MaxEvents` = 3 |
| MCScheduler | Is the published board the present one; do its announcements come true? | 2 days of 12 instants, 2 rooms, 8 pairs of timelines, `MaxTime` = 23, `MaxLag` = 1, `MaxSleep` = 5 |
| MCTimetable | Is the board what the administrators asked for? | 3 templates, `MaxOverrides` = `MaxCreated` = 3, 5 dates |
| MCEditor | Do edits, undo and drags leave a plan whole, its issues current and the web map drawable; is UndoTimeline implemented? | 3 floors, 5 identity tables, 5 plan files, `Limit` = 1, `MaxEdits` = 2; 116,005 states |
| MCWeb | Does the board show what it says and catch up; does a search settle? | `Scenes` = stream, board, search; `MaxVersion` = `MaxTravels` = `MaxClicks` = 2, `MaxDrops` = 1; 138,155 states |
| MCPanels | Does the undo button offer what exists, does the grid settle, with both panels open? | `Scenes` = panels; `MaxErrands` = 2, 2 rooms, 1 cell; 3,066,060 states |
| MCBoardReplay, MCBoardTimetable, MCBoardBooking, MCBoardDeletion, MCSchedulerMidnight | Five claims of comments that the code does not keep | as above, with only the handlers concerned, and 2 clashing lessons |

Why the bounds are enough to be interesting. Two requests and the scheduler are
three goroutines, so that each cache has a reader, a writer and an invalidator
at once; the races found need no more. MCBoard leaves out one handler, the
snapshot of another moment, which touches of the shared state only the
catalogue, as the list of lessons does; two lessons matter to the double booking
alone. A queue of two holds a replayed snapshot and one event, so that the third
event drops a client that has a replay and one that has none, and a client may
be dropped while it writes, while it leaves, or not at all. `MaxSleep` is less
than half a day and more than most gaps, so that the loop sleeps for each of its
three reasons; `MaxLag` = 1 puts a boundary or midnight inside a build. Three
overrides are the fewest that tell the order of application (move, delay,
cancel) and a second move apart; the dates lie in both parities, before and
after the first Sunday, and at the end of the semester.

MCEditor's floors are a ring round a triangular island (a hole, walls walked
backwards), two rooms and a partition (a wall between two rooms, one outside,
and doors on them), and a floor that exists only as a file. A limit of one is
passed by the second change, so that the oldest plan is dropped and redo meets a
full history. Four of the five tables are wrong in one way each: an id twice, a
face without a name, two names in one face, a point outside; of the five files
one brings a floor, one replaces a floor, one fails the schema, one has no rooms
and one has rooms round a courtyard, and any export may be imported again.

MCWeb has two snapshots, so that a stream, a replay and a refetch may disagree,
one drop, so that there is a reconnect with a refetch, and two travels, so that
an answer may be late. Its two days differ in a moved lesson; windows of one and
two rows turn pages. Two clicks let a filter follow a highlight. MCPanels has two
errands: an override and its undoing, an override and the removal of its lesson,
a lesson added or removed and another, or one of these and another mount, each
with refusals, losses and late service; the theorems, that of the types of the
panels among them, are for any number.

`CHECK_DEADLOCK` is off where a bound ends the behaviour: all events published
and all connections gone, the last instant, the last override, recorded changes
used up, a visitor who has clicked enough; and a wrong identity table, with
which no floor is generated and the editor has nothing to open.

### What they show

Seven runs pass. Five runs find a claim violated; the traces are short:

1. **MCBoardReplay.** The events handler sees no snapshot, calls `Current`, and
   is overtaken by an override and by the scheduler. Its older snapshot then
   replaces the newer one, for new subscribers and on every screen. It is
   repaired by the next timer, which is what `ReplayConverges` says.
2. **MCBoardTimetable.** A catalogue load that overlaps `CreateLesson` installs
   the old timetable after it was dropped. Nothing repairs that until the
   timetable is changed again or the process restarts.
3. **MCBoardBooking.** Two requests for one slot pass the check together.
4. **MCBoardDeletion.** `DeleteOverride` reports success and tells nobody when
   the queries for its building fail.
5. **MCSchedulerMidnight.** `NextWakeup` reads the clock a second time; if
   midnight fell between, it waits for the next one.

No run claims what the following would break, because no document promises it (but
for the hint named below); the models have these behaviours, and the properties
say where they stop short:

- In travel mode the refetch of a reconnect is taken for the travelled answer
  (`boardStore.ts:101`, `disturbed`), and in live mode an older answer replaces
  a newer event (`boardStore.ts:105`, `overtaken`).
- A travel request that fails clears the loading flag and sets an error also for
  a moment that was left meanwhile (`useTimeTravel.ts:35`). The shell's Escape
  goes live by its own instance of the hook, so the bar's timer and request
  stay.
- A page that never received anything is not told offline by the watchdog
  (`useRealtime.ts:52`).
- The `finally` of an aborted search clears the flag of the next
  (`useSearch.ts:31`); a highlight stays that of the snapshot it was made from.
- The digit keys and Escape move the map's floor but not the board's filter
  (`CampusLiveApp.tsx:82`); a change that succeeds closes a form opened for
  another cell since (`SchedulePanel.tsx:60`); a fetch of a room that is not
  shown passes for fresh after an invalidation.
- The undo button goes on offering an override whose lesson was removed in the
  other panel (`DemoAdminPanel.tsx:105`); the server refuses it.
- The check of the build has no warning for a floor without rooms, nor for a wall
  with one neighbour that is flagged exterior but is not in the outline, as round
  a courtyard (`validateBoundary.ts:78`); neither floor is tiled.
- In the editor: splitting a wall does not rewrite the rings of holes
  (`mapStore.ts:222`), and deleting a wall does not look at them
  (`mapStore.ts:188`), although the hint of the tool promises to delete only
  walls that are in no contour (`EditorPanel.tsx:15`): of the walls of holes in
  the two real floors, 203 of 270 are in no boundary and can be deleted, upon
  which the check of the room reports a missing wall; splitting a wall that lost
  an end throws after the plan was pushed (`mapStore.ts:92`), so that one undo
  does nothing; the first point of a wall stays pending over undo and import
  (`mapStore.ts:163`); key E in the middle of a drag leaves the drag set
  (`FloorMap.tsx:85`); each move of a label records a version
  (`FloorMap.tsx:113`); snapping may make a wall of no length; and
  `generateFloors` writes a floor whose geometry it found wrong.

## Fairness

Board assumes weak fairness of the scheduler goroutine's reads and of its
timer: the Go runtime runs it, its queries return (with an error or without),
and `NextWakeup` never asks for more than `MaxSleep`. Nothing is assumed of
requests. Broker assumes that a write returns (the socket takes it or fails),
that a goroutine that is leaving leaves, and strong fairness of the two branches
of `select` for an event and for `done`, because Go chooses at random among
ready branches. Connections need not be made and events need not be published.

WebPage assumes that the browser delivers the events it has received, that time
passes, that the watchdog's interval runs, and that the pager and the kiosk
take their steps, because each is an interval of the page. It assumes nothing of
the server, of answers to requests, or of the visitor. The editor has no
fairness: nothing in it happens by itself.

## What is proved

All theorems hold for every value of the constants that the named assumptions of
the modules allow, checked by TLAPS. Every theorem is about the definitions that
the runs check.

**Service.**

- `BoardProofs!TypeCorrect`, `NoWakeupIsLost`. The type invariant alone is not
  inductive: that a request which checks conflicts has chosen a lesson
  (`LessonChosen`) is added. `NoLostWakeup` speaks of the sleeping scheduler
  only; `WakeupInv` says at every point of its loop that, once a query has run,
  either what it read covers every invalidation sent so far or a tick is in the
  channel. A request keeps it because it sends after its write is committed
  (`RequestSteps`), the scheduler because it takes the tick before it reads.
- `BrokerProofs!TypeCorrect`, `DoneClosedOnce`, `StreamsAreGapless`. `Registered`
  says at which points of its goroutine a client may be in the hub, and
  `Windows` bounds the stretch of the log it is to get, so that `Publish`
  extends it for registered clients and leaves it for the rest.
- `BrokerProofs!DrainedStreamsAreCurrent`. `NewestKnown` is added: the snapshot
  the hub remembers is the newest of the log and of what every registered client
  is to get. A client that joins late has it only through the replay, which is
  why the replay is part of the feed. `NoneAssumption` (nil is no event) is used.
- `BrokerProofs!BrokerImplementsEventStream`: the whole of `StreamSpec`, which
  has no fairness. One lemma per abstract action says which steps of the hub are
  Announce, Join, Receive and Leave; the rest stutter. Each rests on the
  invariants above: `Receive` on `Gapless` (the next event written is the next
  of the feed), `Announce` on `Windows`.
- `SchedulerProofs!TypeCorrect`, `NoChangeIsSkipped`, `SleepersAreCurrent`.
  `NoChangeIsSkipped` is about the engine alone: no session has a boundary
  between an instant and its next transition, therefore every phase, list, room
  and count is the same. `Faithful` (the snapshot the loop sleeps on is that of
  its instant, unless a poke waits) and `Planned` (the alarm is not after the
  transition or midnight) are invariants; with the theorem they give the
  property. That a least boundary exists is by well-founded induction on the
  naturals; sessions need not be finitely many.
- `SchedulerProofs!FreeRoomsStayFree`. The board that is settled is the one
  `Faithful` describes; in a room where nothing runs, whatever has not ended is
  waiting, and `freeUntil` is the start of the first that waits. That there is a
  first one (`FirstOfWaiting`, by start and then id) is what needs proof.
- `SchedulerProofs!TransitionsAreChanges`, under `ThresholdsFit`: a session is
  listed by the time it counts as soon, and lasts at least as long as it counts
  as ending. The thresholds come from the environment and nothing in the code
  relates them; without this the property is false, since a boundary may pass
  that moves nothing on the board. The defaults satisfy it with any slot of more
  than five minutes, and TLC checks it of the run's instance (`MCThresholds`).
  Each kind of boundary is one case of `BoundaryIsSeen`.
- `TimetableProofs!TypeCorrect`, `UntouchedStayApart`, `FoundWhereItIs`,
  `WeeksStayWhole`, `BoardIsAsPromised`. `TimetableInv` says that no two
  stored lessons are `Booked` against each other, which is what one request's
  check keeps, that overrides are well formed, and that each is of a stored
  lesson (`Kept`), which needs the cascade of `DeleteLesson`. `AppliedKeeps` is
  what holds of a session through its overrides: a session still "scheduled" has
  the time and room of its lesson, and a room that was left is remembered in
  `movedFrom`. From the two follows that two clashing sessions, still as
  planned, come from two lessons that were `Booked`. `PromiseGrows` compares the
  engine's session with the promise after each override, kind by kind.
  `SlotsAssumption` (slots do not overlap) is used; only the seed writes slots.

**Web page.** `webVars` has the variables of five components; one lemma per part
of the page says what the part does to the state a theorem is about, and most
leave it alone.

- `WebPageProofs!BoardIsHonest`: `BoardInv` adds to the property the types of
  the store and that a travelled clock stands at a moment (`travelAt # 0`), so
  that a page that went live is never taken to have asked for the answer that
  comes late; it rests on `0 \notin Moments` of `ClientAssumption`.
- `WebPageProofs!SearchSettlesAlways`: `WaitedForIsTyped` is added, that a
  request which was not aborted is for the query in the field. Without it the
  answer to an older query could be the last to come in.
- `WebPageProofs!BoardAndMapAlwaysAgree`, `PageIsTyped`. `ClientInv`, `PageInv`
  and `AdminInv` type what is under way in each part. Nothing keeps a page in
  range on its own: whoever changes the rows (a snapshot, a highlight, a tab)
  turns it back (`Turned`), and where the board is not used the pages are the
  first ones (`FirstPages`); TLC checked `PageInv` before it was proved. A
  highlight `Tells`: of the snapshot it was made from, it knows the rooms of all
  rows it leaves. That must hold of highlights whose snapshot is no longer
  shown, since a visitor may travel back to it, and it rests on the unique ids
  of a day's sessions. `Places` is the lemma under the lists: in a strict order
  of a finite set, exactly one element has a given number before it, so
  a list has each element once and nothing else. That a room is in use exactly
  when a row is in it then follows from Engine (`RoomInUse`), as does the pill of
  the row (`RunningPill`).
- `AdminPanelsProofs!UndoIsHonest`. The property alone is far from inductive:
  an order may be answered after the mount it came from is gone, and a lesson
  may go while an order for it is under way or its override is on offer.
  `UndoInv` numbers orders and mounts (`OrdersNumbered`), lets the panel wait for
  one answer (`OneIsAwaited`), says that nothing is undone before it was answered
  (`NothingUndoneEarly`), and to whom an undoing under way belongs
  (`UndoneIsOffered`). That an override which went with its lesson stays in the
  stated exception rests on `LessonsNumbered`: a new lesson has an identity of
  its own, so one that is gone never comes back.
- `AdminPanelsProofs!LessonsSettleAlways`. `FreshIsCurrent` and
  `AnswerIsCurrent` say that a cached room, or an answer on its way, differs
  from the server only while an answered change is still unheard of; the
  invalidation in the handler of the answer then ends the difference.
  `ShownIsFetched` says that a room that is shown and old is being fetched.

**Editor.**

- `HistoryStoreProofs!StoreTypeCorrect`, `HistoryStaysBounded`,
  `HistoryRefinesTimeline`, for any set of plans and any limit. The invariant is
  `StoreInv`, types and bound: undo and redo only move a version from one stack
  to the other, so the bound on their total length is what keeps `past` within
  the limit although redo does not cut it. Five lemmas (`PushRecords`,
  `UndoMoves`, `RedoMoves`, `GestureRevises`, `ImportRestarts`) compare the lines
  before and after version by version.
- `EditorProofs!EditorRefinesTimeline`: the running editor, too, implements
  UndoTimeline. The lemmas on the store hold for plans of any kind `P`;
  `EditorMoves` says that every handler of the editor leaves plans and history
  alone or takes one step of the store, `SomeKind` that the plans of a moment and
  the one an edit puts beside them are of one kind, so `MoveOfLine` applies.
- `EditorProofs!EditorTypeCorrect`, `EditorStaysBounded`, `IssuesStayCurrent`,
  `PinnedRoomStays`, for any drawings, files, identity tables and pointer
  targets. The shape of the proof is one predicate, `Shown`: every handler
  either puts an edit of the plan behind the versions of its floor, or steps
  among them, or takes over a plan read from a file, and says what it does to
  floor and selection (one lemma per group of handlers, `EditShown` to
  `HistoryShown`). `IssuesStayCurrent` then follows, because each way ends with
  a check of the plan it shows. `PinnedRoomStays` needs `RoomsStay`: all
  versions of a floor, in both stacks, have the rooms of the one that is shown;
  else undo could take the selected room away. `EditKeepsRooms` says that of
  each of the edits, `EditorAssumption` that files are plans.
- `EditorProofs!EditsKeepReferences`, `ContoursNeverOpen`. The second holds under
  `ClosedFiles`, the other theorems need no such thing. `RoomsStay` also says
  that all versions are `Sound`: what `EditKeepsReferences` asks, and each
  contour an `Outline`, whose walls are known with both ends and, under
  `ClosedFiles`, lead into one another. It must be said of all versions, as undo
  shows any of them again. There is a lemma for each edit (`WallAdded` to
  `RoomChanged`), put together in `EditKeepsSound`, and one for what a plan is
  read from (`SchemaSound`). Most keep the ends of the walls in use
  (`OutlinesKept`). Splitting does not: `OutlineSplit` takes a contour as parts
  that join (`Chain`), one or two references for each it had, and `FlattenChain`
  says that joined parts are a chain again. The halves have new ids by
  `NextIdIsFree`. Deleting a wall relies on the guard that no boundary and no
  outline uses it; the rings of holes, which that guard does not look at, are not
  in the theorem.
  `ClosedIsRound` ties this to `ValidateChain`, what the code calls closed.

- `EditorProofs!IdentitiesAlwaysLand`. `Untouched` says that until the first
  change the editor shows what was generated, with no history and no drag: undo
  and moves of the pointer, the steps that change plans without counting as a
  change, then have nothing to work on (`NothingTouched`). What was generated is
  right by `SmallestFace` and `EachNamesItsFace`.
- `EditorProofs!PlansAreShown`. `Proper` has all that is needed of every version:
  rooms, holes and doors are sequences, room ids are distinct. A wall that the
  schema knows is drawn (`RingDrawn`), so no hole drops out of a path
  (`RoomDrawn`) and no room or door out of the map (`FloorShown`). Holes are
  sequences in every version though splitting a wall may leave one with a
  missing wall; then the schema fails and the map is not made.

Recursion. `Stages`, `Left` and `Late` are recursive functions over the length
of a sequence, and so is what `FlattenSeq` is defined by. That they are what
their equations say is proved by a least counterexample (`LeastNat`,
well-founded induction on the naturals), for these four only: no theorem about
recursive definitions at large can be used. Filters in the modules proved about
are written with `FlattenSeq` (`Sifted`), and lists that are sorted or filtered
by rank (`InOrder`, `Kept`), since nothing is known of `SelectSeq` and `SortSeq`.

**Only model-checked**, and why:

- All liveness: `ReplayConverges`, `LiveConverges`, `EventsArrive`,
  `DroppedLeaves`, `LiveCatchesUp`, `SilenceIsNoticed`, `EveryRowComesRound`.
  ENABLED, on which fairness rests, is out of the prover's reach.
- `ContourReadingsAgree` and `CleanFloorIsTiled` compare areas and grid points
  of polygons, sums over their corners: to prove them takes an induction over
  data. `CleanFloorIsTiled` speaks of floors that are `Outlined`: the walls of
  the outline are in use, and a wall in use that is flagged exterior is in the
  outline. Without that it is false of the code, as the floor without rooms and
  the one round a courtyard show, which are among the files of the run.

## Not modelled

Process start and shutdown (next, see below); routing, authentication and DTO
mapping; service searches and listings that change nothing; seeding,
configuration and generated code; the clock of the page and what is derived from
it for words and bars; zoom, pan, parallax, tooltips, themes and languages; the
placing of labels, the drawing of doors and floating-point rounding; the fields
of forms; deployment and demo scripts. Either no state a property is about
depends on them, or they run once, alone, before anything else.

## Plan

Done, in this order: Board, Broker with EventStream, Engine and Scheduler,
Timeline and Timetable, because the guarantee that every screen shows the
present rests on them; then Client, BoardPage, AdminPanels and WebPage; then
UndoTimeline, HistoryStore, PlanGeometry, PlanBuild and Editor; each with its
runs and the theorems above.

Next, in this order:

1. **Lifecycle** - `cmd/api/main.go`: start, signal, `Shutdown` with open
   streams, the wait for the schedulers; and the context in Scheduler and
   Broker.

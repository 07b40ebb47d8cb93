----------------------------- MODULE AdminPanels -----------------------------
(***************************************************************************)
(* The two panels of an administrator: single changes of the day and their *)
(* undoing (DemoAdminPanel.tsx), and the weekly timetable of a room        *)
(* (SchedulePanel.tsx) with the query cache that stands behind it          *)
(* (react-query, as providers.tsx sets it up).  The server's handlers      *)
(* (board.go) are one step each: they serve a request or refuse it, and    *)
(* the request or its answer may be lost.  Left out: other administrators, *)
(* and the loading of the catalogue.                                       *)
(***************************************************************************)
EXTENDS BoardPage

CONSTANTS
    Catalogue,  \* bound: the rooms of the catalogue that are looked at, in its order
    Cells,      \* cells of the grid, numbered from 1
    Taught,     \* lessons there are at first: set of [id, room, cell]
    MaxErrands  \* bound: requests of the panels, and times the page is left

ASSUME AdminAssumption ==
    /\ Catalogue \in Seq(SchedulableRooms) /\ Catalogue # <<>>
    /\ 0 \notin Cells /\ MaxErrands \in Nat
    /\ Taught \subseteq [id : Int, room : Elements(Catalogue), cell : Cells]
    /\ \A l \in Taught : l.id < 0

VARIABLES
    key,        \* the key of the administrator: "unknown", "known" or "none"
    panel,      \* [life, last] : the mount of the panels, the override to undo
    orders,     \* requests of the demo panel under way
    overrides,  \* the server's overrides: set of [id, lesson]
    unsure,     \* history: overrides whose undoing was never answered
    grid,       \* [room, cell] of the timetable, cell 0 for no form
    changes,    \* requests for lessons under way
    lessons,    \* the server's lessons
    cache,      \* room -> [known, data, old, fetch]
    excused,    \* history: rooms that a failure or an early answer left stale
    errands     \* requests and leavings so far

panelVars == <<panel, orders, overrides, unsure>>
gridVars == <<grid, changes, lessons, cache, excused>>
adminVars == <<key, panelVars, gridVars, errands>>

Idle == [at |-> "none", data |-> {}]
Asked == [at |-> "sent", data |-> {}]
Edited == Elements(Catalogue)
FirstRoom == Head(Catalogue)
LessonsOf(r) == {l \in lessons : l.room = r}

NoLesson == [id |-> 0, room |-> "", cell |-> 0]
NoOverride == [id |-> 0, lesson |-> NoLesson]

\* A request nobody waits for any more belongs to no life.
Forgotten(request) == [request EXCEPT !.life = 0]

-----------------------------------------------------------------------------
(* Single changes. *)

Mine(requests) == {o \in requests : o.life = panel.life}
Busy == Mine(orders) # {}

Order(kind, of) ==
    /\ ui.adminOpen /\ ~ui.kiosk /\ key = "known"
    /\ errands < MaxErrands
    /\ errands' = errands + 1
    /\ orders' = orders \cup
         {[no |-> errands + 1, kind |-> kind, of |-> of, life |-> panel.life, stage |-> "sent"]}
    /\ UNCHANGED <<clientVars, pageVars, key, panel, overrides, unsure, gridVars>>

\* Cancelling, moving or delaying one of the sessions on the board, whose lesson
\* is as old as the board.
PlaceOrder ==
    /\ ~Busy
    /\ \E row \in Listed(Snapshot) : row.session.status # "cancelled"
    /\ \E l \in Taught \cup lessons : Order("make", [id |-> errands + 1, lesson |-> l])

UndoOrder == ~Busy /\ panel.last # NoOverride /\ Order("undo", panel.last)

Announce == ~Busy /\ Order("announce", NoOverride)

\* The server does as it is told, or refuses; the lesson of an override is looked
\* up, and an override can be deleted once.
OrderServed(o) ==
    \E done \in BOOLEAN :
        /\ o.stage = "sent"
        /\ done /\ o.kind = "make" => o.of.lesson \in lessons
        /\ done /\ o.kind = "undo" => o.of \in overrides
        /\ overrides' = CASE done /\ o.kind = "make" -> overrides \cup {o.of}
                          [] done /\ o.kind = "undo" -> overrides \ {o.of}
                          [] OTHER -> overrides
        /\ orders' = (orders \ {o})
                        \cup {[o EXCEPT !.stage = IF done THEN "done" ELSE "refused"]}
        /\ UNCHANGED <<clientVars, pageVars, key, panel, unsure, gridVars, errands>>

\* Variant of LastAfter: the undone override is offered again.
LastKept(o) == IF o.stage = "done" /\ o.kind = "make" THEN o.of ELSE panel.last

LastAfter(o) ==
    CASE o.stage = "done" /\ o.kind = "make" -> o.of
      [] o.stage = "done" /\ o.kind = "undo" -> NoOverride
      [] OTHER -> panel.last

\* run: what it sets after its await reaches only the panel that waited.
OrderAnswered(o) ==
    /\ o.stage # "sent"
    /\ orders' = orders \ {o}
    /\ panel' = IF o.life = panel.life THEN [panel EXCEPT !.last = LastAfter(o)] ELSE panel
    /\ UNCHANGED <<clientVars, pageVars, key, overrides, unsure, gridVars, errands>>

\* A timeout, or the network: the server may have served it, or still will.
OrderLost(o) ==
    /\ o.life # 0
    /\ orders' = (orders \ {o}) \cup {Forgotten(o)}
    /\ unsure' = IF o.kind = "undo" THEN unsure \cup {o.of} ELSE unsure
    /\ UNCHANGED <<clientVars, pageVars, key, panel, overrides, gridVars, errands>>

-----------------------------------------------------------------------------
(* The query cache. *)

Active(r) == ui.scheduleOpen /\ ~ui.kiosk /\ key = "known" /\ grid.room = r

\* A query that comes to be shown is fetched when it is stale: invalidated, or
\* half a minute old.
Visited(r, aged) ==
    IF cache[r].fetch = Idle /\ (~cache[r].known \/ cache[r].old \/ aged)
    THEN [cache EXCEPT ![r].fetch = Asked] ELSE cache

\* Whether invalidating the lessons starts the fetch of a room anew.
Restarts(r) == Active(r) /\ (cache[r].known \/ cache[r].fetch = Idle)

\* Variant of Invalidated: only the room that is shown now.
InvalidatedShown ==
    [r \in DOMAIN cache |->
        [cache[r] EXCEPT !.old = @ \/ Active(r), !.fetch = IF Restarts(r) THEN Asked ELSE @]]

Invalidated ==
    [r \in DOMAIN cache |->
        [cache[r] EXCEPT !.old = TRUE, !.fetch = IF Restarts(r) THEN Asked ELSE @]]

\* Rooms whose answer, already on its way, will pass for a fresh one.
PassingForFresh ==
    {r \in DOMAIN cache : /\ ~Restarts(r) /\ cache[r].fetch.at = "back"
                          /\ cache[r].fetch.data # LessonsOf(r)}

FetchServed(r) ==
    /\ cache[r].fetch.at = "sent"
    /\ cache' = [cache EXCEPT ![r].fetch = [at |-> "back", data |-> LessonsOf(r)]]
    /\ UNCHANGED <<clientVars, pageVars, key, panelVars, grid, changes, lessons, excused, errands>>

FetchLands(r) ==
    /\ cache[r].fetch.at = "back"
    /\ cache' = [cache EXCEPT ![r] =
                    [known |-> TRUE, data |-> @.fetch.data, old |-> FALSE, fetch |-> Idle]]
    /\ excused' = IF cache[r].fetch.data = LessonsOf(r) THEN excused \ {r} ELSE excused
    /\ UNCHANGED <<clientVars, pageVars, key, panelVars, grid, changes, lessons, errands>>

\* A fetch is given up after the second failure.
FetchFails(r) ==
    /\ cache[r].fetch # Idle
    /\ cache' = [cache EXCEPT ![r].fetch = Idle]
    /\ excused' = excused \cup {r}
    /\ UNCHANGED <<clientVars, pageVars, key, panelVars, grid, changes, lessons, errands>>

-----------------------------------------------------------------------------
(* The timetable. *)

KeyArrives(k) ==
    /\ key = "unknown"
    /\ key' = k
    /\ cache' = IF ui.scheduleOpen /\ k = "known" THEN Visited(grid.room, FALSE) ELSE cache
    /\ UNCHANGED <<clientVars, pageVars, panelVars, grid, changes, lessons, excused, errands>>

Shows(u, g) ==
    /\ ui' = u
    /\ grid' = g
    /\ cache' \in IF u.scheduleOpen /\ ~u.kiosk /\ key = "known" /\ <<u, g.room>> # <<ui, grid.room>>
                 THEN {Visited(g.room, aged) : aged \in BOOLEAN} ELSE {cache}
    /\ UNCHANGED <<clientVars, pager, driver, palette, picks, clicks, key, panelVars, changes,
                   lessons, excused, errands>>

OpenSchedule == ui.adminOpen /\ ~ui.scheduleOpen /\ Shows([ui EXCEPT !.scheduleOpen = TRUE], grid)

\* The cross and Escape; the form is gone with the panel.
CloseSchedule ==
    ui.scheduleOpen /\ Shows([ui EXCEPT !.scheduleOpen = FALSE], [grid EXCEPT !.cell = 0])

PickRoom(r) == ui.scheduleOpen /\ r # grid.room /\ Shows(ui, [room |-> r, cell |-> 0])

\* A cell offers a form while fewer than two lessons are in it.
PressAdd(c) ==
    /\ ui.scheduleOpen /\ key = "known" /\ c # grid.cell
    /\ Cardinality({l \in cache[grid.room].data : l.cell = c}) < 2
    /\ Shows(ui, [grid EXCEPT !.cell = c])

Creating == \E c \in Mine(changes) : c.kind = "add"
Removing == \E c \in Mine(changes) : c.kind = "remove"

CancelForm == grid.cell # 0 /\ ~Creating /\ Shows(ui, [grid EXCEPT !.cell = 0])

Change(kind, lesson) ==
    /\ ui.scheduleOpen /\ key = "known"
    /\ errands < MaxErrands
    /\ errands' = errands + 1
    /\ changes' = changes \cup
         {[kind |-> kind, lesson |-> lesson, life |-> panel.life, stage |-> "sent"]}
    /\ UNCHANGED <<clientVars, pageVars, key, panelVars, grid, lessons, cache, excused>>

SaveLesson ==
    /\ grid.cell # 0 /\ ~Creating
    /\ Change("add", [id |-> errands + 1, room |-> grid.room, cell |-> grid.cell])

RemoveLesson ==
    ~Removing /\ \E l \in cache[grid.room].data : Change("remove", l)

\* The overrides of a deleted lesson go with it.
OverridesWithout(l) == {v \in overrides : v.lesson # l}

\* Of a change that was given up nobody hears any more.
ChangeServed(c) ==
    /\ c.stage = "sent"
    /\ c.kind = "remove" => c.lesson \in lessons
    /\ lessons' = IF c.kind = "add" THEN lessons \cup {c.lesson} ELSE lessons \ {c.lesson}
    /\ overrides' = IF c.kind = "add" THEN overrides ELSE OverridesWithout(c.lesson)
    /\ changes' = (changes \ {c})
                     \cup (IF c.life = 0 THEN {} ELSE {[c EXCEPT !.stage = "done"]})
    /\ excused' = IF c.life = 0 THEN excused \cup {c.lesson.room} ELSE excused
    /\ UNCHANGED <<clientVars, pageVars, key, panel, orders, unsure, grid, cache, errands>>

\* onSuccess invalidates the lessons of every room, whoever still waits; a form
\* is closed, be it for another cell by now.
ChangeAnswered(c) ==
    /\ c.stage = "done"
    /\ changes' = changes \ {c}
    /\ cache' = Invalidated
    /\ excused' = excused \cup PassingForFresh
    /\ grid' = IF c.kind = "add" /\ c.life = panel.life THEN [grid EXCEPT !.cell = 0] ELSE grid
    /\ UNCHANGED <<clientVars, pageVars, key, panelVars, lessons, errands>>

\* It is refused, as for a lesson that clashes or is not there, or it never gets
\* through, or its answer does not: nothing is invalidated.
ChangeFails(c) ==
    /\ changes' = changes \ {c}
    /\ excused' = IF c.stage = "done" THEN excused \cup {c.lesson.room} ELSE excused
    /\ UNCHANGED <<clientVars, pageVars, key, panelVars, grid, lessons, cache, errands>>

\* A timeout, or the network: the server may still serve it.
ChangeLost(c) ==
    /\ c.stage = "sent" /\ c.life # 0
    /\ changes' = (changes \ {c}) \cup {Forgotten(c)}
    /\ UNCHANGED <<clientVars, pageVars, key, panelVars, grid, lessons, cache, excused, errands>>

-----------------------------------------------------------------------------
\* To the kiosk and back: the panels are mounted anew with the page.
Remount ==
    /\ errands < MaxErrands
    /\ errands' = errands + 1
    /\ panel' = [life |-> panel.life + 1, last |-> NoOverride]
    /\ grid' = [room |-> FirstRoom, cell |-> 0]
    /\ cache' \in IF ui.scheduleOpen /\ key = "known"
                 THEN {Visited(FirstRoom, aged) : aged \in BOOLEAN} ELSE {cache}
    /\ store' = StoreOpened(Live(version), 0, FALSE)
    /\ UNCHANGED <<version, stream, refetches, timer, asked, drops, travels, disturbed, overtaken,
                   pageVars, key, orders, overrides, unsure, changes, lessons, excused>>

OrdersNext ==
    \/ PlaceOrder \/ UndoOrder \/ Announce
    \/ \E o \in orders : OrderServed(o) \/ OrderAnswered(o) \/ OrderLost(o)

TimetableNext ==
    \/ OpenSchedule \/ CloseSchedule \/ CancelForm
    \/ \E r \in Edited :
        \/ PickRoom(r) \/ FetchServed(r) \/ FetchLands(r) \/ FetchFails(r)
    \/ \E c \in Cells : PressAdd(c)
    \/ SaveLesson \/ RemoveLesson
    \/ \E c \in changes :
        ChangeServed(c) \/ ChangeAnswered(c) \/ ChangeFails(c) \/ ChangeLost(c)

AdminNext ==
    \/ \E k \in {"known", "none"} : KeyArrives(k)
    \/ Remount
    \/ OrdersNext \/ TimetableNext

AdminInit ==
    /\ key = "unknown"
    /\ panel = [life |-> 1, last |-> NoOverride]
    /\ orders = {} /\ overrides = {} /\ unsure = {}
    /\ grid = [room |-> FirstRoom, cell |-> 0]
    /\ changes = {} /\ lessons = Taught
    /\ cache = [r \in Edited |->
                  [known |-> FALSE, data |-> {}, old |-> FALSE, fetch |-> Idle]]
    /\ excused = {} /\ errands = 0

-----------------------------------------------------------------------------
AdminTypeOK ==
    /\ key \in {"unknown", "known", "none"}
    /\ panel.life \in 1..errands + 1 /\ panel.last.id \in 0..errands
    /\ \A v \in overrides \cup unsure : v.id \in 1..errands
    /\ \A v \in overrides : v.lesson \in lessons
    /\ grid.room \in Edited /\ grid.cell \in {0} \cup Cells
    /\ \A r \in Edited : \A l \in cache[r].data \cup cache[r].fetch.data : l.room = r
    /\ excused \subseteq Edited

(* The button that undoes offers an override that exists, unless its       *)
(* undoing is under way or was never answered, or its lesson is no longer  *)
(* in the timetable: the override went with the lesson, and the button     *)
(* stays (DemoAdminPanel.tsx:105), to be refused.  And the panel waits for *)
(* one answer at a time, through closing, reopening and mounting it anew.  *)
UndoOffersWhatExists ==
    /\ \/ panel.last \in {NoOverride} \cup overrides \cup unsure
       \/ panel.last.lesson \notin lessons
       \/ \E o \in orders : o.kind = "undo" /\ o.of = panel.last
    /\ Cardinality(Mine(orders)) <= 1

(* Once nothing is under way the grid shows the lessons the server has,    *)
(* whichever rooms were looked at while lessons were added and removed;    *)
(* except after a failed fetch, a change that was given up and served all  *)
(* the same, or an answer from before the change that came in after it.    *)
LessonsSettle ==
    \A r \in Edited :
        /\ Active(r) /\ r \notin excused
        /\ changes = {} /\ cache[r].fetch = Idle
        => cache[r].known /\ cache[r].data = LessonsOf(r)
=============================================================================

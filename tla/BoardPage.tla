------------------------------ MODULE BoardPage ------------------------------
(***************************************************************************)
(* The board and the map of a web page: the UI store (uiStore.ts), the     *)
(* clicks and keys that change it, the rotating pages of the board         *)
(* (usePager.ts), the kiosk (KioskDriver.tsx) and the search               *)
(* (useSearch.ts, SearchPalette.tsx), over the snapshots of Client and the *)
(* engine that computes them.  Left out: zoom and pan of the plan, hovering*)
(* of rooms, colours, themes and languages.                                *)
(***************************************************************************)
EXTENDS Client

CONSTANTS
    Map,        \* room -> [floor, schedulable, labelled]
    Days,       \* snapshot -> [at, sessions] : the timeline it was computed from
    Answers,    \* query -> what the search finds: set of [kind, id]
    PerPages,   \* numbers of rows a window may have room for
    MaxClicks   \* bound: clicks, keys and queries of the visitor

VARIABLES
    ui,         \* the UI store, which outlives the page
    pager,      \* section of the board -> [page, per, hover]
    driver,     \* index of the kiosk's floor cycle, -1 before its first step
    palette,    \* the search: query, timer, requests, result, loading, failed
    picks,      \* chosen entries whose day is being asked for
    clicks      \* clicks and keys so far

pageVars == <<ui, pager, driver, palette, picks, clicks>>

Elements(s) == {s[i] : i \in DOMAIN s}

\* The elements of a set in order: at each place the one with so many before it.
InOrder(S, Before(_, _)) ==
    [i \in 1..Cardinality(S) |->
        CHOOSE x \in S : Cardinality({y \in S : Before(y, x)}) = i - 1]

SchedulableRooms == {c \in DOMAIN Map : Map[c].schedulable}
FloorNumbers == InOrder({Map[c].floor : c \in DOMAIN Map}, <)
Sections == {"now", "next"}
BusyPhases == {"live", "ending"}

E == INSTANCE Engine WITH
        Rooms <- DOMAIN Map, Schedulable <- SchedulableRooms,
        SoonWindow <- 2, EndingWindow <- 1, NextHorizon <- 5, Never <- "nil"

\* A day names a session once; the search finds rooms of the map.
ASSUME BoardPageAssumption ==
    /\ IsFiniteSet(DOMAIN Map)
    /\ \A c \in DOMAIN Map : Map[c].floor \in Nat \ {0}
    /\ PerPages \subseteq Nat \ {0} /\ MaxClicks \in Nat
    /\ (1..MaxVersion) \cup Moments \subseteq DOMAIN Days /\ 0 \notin DOMAIN Days
    /\ \A d \in DOMAIN Days :
        /\ Days[d].at \in Int /\ IsFiniteSet(Days[d].sessions)
        /\ \A s \in Days[d].sessions : E!IsSession(s)
        /\ \A s, u \in Days[d].sessions : s.id = u.id => s = u
    /\ \A q \in DOMAIN Answers : \A e \in Answers[q] : e.kind = "room" => e.id \in DOMAIN Map

\* The server's lists: what runs by its end, what follows by its start.
Ordered(rows, field) ==
    InOrder(rows, LAMBDA x, y :
        \/ x.session[field] < y.session[field]
        \/ x.session[field] = y.session[field] /\ x.session.id < y.session.id)

Board(day) ==
    LET c == E!Contents(day.sessions, day.at)
    IN  [now |-> Ordered(c.now, "end"), next |-> Ordered(c.next, "start"),
         phase |-> [r \in SchedulableRooms |-> c.rooms[r].phase]]

EmptyBoard == [now |-> <<>>, next |-> <<>>, phase |-> [r \in {} |-> ""]]
Boards == [s \in {0} \cup DOMAIN Days |-> IF s = 0 THEN EmptyBoard ELSE Board(Days[s])]
Snapshot == Boards[store.shown.at]
Listed(board) == Elements(board.now) \cup Elements(board.next)

NoHighlight == [kind |-> "none", id |-> "", rooms |-> {}, sessions |-> {}, asOf |-> 0]

FreshUi(kiosk) ==
    [focused |-> 0, floors |-> {}, selected |-> "", highlight |-> NoHighlight,
     kiosk |-> kiosk, searchOpen |-> FALSE, adminOpen |-> FALSE, scheduleOpen |-> FALSE]

FreshPager == [s \in Sections |-> [page |-> 0, per |-> 1, hover |-> FALSE]]
FreshPalette == [q |-> "", timer |-> FALSE, asked |-> <<>>, result |-> {},
                 loading |-> FALSE, failed |-> FALSE]

-----------------------------------------------------------------------------
(* What is drawn. *)

\* Which pill a row wears: cancelled, then the running phases, then the status.
PillKind(row) ==
    LET status == row.session.status
    IN  IF "cancelled" \in {row.phase, status} THEN "cancelled"
        ELSE IF row.phase \in {"live", "ending", "done"} THEN row.phase
        ELSE IF status \in {"moved", "delayed"} THEN status
        ELSE row.phase

\* A row passes the floors of the tabs and the highlight.
Passes(row, u) ==
    /\ u.floors = {} \/ Map[row.session.room].floor \in u.floors
    /\ u.highlight = NoHighlight \/ row.session.id \in u.highlight.sessions

\* The places of the rows that pass, and these rows in their order.
Kept(rows, u) == {i \in DOMAIN rows : Passes(rows[i], u)}
FilterSessions(rows, u) ==
    [k \in 1..Cardinality(Kept(rows, u)) |->
        rows[CHOOSE i \in Kept(rows, u) : Cardinality(Kept(rows, u) \cap 1..i) = k]]

RowsOf(section) == FilterSessions(Snapshot[section], ui)
RowCount(section) == Cardinality(Kept(Snapshot[section], ui))

PageCount(count, per) == IF count = 0 THEN 1 ELSE (count + per - 1) \div per

OnPage(count, per, p) ==
    [page |-> p, first |-> p * per + 1,
     last |-> IF count < (p + 1) * per THEN count ELSE (p + 1) * per]

\* Variant of Paginate: the page stays where it is when the rows shrink.
PaginateUnclamped(count, per, page) == OnPage(count, per, page)

Paginate(count, per, page) ==
    OnPage(count, per, IF page < PageCount(count, per) THEN page ELSE PageCount(count, per) - 1)

ShownPage(section) ==
    Paginate(RowCount(section), pager[section].per, pager[section].page)

Pages(section) == PageCount(RowCount(section), pager[section].per)

VisibleRows(section) ==
    LET p == ShownPage(section) IN {RowsOf(section)[i] : i \in p.first..p.last}

\* usePager puts the page back into range after whatever changed the rows.
Clamped(pg, u, board) ==
    [s \in Sections |-> [pg[s] EXCEPT !.page =
        Paginate(Cardinality(Kept(board[s], u)), pg[s].per, @).page]]

\* The rooms of a floor that are in use: the badge of its tab.
BusyByFloor(f) ==
    Cardinality({c \in DOMAIN Snapshot.phase :
                    Map[c].floor = f /\ Snapshot.phase[c] \in BusyPhases})

LayerMode(f) == IF ui.focused = 0 THEN "exploded" ELSE IF ui.focused = f THEN "focus" ELSE "background"

\* How a room is drawn beside the others.
DimState(c) ==
    IF ui.highlight # NoHighlight
    THEN IF c \in ui.highlight.rooms THEN "hit" ELSE "muted"
    ELSE IF ui.selected \notin {"", c} THEN "faded" ELSE "none"

\* In the stack labelled rooms take clicks; on the flat plan the pointer is
\* resolved by what lies under it, labelled or not.
Clickable(c) ==
    \/ LayerMode(Map[c].floor) = "exploded" /\ (Map[c].schedulable \/ Map[c].labelled)
    \/ LayerMode(Map[c].floor) = "focus"

-----------------------------------------------------------------------------
(* Clicks and keys. *)

Click(u) ==
    /\ clicks < MaxClicks
    /\ clicks' = clicks + 1
    /\ ui' = u
    /\ pager' = Clamped(pager, u, Snapshot)
    /\ UNCHANGED <<clientVars, driver, palette, picks>>

OnFloor(u, f) == [u EXCEPT !.focused = f, !.floors = IF f = 0 THEN {} ELSE {f}]

\* A tab, a tag beside the stack, the caption: focus and filter together.
PickFloor(f) == Click(OnFloor(ui, f))

\* The digit keys move the focus only, to a floor that may not exist.
PressDigit(d) == Click([ui EXCEPT !.focused = d])

\* Escape undoes one thing at a time; the schedule editor comes before all.
Escape ==
    /\ ~ui.searchOpen /\ ~ui.scheduleOpen
    /\ \/ ui.selected # "" /\ Click([ui EXCEPT !.selected = ""])
       \/ /\ ui.selected = "" /\ ui.highlight # NoHighlight
          /\ Click([ui EXCEPT !.highlight = NoHighlight])
       \/ /\ ui.selected = "" /\ ui.highlight = NoHighlight /\ ui.focused # 0
          /\ Click([ui EXCEPT !.focused = 0])
       \/ /\ ui.selected = "" /\ ui.highlight = NoHighlight /\ ui.focused = 0
          /\ store.mode = "travel"
          /\ GoLiveByShell
          /\ pager' = Clamped(pager, ui, Boards[store'.shown.at])
          /\ UNCHANGED <<ui, driver, palette, picks, clicks>>

\* onSelect: a room of the stack opens its floor, too.
ClickRoom(c) ==
    /\ Clickable(c)
    /\ Click(IF ui.focused = 0 THEN OnFloor([ui EXCEPT !.selected = c], Map[c].floor)
             ELSE [ui EXCEPT !.selected = c])

\* A click on the flat plan beside every room; the cross of the room panel.
Unselect == ui.selected # "" /\ Click([ui EXCEPT !.selected = ""])

ClickRow(row) == Click([ui EXCEPT !.selected = row.session.room])

\* The button of the room panel.
ShowOnMap == ui.selected # "" /\ Click(OnFloor(ui, Map[ui.selected].floor))

\* A row of the legend highlights the rooms of its phase, or nothing again.
ToggleLegend(phase) ==
    LET rooms == {c \in DOMAIN Snapshot.phase : Snapshot.phase[c] = phase}
        rows == {row \in Listed(Snapshot) : phase # "free" /\ row.session.room \in rooms}
        active == ui.highlight.kind = "phase" /\ ui.highlight.id = phase
    IN  Click([ui EXCEPT !.highlight =
            IF active THEN NoHighlight
            ELSE [kind |-> "phase", id |-> phase, rooms |-> rooms,
                  sessions |-> {row.session.id : row \in rows}, asOf |-> store.shown.at]])

ClearHighlight == ui.highlight # NoHighlight /\ Click([ui EXCEPT !.highlight = NoHighlight])

ToggleAdmin == ~ui.kiosk /\ Click([ui EXCEPT !.adminOpen = ~@])

-----------------------------------------------------------------------------
(* The pages of the board and the kiosk. *)

Paused(section) == pager[section].hover /\ ~ui.kiosk

Rotate(section) ==
    /\ ~Paused(section) /\ Pages(section) > 1
    /\ pager' = [pager EXCEPT ![section].page = (@ + 1) % Pages(section)]
    /\ UNCHANGED <<clientVars, ui, driver, palette, picks, clicks>>

\* The dots of a section, its hovering, its measured height.
TouchSection(section, touched) ==
    /\ clicks < MaxClicks
    /\ clicks' = clicks + 1
    /\ pager' = Clamped([pager EXCEPT ![section] = touched], ui, Snapshot)
    /\ UNCHANGED <<clientVars, ui, driver, palette, picks>>

PickDot(section, p) ==
    TouchSection(section, [pager[section] EXCEPT !.page = p])
Hover(section) == TouchSection(section, [pager[section] EXCEPT !.hover = ~@])
Resize(section, per) == TouchSection(section, [pager[section] EXCEPT !.per = per])

\* Every floorCycle seconds: all floors, then one after the other those in use.
KioskStep ==
    LET busy == InOrder({f \in Elements(FloorNumbers) : BusyByFloor(f) > 0}, <)
        cycle == <<0>> \o (IF busy = <<>> THEN FloorNumbers ELSE busy)
    IN  /\ ui.kiosk
        /\ driver' = (driver + 1) % Len(cycle)
        /\ ui' = OnFloor(ui, cycle[driver' + 1])
        /\ pager' = Clamped(pager, ui', Snapshot)
        /\ UNCHANGED <<clientVars, palette, picks, clicks>>

\* A page that opens brings its own board store and pager; the UI store stays,
\* unless the browser loads everything anew.
PageOpens(u) ==
    /\ clicks < MaxClicks
    /\ clicks' = clicks + 1
    /\ ui' = u
    /\ store' = StoreOpened(Live(version), 0, FALSE)
    /\ pager' = FreshPager
    /\ driver' = -1
    /\ palette' = FreshPalette
    /\ UNCHANGED <<version, stream, refetches, timer, asked, drops, travels, disturbed,
                   overtaken, picks>>

ToggleKiosk == PageOpens([ui EXCEPT !.kiosk = ~@, !.searchOpen = FALSE])

\* The state screen stands in for a map without data.
Reload ==
    /\ Snapshot = EmptyBoard /\ (store.error \/ store.connection = "offline")
    /\ PageOpens(FreshUi(ui.kiosk))

\* The server's next snapshot, and its arrival over the stream.
BoardPublished ==
    /\ version < MaxVersion
    /\ version' = version + 1
    /\ UNCHANGED <<stream, refetches, timer, asked, store, drops, travels, disturbed, overtaken,
                   pageVars>>

BoardDelivered ==
    /\ store.live.at < version
    /\ store' = Heard(SseSnapshot(store, version))
    /\ pager' = Clamped(pager, ui, Boards[store'.shown.at])
    /\ UNCHANGED <<version, stream, refetches, timer, asked, drops, travels, disturbed, overtaken,
                   ui, driver, palette, picks, clicks>>

-----------------------------------------------------------------------------
(* The search. *)

\* Variant of Queried: the request before is left running.
QueriedBeside(p, q) ==
    [p EXCEPT !.q = q, !.timer = q # "", !.loading = q # "", !.failed = FALSE,
              !.result = IF q = "" THEN {} ELSE @]

\* The effect of useSearch for a new query: it aborts the request before and
\* starts its timer, or empties the result at once.
Queried(p, q) ==
    [p EXCEPT !.q = q, !.timer = q # "", !.loading = q # "", !.failed = FALSE,
              !.result = IF q = "" THEN {} ELSE @,
              !.asked = [i \in DOMAIN @ |-> [@[i] EXCEPT !.aborted = TRUE]]]

OpenSearch ==
    /\ ~ui.searchOpen
    /\ ui' = [ui EXCEPT !.searchOpen = TRUE]
    /\ UNCHANGED <<clientVars, pager, driver, palette, picks, clicks>>

\* Closing the palette empties its query.
CloseSearch ==
    /\ ui.searchOpen
    /\ ui' = [ui EXCEPT !.searchOpen = FALSE]
    /\ palette' = Queried(palette, "")
    /\ UNCHANGED <<clientVars, pager, driver, picks, clicks>>

TypeQuery(q) ==
    /\ ui.searchOpen /\ q # palette.q
    /\ clicks < MaxClicks
    /\ clicks' = clicks + 1
    /\ palette' = Queried(palette, q)
    /\ UNCHANGED <<clientVars, ui, pager, driver, picks>>

\* 150 ms after the last key.
SearchAsked ==
    /\ palette.timer
    /\ palette' = [palette EXCEPT !.timer = FALSE,
                                  !.asked = Append(@, [q |-> palette.q, aborted |-> FALSE])]
    /\ UNCHANGED <<clientVars, ui, pager, driver, picks, clicks>>

SearchAnswered(i) ==
    /\ ~palette.asked[i].aborted
    /\ palette' = [palette EXCEPT !.asked = RemoveAt(@, i), !.loading = FALSE,
                                  !.result = Answers[palette.asked[i].q]]
    /\ UNCHANGED <<clientVars, ui, pager, driver, picks, clicks>>

\* An aborted or a failed request keeps the result before it, and clears the
\* loading flag, whoever has set it.
SearchFails(i) ==
    /\ palette' = [palette EXCEPT !.asked = RemoveAt(@, i), !.loading = FALSE,
                                  !.failed = @ \/ ~palette.asked[i].aborted]
    /\ UNCHANGED <<clientVars, ui, pager, driver, picks, clicks>>

\* Variant of Highlighted: rooms of sessions that are as planned only.
HighlightedAsPlanned(kind, id, sessions, asOf) ==
    [kind |-> kind, id |-> id,
     rooms |-> IF kind = "room" THEN {id}
               ELSE {s.room : s \in {x \in sessions : x.status = "scheduled"}},
     sessions |-> {s.id : s \in sessions}, asOf |-> asOf]

Highlighted(kind, id, sessions, asOf) ==
    [kind |-> kind, id |-> id,
     rooms |-> IF kind = "room" THEN {id}
               ELSE {s.room : s \in {x \in sessions : x.status # "cancelled"}},
     sessions |-> {s.id : s \in sessions}, asOf |-> asOf]

\* What the page itself knows of an entry: the rows of the snapshot it had.
KnownSessions(kind, id, board) ==
    {s \in {row.session : row \in Listed(board)} : s[kind] = id}

\* What the server answers for a room or a teacher (and, alike, a group): the
\* day, with the sessions that were moved out of the room.
DayOf(kind, id, sessions) ==
    {s \in sessions : s[kind] = id \/ (kind = "room" /\ s.from = id)}

WithChosen(u, h) ==
    LET lit == [u EXCEPT !.highlight = h]
    IN  IF h.kind = "room" THEN OnFloor([lit EXCEPT !.selected = h.id], Map[h.id].floor) ELSE lit

\* An entry is chosen: a course is looked up in the snapshot, the day of
\* anything else is asked for.
Choose(entry) ==
    LET h == Highlighted("course", entry.id, KnownSessions("course", entry.id, Snapshot),
                         store.shown.at)
        closed == [ui EXCEPT !.searchOpen = FALSE]
        course == entry.kind = "course"
    IN  /\ ui.searchOpen /\ entry \in palette.result
        /\ palette' = Queried(palette, "")
        /\ ui' = IF course THEN WithChosen(closed, h) ELSE closed
        /\ picks' = IF course THEN picks
                    ELSE Append(picks, [of |-> entry, seen |-> store.shown.at, served |-> 0])
        /\ pager' = Clamped(pager, ui', Snapshot)
        /\ UNCHANGED <<clientVars, driver, clicks>>

DayServed(i) ==
    /\ picks[i].served = 0
    /\ picks' = [picks EXCEPT ![i].served = version]
    /\ UNCHANGED <<clientVars, ui, pager, driver, palette, clicks>>

Chosen(i, sessions, asOf) ==
    /\ picks' = RemoveAt(picks, i)
    /\ ui' = WithChosen(ui, Highlighted(picks[i].of.kind, picks[i].of.id, sessions, asOf))
    /\ pager' = Clamped(pager, ui', Snapshot)
    /\ UNCHANGED <<clientVars, driver, palette, clicks>>

DayLands(i) ==
    LET p == picks[i] IN
    p.served # 0 /\ Chosen(i, DayOf(p.of.kind, p.of.id, Days[p.served].sessions), p.served)

\* Without an answer the snapshot of the moment of choosing has to do.
DayFails(i) ==
    LET p == picks[i] IN Chosen(i, KnownSessions(p.of.kind, p.of.id, Boards[p.seen]), p.seen)

-----------------------------------------------------------------------------
BoardNext ==
    \/ \E f \in {0} \cup Elements(FloorNumbers) : PickFloor(f)
    \/ \E d \in {0, 9} \cup Elements(FloorNumbers) : PressDigit(d)
    \/ Escape
    \/ \E c \in DOMAIN Map : ClickRoom(c)
    \/ Unselect
    \/ \E s \in Sections : \E row \in VisibleRows(s) : ClickRow(row)
    \/ ShowOnMap
    \/ \E phase \in {"live", "ending", "soon", "free"} : ToggleLegend(phase)
    \/ ClearHighlight
    \/ \E s \in Sections :
        \/ Rotate(s)
        \/ Hover(s)
        \/ \E p \in 0..Pages(s) - 1 : PickDot(s, p)
        \/ \E per \in PerPages : Resize(s, per)
    \/ KioskStep
    \/ ToggleKiosk
    \/ Reload
    \/ BoardPublished
    \/ BoardDelivered

SearchNext ==
    \/ OpenSearch
    \/ CloseSearch
    \/ \E q \in DOMAIN Answers : TypeQuery(q)
    \/ SearchAsked
    \/ \E i \in DOMAIN palette.asked : SearchAnswered(i) \/ SearchFails(i)
    \/ \E entry \in palette.result : Choose(entry)
    \/ \E i \in DOMAIN picks : DayServed(i) \/ DayLands(i) \/ DayFails(i)
    \/ Escape
    \/ BoardPublished
    \/ BoardDelivered

BoardInit ==
    /\ ui \in {[FreshUi(k) EXCEPT !.adminOpen = a] : k \in BOOLEAN, a \in BOOLEAN}
    /\ pager = FreshPager
    /\ driver = -1
    /\ palette = FreshPalette
    /\ picks = <<>>
    /\ clicks = 0

-----------------------------------------------------------------------------
BoardPageTypeOK ==
    /\ ui.focused \in Nat /\ ui.floors \subseteq Elements(FloorNumbers)
    /\ ui.selected \in {""} \cup DOMAIN Map
    /\ ui.highlight.rooms \subseteq DOMAIN Map
    /\ \A s \in Sections :
        /\ pager[s].page \in 0..Pages(s) - 1
        /\ pager[s].per \in {1} \cup PerPages
    /\ palette.result \in {Answers[q] : q \in DOMAIN Answers} \cup {{}}
    /\ clicks \in 0..MaxClicks

(* Board and map tell the same.  A room is drawn in use exactly when a row  *)
(* of NOW is in it, and such a row wears a running pill.  While the page    *)
(* shows the snapshot a highlight was made from, every row it leaves on the *)
(* board is in a room that is lit, unless its class is cancelled or was     *)
(* moved out of the room that was searched for.                             *)
BoardAndMapAgree ==
    /\ \A c \in SchedulableRooms :
        Snapshot # EmptyBoard =>
            (Snapshot.phase[c] \in BusyPhases
                <=> \E row \in Elements(Snapshot.now) : row.session.room = c)
    /\ \A row \in Elements(Snapshot.now) : PillKind(row) \in BusyPhases
    /\ ui.highlight # NoHighlight /\ ui.highlight.asOf = store.shown.at =>
        \A s \in Sections : \A row \in Elements(RowsOf(s)) :
            \/ DimState(row.session.room) = "hit"
            \/ row.session.status = "cancelled"
            \/ ui.highlight.kind = "room" /\ row.session.from = ui.highlight.id

(* When nothing is being typed, asked for or has failed, the palette lists  *)
(* what was found for the query in its field, however the answers to        *)
(* earlier queries came in.                                                 *)
SearchSettles ==
    ~palette.timer /\ ~palette.failed /\ (\A i \in DOMAIN palette.asked : palette.asked[i].aborted)
        => /\ palette.result = IF palette.q = "" THEN {} ELSE Answers[palette.q]
           /\ ~palette.loading
=============================================================================

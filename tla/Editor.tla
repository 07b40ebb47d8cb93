------------------------------- MODULE Editor -------------------------------
(***************************************************************************)
(* The map editor (apps/map-editor): the map store with its edits of the   *)
(* plan topology, the pointer and key handlers of FloorMap and MapViewport *)
(* and the buttons of the panels, over the history of HistoryStore and the *)
(* plans PlanBuild generates.  Left out: zoom and pan, search and status   *)
(* filter, messages, colours and sizes, which no edit depends on.          *)
(***************************************************************************)
EXTENDS HistoryStore, PlanBuild
LOCAL INSTANCE SequencesExt
LOCAL INSTANCE FiniteSetsExt

CONSTANTS
    Drawings,   \* floor -> traced drawing (tools/traced/*.json)
    Rank,       \* floor -> its place in the order of the levels
    Tables,     \* possible identity tables: floor -> sequence of entries
    Files,      \* plan files of other origin that may be imported
    Codes,      \* room-codes.json
    Raws,       \* places the pointer may drag a point to
    Reach,      \* floor -> [points, walls] : the ids the pointer goes for
    Snap,       \* settings of the snapping: step, threshold and what to snap to
    Width,      \* width of the drawings
    MaxEdits    \* bound: recorded changes in one session

\* The outline of a plan and the boundaries of its rooms.  The rings of the
\* holes, which the check of a room chains as well, are not in it: deleteWall
\* and splitWall do not look at them.
ClosedContours(plan) ==
    \A refs \in {plan.exterior} \cup {r.boundary : r \in Elements(plan.rooms)} :
        ValidateChain(plan, refs, "", "not-closed") = {}

\* Nothing between a file and the editor checks that boundaries and outline are
\* closed: where they have to be, it is said.
ClosedFiles ==
    /\ \A f \in DOMAIN Drawings : ClosedContours(Drawings[f])
    /\ \A p \in Files : FloorPlanSchema(p) => ClosedContours(p)

\* What is read as a plan, or as the drawing of one, has the form of one: ids
\* of walls are numbers here.
PlanFields == {"id", "points", "walls", "rooms", "exterior", "doors", "zones"}
Formed(p) ==
    /\ IsFiniteSet(DOMAIN p.walls) /\ DOMAIN p.walls \subseteq Nat
    /\ \A w \in DOMAIN p.walls : {"start", "end", "kind", "bulge"} \subseteq DOMAIN p.walls[w]
    /\ p.doors \in Seq(Elements(p.doors))
    /\ \A d \in Elements(p.doors) : {"id", "wall", "pos"} \subseteq DOMAIN d
    /\ p.exterior \in Seq(Elements(p.exterior))
    /\ p.rooms \in Seq(Elements(p.rooms))
    /\ \A r \in Elements(p.rooms) :
        /\ {"boundary", "holes"} \subseteq DOMAIN r
        /\ r.boundary \in Seq(Elements(r.boundary)) /\ r.holes \in Seq(Elements(r.holes))
        /\ \A ring \in Elements(r.holes) : ring \in Seq(Elements(ring))

\* 0 names no part of a plan.
ASSUME EditorAssumption ==
    /\ Rank \in [Floors -> Nat] /\ Floors # {} /\ MaxEdits \in Nat
    /\ \A f, g \in Floors : Rank[f] = Rank[g] => f = g
    /\ \A f \in DOMAIN Drawings :
        /\ f \in Floors /\ Drawings[f].id = f /\ Formed(Drawings[f])
        /\ \A face \in Elements(Drawings[f].rooms) : face.area \in Nat
    /\ \A p \in Files :
        /\ DOMAIN p = PlanFields /\ p.id \in Floors /\ Formed(p)
        /\ \A r \in Elements(p.rooms) : "id" \in DOMAIN r
    /\ \A f \in Floors : 0 \notin Reach[f].points \cup Reach[f].walls

VARIABLES
    table,      \* the identity table the floors were generated with
    listed,     \* floors in the list of the store
    active,     \* activeFloorId
    room,       \* selectedRoomId, "" for none
    sel,        \* editSel: wall, door and pending point; 0 for none
    mode,       \* "view" or "edit"
    tool,
    issues,     \* the issues of the active floor as last computed
    drag,       \* FloorMap's drag ref: the point held and its neighbours
    held,       \* its labelDrag ref: the room whose label is dragged, "" for none
    pressed,    \* what the pointer holds: "no", "handle" or "label"
    edits       \* recorded changes so far

uiVars == <<listed, active, room, sel, mode, tool, issues, drag, held, pressed>>
editorVars == <<plans, hist, table, uiVars, edits>>

NoSel == [wall |-> 0, door |-> 0, pending |-> 0]
NoDrag == [point |-> 0, neighbours |-> <<>>]
Tools == {"select", "addWall", "deleteWall", "splitWall", "addDoor"}
ThePlan == plans[active]
\* Selecting a wall or a door unselects the other and keeps a pending point;
\* selecting a point or nothing unselects both.
Selected(part, id) == [NoSel EXCEPT ![part] = id, !.pending = sel.pending]
Unselected == [NoSel EXCEPT !.pending = sel.pending]

-----------------------------------------------------------------------------
(* The edits, as functions of the plan. *)

\* nextId: count up from the number of entries until an id is free.
NextId(ids) == Min({n \in Cardinality(ids) + 1 .. 2 * Cardinality(ids) + Max(ids) + 1 : n \notin ids})

\* An entry of an object set, and one deleted.
With(f, x, v) == [y \in DOMAIN f \cup {x} |-> IF y = x THEN v ELSE f[y]]
Without(f, x) == [y \in DOMAIN f \ {x} |-> f[y]]

WithWall(plan, a, b) ==
    [plan EXCEPT !.walls =
        With(@, NextId(DOMAIN @), [start |-> a, end |-> b, kind |-> "line", bulge |-> 0,
                                   ext |-> FALSE, virtual |-> FALSE])]

WithoutWall(plan, id) ==
    [plan EXCEPT !.walls = Without(@, id),
                 !.doors = Sifted(@, LAMBDA d : d.wall # id)]

\* Variant of Rewritten: the halves come in the order of the wall.
RewrittenAlongWall(refs, id, w1, w2) ==
    FlattenSeq([i \in DOMAIN refs |->
        IF refs[i].wall # id THEN <<refs[i]>>
        ELSE <<[wall |-> w1, dir |-> refs[i].dir], [wall |-> w2, dir |-> refs[i].dir]>>])

\* A reference to the split wall becomes references to its halves, in the
\* order in which the contour runs through them.  Holes are left as they are.
Rewritten(refs, id, w1, w2) ==
    LET part(r) ==
            IF r.wall # id THEN <<r>>
            ELSE IF r.dir = 1 THEN <<[wall |-> w1, dir |-> 1], [wall |-> w2, dir |-> 1]>>
            ELSE <<[wall |-> w2, dir |-> -1], [wall |-> w1, dir |-> -1]>>
    IN  FlattenSeq([i \in DOMAIN refs |-> part(refs[i])])

MiddleOf(plan, w) ==
    LET a == plan.points[w.start]
        b == plan.points[w.end]
    IN  IF w.kind = "arc" THEN Apex(a, b, w.bulge)
        ELSE <<(a[1] + b[1]) \div 2, (a[2] + b[2]) \div 2>>

\* Variant of DoorAfterSplit: the doors of the second half are forgotten.
DoorAfterSplitFirst(d, id, w1, w2) ==
    IF d.wall = id /\ d.pos <= 1 THEN [d EXCEPT !.wall = w1, !.pos = @ * 2] ELSE d

\* Positions of doors are quarters of their wall.
DoorAfterSplit(d, id, w1, w2) ==
    IF d.wall # id THEN d
    ELSE IF d.pos <= 2 THEN [d EXCEPT !.wall = w1, !.pos = @ * 2]
    ELSE [d EXCEPT !.wall = w2, !.pos = (@ - 2) * 2]

WithSplitWall(plan, id) ==
    LET w == plan.walls[id]
        mid == NextId(DOMAIN plan.points)
        w1 == NextId(DOMAIN plan.walls)
        w2 == NextId(DOMAIN plan.walls \cup {w1})
        first == With(plan.walls, w1, [w EXCEPT !.end = mid])
        both == With(first, w2, [w EXCEPT !.start = mid])
    IN  [plan EXCEPT
            !.points = With(@, mid, MiddleOf(plan, w)),
            !.walls = Without(both, id),
            !.rooms = [i \in DOMAIN @ |->
                        LET r == plan.rooms[i]
                        IN  [r EXCEPT !.boundary = Rewritten(r.boundary, id, w1, w2)]],
            !.exterior = Rewritten(@, id, w1, w2),
            !.doors = [i \in DOMAIN @ |-> DoorAfterSplit(@[i], id, w1, w2)]]

\* An arc always has a bulge: the one it had, or a default one.
WithWallType(plan, id, kind) ==
    LET had == plan.walls[id].bulge
        bulge == IF kind = "line" THEN 0 ELSE IF had = 0 THEN 1 ELSE had
        typed == [plan.walls[id] EXCEPT !.kind = kind, !.bulge = bulge]
    IN  [plan EXCEPT !.walls[id] = typed]

\* setWallBulge: a slider at zero still gives a flat arc.
WithWallBulge(plan, id, bulge) ==
    LET drawn == IF bulge = 0 THEN 1 ELSE bulge
        arched == [plan.walls[id] EXCEPT !.kind = "arc", !.bulge = drawn]
    IN  [plan EXCEPT !.walls[id] = arched]

WithDoor(plan, id, wall, pos) ==
    [plan EXCEPT !.doors = Append(@, [id |-> id, wall |-> wall, pos |-> pos])]

WithDoorAt(plan, id, pos) ==
    [plan EXCEPT !.doors = [i \in DOMAIN @ |->
        IF @[i].id = id THEN [@[i] EXCEPT !.pos = pos] ELSE @[i]]]

WithoutDoor(plan, id) == [plan EXCEPT !.doors = Sifted(@, LAMBDA d : d.id # id)]

WithRoom(plan, id, field, value) ==
    [plan EXCEPT !.rooms = [i \in DOMAIN @ |->
        IF @[i].id = id THEN [@[i] EXCEPT ![field] = value] ELSE @[i]]]

DoorIds(plan) == {d.id : d \in Elements(plan.doors)}

-----------------------------------------------------------------------------
(* withCommit: every recorded change puts the plan before it in the history *)
(* and validates the new one.                                               *)
Edit(p) ==
    /\ edits < MaxEdits
    /\ edits' = edits + 1
    /\ Commit(active, p)
    /\ issues' = ValidateFloor(p)

\* Bound: a session whose changes are used up prepares no further one.
Editing == mode = "edit" /\ pressed = "no" /\ edits < MaxEdits
\* Bound: one thing at a time is selected, and tools are changed between.
Idle == room = "" /\ sel.wall = 0 /\ sel.door = 0
Reachable(ids, part) == ids \cap Reach[active][part]
DrawnWalls == {w \in DOMAIN ThePlan.walls : DoorDrawn(ThePlan, [wall |-> w])}

\* Variant of SetActiveFloor: the selected room is kept.
SetActiveFloorOnly(f) ==
    /\ pressed = "no"
    /\ active' = f
    /\ sel' = NoSel
    /\ issues' = ValidateFloor(plans[f])
    /\ UNCHANGED <<plans, hist, table, listed, room, mode, tool, drag, held, pressed, edits>>

SetActiveFloor(f) ==
    /\ pressed = "no"
    /\ active' = f
    /\ room' = ""
    /\ sel' = NoSel
    /\ issues' = ValidateFloor(plans[f])
    /\ UNCHANGED <<plans, hist, table, listed, mode, tool, drag, held, pressed, edits>>

\* Key E works at any time, also while a point is held: bound, as a change of
\* the session.
SetMode ==
    /\ edits < MaxEdits \/ (mode = "view" /\ drag # NoDrag)
    /\ edits' = IF mode = "edit" /\ drag # NoDrag THEN edits + 1 ELSE edits
    /\ mode' = IF mode = "edit" THEN "view" ELSE "edit"
    /\ tool' = "select"
    /\ sel' = NoSel
    /\ UNCHANGED <<plans, hist, table, listed, active, room, issues, drag, held, pressed>>

SetTool(t) ==
    /\ Editing /\ Idle
    /\ tool' = t
    /\ sel' = [sel EXCEPT !.pending = 0]
    /\ UNCHANGED <<plans, hist, table, listed, active, room, mode, issues, drag, held, pressed, edits>>

\* Escape, or a click that hits nothing.
Deselect ==
    /\ edits < MaxEdits
    /\ room' = ""
    /\ sel' = Unselected
    /\ UNCHANGED <<plans, hist, table, listed, active, mode, tool, issues, drag, held, pressed, edits>>

\* A click on the shape of a room, which an editing tool makes inert.
SelectRoom(r) ==
    /\ pressed = "no" /\ edits < MaxEdits /\ Idle
    /\ mode = "view" \/ tool = "select"
    /\ RoomPath(ThePlan, r.boundary, r.holes) # <<>>
    /\ room' = r.id
    /\ UNCHANGED <<plans, hist, table, listed, active, sel, mode, tool, issues, drag, held, pressed, edits>>

SelectWall(w) ==
    /\ Editing /\ tool \in {"select", "addWall"} /\ Idle /\ w \in DrawnWalls
    /\ sel' = Selected("wall", w)
    /\ UNCHANGED <<plans, hist, table, listed, active, room, mode, tool, issues, drag, held, pressed, edits>>

SelectDoor(d) ==
    /\ Editing /\ Idle
    /\ sel' = Selected("door", d)
    /\ UNCHANGED <<plans, hist, table, listed, active, room, mode, tool, issues, drag, held, pressed, edits>>

-----------------------------------------------------------------------------
(* Dragging a point.  The drag ends with a pointer-up on the handles; when  *)
(* key E has taken them away meanwhile, the release passes unseen and the   *)
(* drag goes on at the next move over the handles.                          *)
NeighboursOf(plan, p) ==
    LET at == SetToSortSeq({w \in DOMAIN plan.walls :
                    p \in {plan.walls[w].start, plan.walls[w].end}}, <)
        other(w) == IF plan.walls[w].start = p THEN plan.walls[w].end ELSE plan.walls[w].start
    IN  [i \in DOMAIN at |-> other(at[i])]

\* Bound: with the tool "select", though only "addWall" excludes it.
GrabPoint(p) ==
    /\ Editing /\ Idle /\ tool = "select"
    /\ edits' = edits + 1
    /\ BeginGesture(active)
    /\ sel' = Unselected
    /\ drag' = [point |-> p, neighbours |-> NeighboursOf(ThePlan, p)]
    /\ pressed' = "handle"
    /\ UNCHANGED <<table, listed, active, room, mode, tool, held, issues>>

MovePoint(raw, alt) ==
    LET opts == IF alt THEN [Snap EXCEPT !.points = FALSE, !.axis = FALSE, !.grid = FALSE] ELSE Snap
        at == SnapPoint(raw, ThePlan.points, drag.point, drag.neighbours, opts)
    IN  /\ mode = "edit" /\ drag # NoDrag
        /\ Revise(active, [ThePlan EXCEPT !.points = With(@, drag.point, at)])
        /\ UNCHANGED <<table, uiVars, edits>>

ReleasePoint ==
    /\ pressed = "handle"
    /\ pressed' = "no"
    /\ IF mode = "edit" /\ drag # NoDrag
       THEN drag' = NoDrag /\ issues' = ValidateFloor(ThePlan)
       ELSE UNCHANGED <<drag, issues>>
    /\ UNCHANGED <<plans, hist, table, listed, active, room, sel, mode, tool, held, edits>>

\* clickPointForWall: the first click remembers the point, the second joins
\* the two unless they are the same or already joined.
ClickPointForWall(p) ==
    LET pending == sel.pending
        joined == {w \in DOMAIN ThePlan.walls :
                    {ThePlan.walls[w].start, ThePlan.walls[w].end} = {pending, p}}
    IN  /\ Editing /\ tool = "addWall"
        /\ pressed' = "handle"
        /\ \/ /\ pending = 0
              /\ sel' = [sel EXCEPT !.pending = p]
              /\ UNCHANGED <<plans, hist, issues, edits>>
           \/ /\ pending = p
              /\ sel' = [sel EXCEPT !.pending = 0]
              /\ UNCHANGED <<plans, hist, issues, edits>>
           \/ /\ pending \notin {0, p} /\ joined # {}
              /\ sel' = [sel EXCEPT !.pending = 0, !.wall = Min(joined)]
              /\ UNCHANGED <<plans, hist, issues, edits>>
           \/ /\ pending \notin {0, p} /\ joined = {}
              /\ Edit(WithWall(ThePlan, pending, p))
              /\ sel' = [sel EXCEPT !.pending = 0]
        /\ UNCHANGED <<table, listed, active, room, mode, tool, drag, held>>

-----------------------------------------------------------------------------
(* Clicks on walls with a tool, and the buttons of the panels. *)

\* A wall is at hand through its tool, if it is drawn, or through the panel of
\* the selection, which also offers a wall that has lost an end.
AtHand(w, t) == Editing /\ ((tool = t /\ w \in DrawnWalls) \/ sel.wall = w)

DeleteWall(w) ==
    /\ AtHand(w, "deleteWall")
    /\ \A refs \in {ThePlan.exterior} \cup {r.boundary : r \in Elements(ThePlan.rooms)} :
            \A i \in DOMAIN refs : refs[i].wall # w
    /\ Edit(WithoutWall(ThePlan, w))
    /\ sel' = [sel EXCEPT !.wall = 0]
    /\ UNCHANGED <<table, listed, active, room, mode, tool, drag, held, pressed>>

SplitWall(w) ==
    /\ AtHand(w, "splitWall") /\ w \in DrawnWalls
    /\ Edit(WithSplitWall(ThePlan, w))
    /\ sel' = [sel EXCEPT !.wall = 0]
    /\ UNCHANGED <<table, listed, active, room, mode, tool, drag, held, pressed>>

\* Splitting a wall that has lost an end throws, after withCommit has pushed the
\* plan to the history; nothing else is changed.
SplitThrows(w) ==
    /\ mode = "edit" /\ pressed = "no"
    /\ sel.wall = w /\ w \notin DrawnWalls
    /\ BeginGesture(active)
    /\ UNCHANGED <<table, uiVars, edits>>

AddDoor(w, pos) ==
    LET id == Min({n \in 1..(Cardinality(DoorIds(ThePlan)) * 2 + 9) :
                    n > Len(ThePlan.doors) /\ n \notin DoorIds(ThePlan)})
    IN  /\ AtHand(w, "addDoor")
        /\ pos = 2 \/ (tool = "addDoor" /\ w \in DrawnWalls)
        /\ Edit(WithDoor(ThePlan, id, w, pos))
        /\ sel' = Selected("door", id)
        /\ UNCHANGED <<table, listed, active, room, mode, tool, drag, held, pressed>>

SetWallType(kind) ==
    /\ Editing /\ sel.wall \in DOMAIN ThePlan.walls
    /\ Edit(WithWallType(ThePlan, sel.wall, kind))
    /\ UNCHANGED <<table, listed, active, room, sel, mode, tool, drag, held, pressed>>

SetWallBulge(bulge) ==
    /\ Editing /\ sel.wall \in DOMAIN ThePlan.walls
    /\ ThePlan.walls[sel.wall].kind = "arc"
    /\ Edit(WithWallBulge(ThePlan, sel.wall, bulge))
    /\ UNCHANGED <<table, listed, active, room, sel, mode, tool, drag, held, pressed>>

UpdateDoor(pos) ==
    /\ Editing /\ sel.door \in DoorIds(ThePlan)
    /\ Edit(WithDoorAt(ThePlan, sel.door, pos))
    /\ UNCHANGED <<table, listed, active, room, sel, mode, tool, drag, held, pressed>>

DeleteDoor ==
    /\ Editing /\ sel.door \in DoorIds(ThePlan)
    /\ Edit(WithoutDoor(ThePlan, sel.door))
    /\ sel' = [sel EXCEPT !.door = 0]
    /\ UNCHANGED <<table, listed, active, room, mode, tool, drag, held, pressed>>

UpdateRoom(status) ==
    /\ Editing /\ room # ""
    /\ Edit(WithRoom(ThePlan, room, "status", status))
    /\ UNCHANGED <<table, listed, active, room, sel, mode, tool, drag, held, pressed>>

\* A label is drawn for a room that shows it, and for the selected one.
LabelDrawn(r) == \E x \in Elements(ThePlan.rooms) : x.id = r /\ (~x.hide \/ room = r)

\* Dragging a label: each move of the pointer is a recorded change of its own,
\* and one of a room the plan need not have any more.
GrabLabel(r) ==
    /\ Editing /\ tool = "select"
    /\ ~r.hide \/ room = r.id
    /\ pressed' = "label"
    /\ held' = r.id
    /\ room' = r.id
    /\ UNCHANGED <<plans, hist, table, listed, active, sel, mode, tool, issues, drag, edits>>

\* Moves and releases reach the labels from the one that holds the pointer, or
\* from one under it that could be dragged.
OverLabels ==
    /\ held # "" /\ pressed # "handle"
    /\ (pressed = "label" /\ LabelDrawn(held)) \/ (mode = "edit" /\ tool = "select")

MoveLabel(at) ==
    /\ OverLabels
    /\ Edit(WithRoom(ThePlan, held, "spot", at))
    /\ UNCHANGED <<table, listed, active, room, sel, mode, tool, drag, held, pressed>>

\* A label that left the map takes the capture of the pointer with it: the
\* release may pass unseen, and the drag goes on at the next move over labels
\* (bound: it counts as a change of the session).
ReleaseLabel ==
    /\ pressed' = "no"
    /\ \/ OverLabels /\ held' = "" /\ edits' = edits
       \/ /\ pressed = "label" /\ ~LabelDrawn(held)
          /\ edits < MaxEdits /\ edits' = edits + 1
          /\ held' = held
    /\ UNCHANGED <<plans, hist, table, listed, active, room, sel, mode, tool, issues, drag>>

-----------------------------------------------------------------------------
\* Variant of UndoKey: the plan is not validated again.
UndoKeyUnchecked ==
    /\ UndoStep(active)
    /\ UNCHANGED <<table, uiVars, edits>>

\* The keys of undo and redo work at any time and in both modes; the panel's
\* selection and a pending point stay as they are.
UndoKey ==
    /\ UndoStep(active)
    /\ issues' = ValidateFloor(plans'[active])
    /\ UNCHANGED <<table, listed, active, room, sel, mode, tool, drag, held, pressed, edits>>

RedoKey ==
    /\ RedoStep(active)
    /\ issues' = ValidateFloor(plans'[active])
    /\ UNCHANGED <<table, listed, active, room, sel, mode, tool, drag, held, pressed, edits>>

\* exportJson writes the plan that is shown as it is, valid or not.
ExportJson == ThePlan

\* Variant of Import: the selected room is kept.
ImportKeepingRoom(p) ==
    /\ edits < MaxEdits
    /\ edits' = edits + 1
    /\ FloorPlanSchema(p)
    /\ TakeOver(p.id, p)
    /\ listed' = listed \cup {p.id}
    /\ active' = p.id
    /\ issues' = ValidateFloor(p)
    /\ UNCHANGED <<table, room, sel, mode, tool, drag, held, pressed>>

\* onImport: a file that passes the schema replaces its floor or adds it, and
\* becomes the active one; a pending point survives.  The file is chosen in
\* the mode "edit" and read before it lands: key E may have left the mode by
\* then.
Import(p) ==
    /\ edits < MaxEdits
    /\ edits' = edits + 1
    /\ FloorPlanSchema(p)
    /\ TakeOver(p.id, p)
    /\ listed' = listed \cup {p.id}
    /\ active' = p.id
    /\ room' = ""
    /\ issues' = ValidateFloor(p)
    /\ UNCHANGED <<table, sel, mode, tool, drag, held, pressed>>

-----------------------------------------------------------------------------
Lowest(floors) == CHOOSE f \in floors : \A g \in floors : Rank[f] <= Rank[g]

\* Stands for the plan of a floor that is not listed.
NoPlan == [id |-> "", points |-> <<>>, walls |-> <<>>, rooms |-> <<>>, exterior |-> <<>>,
           doors |-> <<>>, zones |-> <<>>]

\* The editor opens with the generated floors that pass the schema, the lowest
\* first; without any it shows nothing, whatever active is.
EditorInit ==
    LET floors == GeneratedFloors(Drawings, table) IN
    /\ table \in Tables
    /\ listed = DOMAIN floors
    /\ plans = [f \in Floors |-> IF f \in listed THEN floors[f] ELSE NoPlan]
    /\ hist = [f \in Floors |-> EmptyHistory]
    /\ active = Lowest(IF listed = {} THEN Floors ELSE listed)
    /\ issues = IF listed = {} THEN {} ELSE ValidateFloor(plans[active])
    /\ room = ""
    /\ sel = NoSel
    /\ mode = "view"
    /\ tool = "select"
    /\ drag = NoDrag
    /\ held = ""
    /\ pressed = "no"
    /\ edits = 0

OnWalls ==
    \E w \in Reachable(DOMAIN ThePlan.walls, "walls") :
        \/ SelectWall(w)
        \/ DeleteWall(w)
        \/ SplitWall(w)
        \/ SplitThrows(w)
        \/ \E pos \in {1, 2} : AddDoor(w, pos)

OnPoints ==
    \/ \E p \in Reachable(DOMAIN ThePlan.points, "points") : GrabPoint(p) \/ ClickPointForWall(p)
    \/ \E raw \in Raws, alt \in BOOLEAN : MovePoint(raw, alt)
    \/ ReleasePoint

OnRooms ==
    \/ \E r \in Elements(ThePlan.rooms) : SelectRoom(r) \/ GrabLabel(r)
    \/ MoveLabel(CHOOSE raw \in Raws : TRUE)
    \/ ReleaseLabel
    \/ UpdateRoom("busy")

OnPanel ==
    \/ \E d \in DoorIds(ThePlan) : SelectDoor(d)
    \/ \E kind \in {"line", "arc"} : SetWallType(kind)
    \/ \E bulge \in {-1, 0} : SetWallBulge(bulge)
    \/ UpdateDoor(3)
    \/ DeleteDoor
    \/ \E p \in Files \cup {ExportJson} : Import(p)

EditorNext ==
    /\ listed # {}
    /\ \/ \E f \in listed : SetActiveFloor(f)
       \/ SetMode
       \/ \E t \in Tools : SetTool(t)
       \/ Deselect
       \/ OnWalls
       \/ OnPoints
       \/ OnRooms
       \/ OnPanel
       \/ UndoKey
       \/ RedoKey

EditorSpec == EditorInit /\ [][EditorNext]_editorVars

-----------------------------------------------------------------------------
RoomIds(plan) == Elements(IdsOf(plan.rooms))

EditorTypeOK ==
    /\ listed \subseteq Floors /\ active \in Floors
    /\ room \in {""} \cup UNION {RoomIds(plans[f]) : f \in Floors}
    /\ DOMAIN sel = {"wall", "door", "pending"}
    /\ mode \in {"view", "edit"} /\ tool \in Tools
    /\ pressed \in {"no", "handle", "label"}
    /\ edits \in 0..MaxEdits
    /\ \A f \in Floors : DOMAIN hist[f] = {"past", "future"}

(* The issues shown beside the plan are those of the plan that is shown,    *)
(* whatever edit, undo, import or change of floor came last; only while a   *)
(* point is being dragged are they those of the plan before the drag.       *)
IssuesAreCurrent ==
    listed # {} /\ drag = NoDrag => issues = ValidateFloor(ThePlan)

(* The edits keep what the references between the parts of a plan mean:     *)
(* every door, boundary and exterior has its walls, rooms have their own    *)
(* ids, signs have their room.  Holes and the ends of walls are not in it:  *)
(* splitWall and deleteWall forget the first, a point that was clicked and  *)
(* undone before the second click the other.                                *)
EditKeepsReferences ==
    \A f \in listed :
        /\ DoorsWhole(plans[f])
        /\ Distinct(IdsOf(plans[f].rooms))
        /\ RefsWhole(plans[f], plans[f].exterior)
        /\ \A r \in Elements(plans[f].rooms) : RefsWhole(plans[f], r.boundary)
        /\ \A w \in Elements([d \in DOMAIN plans[f].walls |-> plans[f].walls[d]]) :
                w.kind = "arc" => w.bulge # 0
        /\ \A z \in Elements(plans[f].zones) : z.room \in RoomIds(plans[f])

(* Boundaries of rooms and outlines that come closed stay closed through    *)
(* any edits: a wall is split into two halves that follow one another in    *)
(* each of them, in both directions of travel, and none of their walls can  *)
(* be deleted.  Of the rings of holes neither is true, and nothing is said. *)
ContoursStayClosed ==
    \A f \in listed :
        \A p \in {plans[f]} \cup Elements(hist[f].past) \cup Elements(hist[f].future) :
            ClosedContours(p)

(* The three ways in which the geometry code reads a contour agree (Pick):  *)
(* for a contour on the grid that does not meet itself, the shoelace area   *)
(* is what the grid points inside and those on it, halved, come to.         *)
OnRim(p, pts) ==
    \E i \in DOMAIN pts :
        Orient(pts[i], After(pts, i), p) = 0 /\ OnSegment(pts[i], After(pts, i), p)

SimpleContour(pts) ==
    /\ Len(pts) >= 3 /\ Distinct(pts) /\ ~SelfIntersects(pts)
    /\ \A i \in DOMAIN pts : \A c \in {1, 2} : pts[i][c] % Snap.step = 0
    /\ \A i, k \in DOMAIN pts :
            pts[k] \in {pts[i], After(pts, i)} \/ ~OnRim(pts[k], <<pts[i], After(pts, i)>>)

ContourReadingsAgree ==
    \A r \in Elements(ThePlan.rooms) :
        LET pts == Polyline(ThePlan, r.boundary)
            box == Box(pts)
            grid == {p \in (box.minX..box.maxX) \X (box.minY..box.maxY) :
                        p[1] % Snap.step = 0 /\ p[2] % Snap.step = 0}
            rim == {p \in grid : OnRim(p, pts)}
            inside == {p \in grid \ rim : PointInPolygon(p, pts)}
        IN  SimpleContour(pts) =>
                Magnitude(TwiceArea(pts))
                = Snap.step * Snap.step * (2 * Cardinality(inside) + Cardinality(rim) - 2)

(* What the check of the build does not look at: a wall that is marked as   *)
(* an outer one needs no neighbour, and a wall of the outline no room.  In  *)
(* an outlined plan each wall of the outline bounds a room, and the walls   *)
(* of rooms that are marked as outer ones are on the outline.               *)
Outlined(plan) ==
    LET walls(refs) == {r.wall : r \in Elements(refs)}
        outline == walls(plan.exterior)
        used == UNION {UNION {walls(ring) : ring \in {r.boundary} \cup Elements(r.holes)} :
                            r \in Elements(plan.rooms)}
    IN  /\ outline \subseteq used
        /\ \A w \in used : plan.walls[w].ext => w \in outline

(* A floor that is outlined and passes the check of the build without a     *)
(* warning about its walls is tiled: its rooms, holes taken off, are as     *)
(* large together as its outline, areas with the sign of their direction,   *)
(* and an arc between two rooms bulging into one of them as far as out of   *)
(* the other.  A floor without rooms and one with a courtyard pass the same *)
(* check and are not tiled: they are not outlined.                          *)
CleanFloorIsTiled ==
    /\ listed # {} /\ drag = NoDrag
    /\ GeometryChecks(ThePlan) /\ Outlined(ThePlan)
    /\ ~\E i \in issues : i.code \in {"gap", "unshared-wall"}
    =>
        LET rings(r) == <<r.boundary>> \o r.holes
            area(r) == Total([k \in DOMAIN rings(r) |-> TwiceArea(Polyline(ThePlan, rings(r)[k]))])
        IN  Total([i \in DOMAIN ThePlan.rooms |-> area(ThePlan.rooms[i])])
            = TwiceArea(Polyline(ThePlan, ThePlan.exterior))

(* The room whose details are shown is a room of the floor that is shown,   *)
(* also after an import replaced the rooms under it.                        *)
PinnedRoomIsOnTheFloor ==
    room # "" => room \in RoomIds(ThePlan)

(* Identities land where they point: in a generated floor each entry of the *)
(* table names the smallest face around its point, every entry is used and  *)
(* every face has a room of its own.                                        *)
IdentitiesLand ==
    edits = 0 => \A f \in listed :
        /\ Len(plans[f].rooms) = Len(Drawings[f].rooms)
        /\ \A k \in DOMAIN table[f] :
            \E i \in DOMAIN plans[f].rooms :
                LET face == Drawings[f].rooms[i]
                    around(g) == PointInRegion(table[f][k].at, g, Drawings[f])
                IN  /\ plans[f].rooms[i].id = table[f][k].id
                    /\ around(face)
                    /\ \A g \in Elements(Drawings[f].rooms) : around(g) => face.area <= g.area

(* What the editor holds the web can show: as soon as the plans pass the    *)
(* schema, the map draws each of their rooms once, with a code of its own   *)
(* and a ring through every wall of its boundary, and each of their doors.  *)
MapShowsThePlans ==
    LET map == Vector2Map([f \in listed |-> plans[f]], Codes, Width, 4)
        shown(f, r) == {k \in DOMAIN map[f].rooms : map[f].rooms[k].id = r.id}
    IN  (\A f \in listed : FloorPlanSchema(plans[f])) /\ map # <<>> =>
        /\ AllApart([f \in listed |-> [k \in DOMAIN map[f].rooms |-> map[f].rooms[k].code]])
        /\ \A f \in listed :
            /\ Len(map[f].doors) = Len(plans[f].doors)
            /\ \A r \in Elements(plans[f].rooms) : \E k \in shown(f, r) :
                /\ shown(f, r) = {k}
                /\ map[f].rooms[k].path[1] = [n \in DOMAIN r.boundary |-> r.boundary[n].wall]
                /\ Len(map[f].rooms[k].path) = 1 + Len(r.holes)
=============================================================================

----------------------------- MODULE PlanBuild -----------------------------
(***************************************************************************)
(* Where a floor plan comes from and where it goes: tools/tracedPlan.ts    *)
(* gives the faces of a traced drawing their identity, planSchema.ts is    *)
(* what a plan file must satisfy to be opened by the editor, and           *)
(* scripts/vector2map.ts turns the plans of the repository into the map    *)
(* the web pages draw.                                                     *)
(***************************************************************************)
EXTENDS PlanGeometry
LOCAL INSTANCE FiniteSetsExt
LOCAL INSTANCE TLC

Distinct(s) == \A i, j \in DOMAIN s : i # j => s[i] # s[j]
IdsOf(rooms) == [i \in DOMAIN rooms |-> rooms[i].id]
RoomNamed(plan, id) == CHOOSE r \in Elements(plan.rooms) : r.id = id

-----------------------------------------------------------------------------
(* Identity of the faces of a drawing. *)

\* The corners of a ring; the tools trust its references.
RingOf(refs, t) ==
    [i \in DOMAIN refs |->
        LET w == t.walls[refs[i].wall]
        IN  t.points[IF refs[i].dir = 1 THEN w.start ELSE w.end]]

\* Inside the outer ring and outside the holes.
PointInRegion(p, face, t) ==
    /\ PointInPolygon(p, RingOf(face.boundary, t))
    /\ ~\E k \in DOMAIN face.holes : PointInPolygon(p, RingOf(face.holes[k], t))

ServiceTypes == {"wc", "stairs", "lift", "tech", "corridor", "service", "lobby", "storage"}
UnnamedTypes == {"corridor", "hall", "lobby", "stairs", "tech", "service"}

\* The face an identity falls on: the smallest of those that hold its point.
FaceAt(p, t) ==
    LET hits == {i \in DOMAIN t.rooms : PointInRegion(p, t.rooms[i], t)}
        least == {i \in hits : \A j \in hits : t.rooms[i].area <= t.rooms[j].area}
    IN  IF hits = {} THEN 0 ELSE Min(least)

\* The face each entry of the table falls on, 0 for none.
FacesNamed(t, table) == [k \in DOMAIN table |-> FaceAt(table[k].at, t)]

\* Variant of AssignIdentities: a face may be named twice.
AssignOverTaken(t, table) ==
    LET faces == FacesNamed(t, table)
    IN  [ok |-> 0 \notin Elements(faces) /\ Distinct(IdsOf(table)),
         of |-> [i \in Elements(faces) |-> table[CHOOSE k \in DOMAIN table : faces[k] = i]]]

\* Every entry of the identity table names the face it falls on; one that
\* misses every face, hits a taken one or repeats an id ends the build.
AssignIdentities(t, table) ==
    LET faces == FacesNamed(t, table)
    IN  [ok |-> 0 \notin Elements(faces) /\ Distinct(faces) /\ Distinct(IdsOf(table)),
         of |-> [i \in Elements(faces) |-> table[CHOOSE k \in DOMAIN table : faces[k] = i]]]

Rounded10(n) == ((n + 5) \div 10) * 10

\* A face nobody named takes its type from the drawing and its id from where
\* its centre is, rounded to ten units.
UnnamedRoom(face, prefix) ==
    LET key == IF face.kind = "corridor" THEN "corridor"
               ELSE IF face.type \in UnnamedTypes THEN face.type ELSE "service"
    IN  [id   |-> prefix \o "-" \o key \o "-" \o ToString(Rounded10(face.centroid[1]))
                  \o "-" \o ToString(Rounded10(face.centroid[2])),
         type |-> key, hide |-> TRUE]

NamedRoom(face, ident) == [id |-> ident.id, type |-> ident.type, hide |-> ~face.label]

RoomOfFace(face, who) ==
    [id       |-> who.id,
     type     |-> who.type,
     status   |-> IF who.type \in ServiceTypes THEN "service" ELSE "free",
     boundary |-> face.boundary,
     holes    |-> face.holes,
     spot     |-> face.centroid,
     hide     |-> who.hide]

ZonesOf(rooms, type, kind) ==
    LET these == SelectSeq(rooms, LAMBDA r : r.type = type)
    IN  [i \in DOMAIN these |-> [kind |-> kind, room |-> these[i].id]]

PlanOfRooms(t, rooms) ==
    [id |-> t.id, points |-> t.points, walls |-> t.walls, rooms |-> rooms,
     exterior |-> t.exterior, doors |-> t.doors,
     zones |-> ZonesOf(rooms, "wc", "wc") \o ZonesOf(rooms, "tech", "shaft")]

\* Every face becomes a room, in the order of the drawing; a labelled face
\* that nobody named ends the build.
BuildFromNamed(t, named) ==
    LET face(i) == t.rooms[i]
        isNamed(i) == i \in DOMAIN named.of
    IN  [ok   |-> /\ named.ok
                  /\ \A i \in DOMAIN t.rooms : face(i).kind = "room" => isNamed(i),
         plan |-> PlanOfRooms(t,
                    [i \in DOMAIN t.rooms |->
                        RoomOfFace(face(i), IF isNamed(i) THEN NamedRoom(face(i), named.of[i])
                                            ELSE UnnamedRoom(face(i), t.id))])]

BuildFromTraced(t, table) == BuildFromNamed(t, AssignIdentities(t, table))

-----------------------------------------------------------------------------
(* What a plan file must satisfy. *)

WallsWhole(plan) ==
    \A id \in DOMAIN plan.walls :
        LET w == plan.walls[id] IN
        /\ {w.start, w.end} \subseteq DOMAIN plan.points
        /\ w.kind = "arc" => w.bulge # 0

RefsWhole(plan, refs) ==
    Len(refs) >= 3 /\ \A i \in DOMAIN refs : refs[i].wall \in DOMAIN plan.walls

RoomsWhole(plan) ==
    /\ Distinct(IdsOf(plan.rooms))
    /\ \A r \in Elements(plan.rooms) :
        /\ RefsWhole(plan, r.boundary)
        /\ \A k \in DOMAIN r.holes : RefsWhole(plan, r.holes[k])

DoorsWhole(plan) ==
    \A d \in Elements(plan.doors) : d.wall \in DOMAIN plan.walls /\ d.pos \in 0..4

FloorPlanSchema(plan) ==
    /\ WallsWhole(plan)
    /\ RoomsWhole(plan)
    /\ RefsWhole(plan, plan.exterior)
    /\ DoorsWhole(plan)
    /\ \A z \in Elements(plan.zones) : z.room \in Elements(IdsOf(plan.rooms))

\* generateFloors.ts writes a plan that passes the schema, its geometric
\* errors notwithstanding: they only make the tool exit with a failure.
GeneratedFloors(drawings, tables) ==
    LET built(f) == BuildFromTraced(drawings[f], tables[f])
    IN  IF \E f \in DOMAIN drawings : ~built(f).ok
        THEN [f \in {} |-> <<>>]
        ELSE [f \in {g \in DOMAIN drawings : FloorPlanSchema(built(g).plan)} |-> built(f).plan]

\* checkGeometry.ts, the same test in the build: schema, then geometry.
GeometryChecks(plan) ==
    FloorPlanSchema(plan) /\ ~\E i \in ValidateFloor(plan) : IsError(i)

-----------------------------------------------------------------------------
(* The map of the web pages. *)

MapServiceTypes == {"corridor", "wc", "stairs", "lift", "tech"}
FreeTypes == {"office", "class", "hall", "cafe"}

CodeOf(r, codes) == IF r.id \in DOMAIN codes THEN codes[r.id].code ELSE r.id
Schedulable(r, codes) == r.id \in DOMAIN codes /\ codes[r.id].schedulable

\* West and east of the strip around the middle, an eighth of the width.
WingOf(box, width) ==
    LET twiceC == box.minX + box.maxX
    IN  IF 8 * twiceC < 7 * width THEN "west"
        ELSE IF 8 * twiceC > 9 * width THEN "east" ELSE "core"

MapRoom(plan, r, codes, width) ==
    LET box == Box(Polyline(plan, r.boundary))
        fill == IF r.type \in MapServiceTypes THEN r.type
                ELSE IF Schedulable(r, codes) /\ r.type \in FreeTypes THEN "free" ELSE "service"
    IN  [id          |-> r.id,
         code        |-> CodeOf(r, codes),
         path        |-> RoomPath(plan, r.boundary, r.holes),
         service     |-> r.type \in MapServiceTypes,
         baseFill    |-> fill,
         schedulable |-> Schedulable(r, codes),
         wing        |-> WingOf(box, width),
         box         |-> box]

HasContour(plan, r) ==
    /\ Len(Polyline(plan, r.boundary)) >= 3
    /\ RoomPath(plan, r.boundary, r.holes) # <<>>

\* A door is drawn where its wall and both ends of it are.
DoorDrawn(plan, d) ==
    /\ d.wall \in DOMAIN plan.walls
    /\ {plan.walls[d.wall].start, plan.walls[d.wall].end} \subseteq DOMAIN plan.points

\* The sign of a restroom stands in for a hidden label, where there is space
\* for it; a shaft is always hatched.
ZoneDrawn(plan, z, minimum) ==
    /\ z.room \in Elements(IdsOf(plan.rooms))
    /\ LET r == RoomNamed(plan, z.room)
           poly == Polyline(plan, r.boundary)
           box == Box(poly)
           size == Min({box.maxX - box.minX, box.maxY - box.minY})
       IN  /\ Len(poly) >= 3
           /\ z.kind = "wc" => r.hide /\ size >= minimum

\* The strokes of the drawing, which the map shows instead of the walls where a
\* plan has them, are left out.
MapFloor(plan, codes, width, minimum) ==
    LET rooms == Sifted(plan.rooms, LAMBDA r : HasContour(plan, r))
    IN  [rooms    |-> [i \in DOMAIN rooms |-> MapRoom(plan, rooms[i], codes, width)],
         exterior |-> RoomPath(plan, plan.exterior, <<>>),
         walls    |-> {w \in DOMAIN plan.walls :
                         ~plan.walls[w].virtual /\ DoorDrawn(plan, [wall |-> w])},
         doors    |-> Sifted(plan.doors, LAMBDA d : DoorDrawn(plan, d)),
         zones    |-> Sifted(plan.zones, LAMBDA z : ZoneDrawn(plan, z, minimum))]

CodesOf(plan, codes) == [k \in DOMAIN plan.rooms |-> CodeOf(plan.rooms[k], codes)]

\* No two entries of the lists, nor of one of them, are the same.
AllApart(lists) ==
    \A i, j \in DOMAIN lists : \A k \in DOMAIN lists[i], l \in DOMAIN lists[j] :
        lists[i][k] = lists[j][l] => i = j /\ k = l

\* Variant of Vector2Map: codes are not compared across floors.
Vector2MapPerFloor(floors, codes, width, minimum) ==
    IF \A f \in DOMAIN floors : Distinct(CodesOf(floors[f], codes))
    THEN [f \in DOMAIN floors |-> MapFloor(floors[f], codes, width, minimum)]
    ELSE <<>>

\* vector2map: the map of each floor (the code lists them by level), or nothing
\* when a code is given twice, an entry of room-codes.json names no room, or a
\* room has no contour.  The code reads the files of two floors, here it is
\* whatever floors are listed; that viewBoxes are equal and that the result
\* passes its JSON schema is left out.
Vector2Map(floors, codes, width, minimum) ==
    LET whole == \A f \in DOMAIN floors : \A r \in Elements(floors[f].rooms) :
                    HasContour(floors[f], r)
        known == DOMAIN codes \subseteq UNION {Elements(IdsOf(floors[f].rooms)) : f \in DOMAIN floors}
        unique == AllApart([f \in DOMAIN floors |-> CodesOf(floors[f], codes)])
    IN  IF whole /\ known /\ unique
        THEN [f \in DOMAIN floors |-> MapFloor(floors[f], codes, width, minimum)]
        ELSE <<>>
=============================================================================

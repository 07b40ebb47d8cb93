---------------------------- MODULE PlanGeometry ----------------------------
(***************************************************************************)
(* The geometry of a vector floor plan, as the map editor computes it      *)
(* (apps/map-editor/src/geometry).  Points are pairs of integers: the      *)
(* model's unit is fine enough for the plans it is given, so coordinates   *)
(* are exact where the code has doubles and its tolerances are zero.  An   *)
(* arc is kept by the sign of its bulge and drawn through one sample, its  *)
(* apex, as the half circle of that side.                                  *)
(*                                                                         *)
(* A plan is a record of points (id -> point), walls (id -> wall), rooms   *)
(* and doors (sequences), exterior (a sequence of wall references) and     *)
(* zones (ids of the rooms that carry an icon).                            *)
(***************************************************************************)
EXTENDS Integers, Sequences, FiniteSets
LOCAL INSTANCE SequencesExt
LOCAL INSTANCE FiniteSetsExt
LOCAL INSTANCE Functions

Elements(s) == {s[i] : i \in DOMAIN s}
Total(f) == FoldFunction(+, 0, f)
Magnitude(n) == IF n < 0 THEN -n ELSE n

\* Array.filter, as SelectSeq, of which the provers know nothing.
Sifted(s, Keep(_)) == FlattenSeq([i \in DOMAIN s |-> IF Keep(s[i]) THEN <<s[i]>> ELSE <<>>])

-----------------------------------------------------------------------------
\* Variant of Resolve: an arc bulges to the same hand in either direction.
ResolveUnturned(plan, refs) ==
    [i \in DOMAIN refs |->
        LET w == plan.walls[refs[i].wall] IN
        [wall  |-> refs[i].wall,
         from  |-> IF refs[i].dir = 1 THEN w.start ELSE w.end,
         to    |-> IF refs[i].dir = 1 THEN w.end ELSE w.start,
         bulge |-> w.bulge]]

\* The references of a contour as directed segments; a reference whose wall
\* or point is missing is skipped.
Resolve(plan, refs) ==
    LET ends(r) == {plan.walls[r.wall].start, plan.walls[r.wall].end}
        known(r) == /\ r.wall \in DOMAIN plan.walls
                    /\ ends(r) \subseteq DOMAIN plan.points
        segment(r) ==
            LET w == plan.walls[r.wall] IN
            [wall  |-> r.wall,
             from  |-> IF r.dir = 1 THEN w.start ELSE w.end,
             to    |-> IF r.dir = 1 THEN w.end ELSE w.start,
             bulge |-> IF w.kind = "arc" THEN w.bulge * r.dir ELSE 0]
        kept == Sifted(refs, known)
    IN  [i \in DOMAIN kept |-> segment(kept[i])]

\* The middle of the arc over the chord a b; its centre lies on the other side.
Apex(a, b, bulge) ==
    <<(a[1] + b[1] + bulge * (b[2] - a[2])) \div 2,
      (a[2] + b[2] - bulge * (b[1] - a[1])) \div 2>>

\* The corners of a contour, an arc replaced by its samples.
Polyline(plan, refs) ==
    LET segs == Resolve(plan, refs)
        corners(s) ==
            LET a == plan.points[s.from]
                b == plan.points[s.to]
            IN  IF s.bulge = 0 THEN <<a>> ELSE <<a, Apex(a, b, s.bulge)>>
    IN  FlattenSeq([i \in DOMAIN segs |-> corners(segs[i])])

\* The commands of the SVG path of one ring: the wall drawn by each of them.
RingPath(plan, refs) ==
    LET segs == Resolve(plan, refs) IN [i \in DOMAIN segs |-> segs[i].wall]

\* Outer ring and the rings of the holes that are not empty.
RoomPath(plan, boundary, holes) ==
    LET outer == RingPath(plan, boundary)
        inner == Sifted([i \in DOMAIN holes |-> RingPath(plan, holes[i])],
                        LAMBDA ring : ring # <<>>)
    IN  IF outer = <<>> THEN <<>> ELSE <<outer>> \o inner

After(pts, i) == pts[(i % Len(pts)) + 1]

\* Twice the signed area: positive for a clockwise contour on the screen.
TwiceArea(pts) ==
    Total([i \in DOMAIN pts |->
             pts[i][1] * After(pts, i)[2] - After(pts, i)[1] * pts[i][2]])

Box(pts) ==
    LET xs == {p[1] : p \in Elements(pts)}
        ys == {p[2] : p \in Elements(pts)}
    IN  [minX |-> Min(xs), minY |-> Min(ys), maxX |-> Max(xs), maxY |-> Max(ys)]

-----------------------------------------------------------------------------
Orient(a, b, c) ==
    (b[1] - a[1]) * (c[2] - a[2]) - (b[2] - a[2]) * (c[1] - a[1])

OnSegment(a, b, p) ==
    /\ Min({a[1], b[1]}) <= p[1] /\ p[1] <= Max({a[1], b[1]})
    /\ Min({a[2], b[2]}) <= p[2] /\ p[2] <= Max({a[2], b[2]})

\* A proper crossing, or a collinear overlap; touching ends do not count.
SegmentsIntersect(a, b, c, d) ==
    LET inner(p) == OnSegment(a, b, p) /\ p # a /\ p # b
        opposite(m, n) == (m < 0 /\ n > 0) \/ (m > 0 /\ n < 0)
    IN  \/ /\ opposite(Orient(a, b, c), Orient(a, b, d))
           /\ opposite(Orient(c, d, a), Orient(c, d, b))
        \/ /\ Orient(a, b, c) = 0 /\ Orient(a, b, d) = 0
           /\ inner(c) \/ inner(d)

\* Some two edges of the polygon that are not neighbours meet.
SelfIntersects(pts) ==
    LET n == Len(pts)
        neighbours(i, j) == (j % n) + 1 = i \/ (i % n) + 1 = j
    IN  n >= 4 /\ \E i, j \in 1..n :
            /\ i < j /\ ~neighbours(i, j)
            /\ SegmentsIntersect(pts[i], After(pts, i), pts[j], After(pts, j))

\* Variant of PointInPolygon: both ends of an edge count as above the ray.
PointInPolygonClosed(p, pts) ==
    LET crosses(i) ==
            LET a == After(pts, i)
                b == pts[i]
            IN  /\ (a[2] >= p[2]) # (b[2] > p[2])
                /\ p[1] * Magnitude(b[2] - a[2]) < a[1] * Magnitude(b[2] - a[2])
                        + (b[1] - a[1]) * Magnitude(p[2] - a[2])
    IN  Cardinality({i \in DOMAIN pts : crosses(i)}) % 2 = 1

\* Even-odd test along the ray to the right; the comparison of p[1] with the
\* crossing is multiplied out by the height of the edge.
PointInPolygon(p, pts) ==
    LET crosses(i) ==
            LET a == After(pts, i)
                b == pts[i]
                dy == b[2] - a[2]
                lhs == (p[1] - a[1]) * dy
                rhs == (b[1] - a[1]) * (p[2] - a[2])
            IN  /\ (a[2] > p[2]) # (b[2] > p[2])
                /\ IF dy > 0 THEN lhs < rhs ELSE lhs > rhs
    IN  Cardinality({i \in DOMAIN pts : crosses(i)}) % 2 = 1

-----------------------------------------------------------------------------
\* Less than 1.5 degrees off an axis: the tangent is 0.0262.
AlmostAxis(a, b) ==
    LET dx == Magnitude(b[1] - a[1])
        dy == Magnitude(b[2] - a[2])
    IN  IF 10000 * dy < 262 * dx THEN "h"
        ELSE IF 10000 * dx < 262 * dy THEN "v" ELSE "none"

\* An issue is its code, the contour it is about and the wall it names.
Issue(code, owner, wall) == [code |-> code, owner |-> owner, wall |-> wall]
Warnings == {"almost-axis", "unshared-wall", "gap"}
IsError(i) == i.code \notin Warnings

WallIssues(plan) ==
    LET check(id) ==
            LET w == plan.walls[id]
                a == plan.points[w.start]
                b == plan.points[w.end]
            IN  IF ~({w.start, w.end} \subseteq DOMAIN plan.points)
                THEN {Issue("missing-ref", "wall", id)}
                ELSE IF w.kind = "line" /\ a # b
                        /\ \/ AlmostAxis(a, b) = "h" /\ a[2] # b[2]
                           \/ AlmostAxis(a, b) = "v" /\ a[1] # b[1]
                THEN {Issue("almost-axis", "wall", id)}
                ELSE {}
    IN  UNION {check(id) : id \in DOMAIN plan.walls}

ValidateChain(plan, refs, owner, closeCode) ==
    LET missing == {r \in Elements(refs) : r.wall \notin DOMAIN plan.walls}
        segs == Resolve(plan, refs)
        n == Len(segs)
        broken == {i \in 1..n : segs[i].to # After(segs, i).from}
    IN  IF missing # {} THEN {Issue("missing-ref", owner, r.wall) : r \in missing}
        ELSE IF n < 3 THEN {Issue(closeCode, owner, 0)}
        ELSE {Issue(IF i = n THEN closeCode ELSE "not-chained", owner, segs[i].wall) :
                i \in broken}

ValidateRoom(plan, room) ==
    LET rings == <<room.boundary>> \o room.holes
        chain == UNION {ValidateChain(plan, r, room.id, "not-closed") : r \in Elements(rings)}
        poly == Polyline(plan, room.boundary)
    IN  IF chain # {} THEN chain
        ELSE {Issue(code, room.id, 0) : code \in
                {c \in {"zero-area"} : TwiceArea(poly) = 0}
                \cup {c \in {"self-intersection"} : SelfIntersects(poly)}}

\* Every use of a wall by a contour; the exterior uses it from outside.
Uses(plan) ==
    LET by(owner, refs, sign) ==
            [i \in DOMAIN refs |-> [owner |-> owner, wall |-> refs[i].wall,
                                    dir |-> sign * refs[i].dir]]
        ofRoom(r) == by(r.id, r.boundary \o FlattenSeq(r.holes), 1)
    IN  FlattenSeq([i \in DOMAIN plan.rooms |-> ofRoom(plan.rooms[i])])
        \o by("exterior", plan.exterior, -1)

\* An inner wall has two contours, in opposite directions.
SharingIssues(plan) ==
    LET all == Uses(plan)
        check(id) ==
            LET u == SelectSeq(all, LAMBDA x : x.wall = id)
            IN  IF Len(u) > 2 \/ (Len(u) = 2 /\ u[1].dir = u[2].dir)
                THEN {Issue("unshared-wall", "wall", id)}
                ELSE IF Len(u) = 1 /\ ~plan.walls[id].ext /\ u[1].owner # "exterior"
                THEN {Issue("gap", u[1].owner, id)} ELSE {}
    IN  UNION {check(id) : id \in DOMAIN plan.walls}

ValidateFloor(plan) ==
    WallIssues(plan)
    \cup UNION {ValidateRoom(plan, r) : r \in Elements(plan.rooms)}
    \cup ValidateChain(plan, plan.exterior, "exterior", "exterior-open")
    \cup SharingIssues(plan)

-----------------------------------------------------------------------------
\* Where a dragged point goes: to the nearest point within the threshold; else
\* onto the vertical or horizontal of its neighbours, one after the other, and
\* what the axes left free onto the grid.
SnapPoint(raw, points, self, neighbours, opts) ==
    LET dist2(id) == (points[id][1] - raw[1]) * (points[id][1] - raw[1])
                     + (points[id][2] - raw[2]) * (points[id][2] - raw[2])
        near == {id \in DOMAIN points \ {self} :
                    dist2(id) < opts.threshold * opts.threshold}
        nearest == Min({id \in near : \A o \in near : dist2(id) <= dist2(o)})
        pull(at, id) ==
            LET n == points[id]
                onX == Magnitude(n[1] - at.x) < opts.threshold
                onY == Magnitude(n[2] - at.y) < opts.threshold
            IN  IF id \notin DOMAIN points THEN at
                ELSE [x |-> IF onX THEN n[1] ELSE at.x, gx |-> at.gx \/ onX,
                      y |-> IF onY THEN n[2] ELSE at.y, gy |-> at.gy \/ onY]
        free == [x |-> raw[1], y |-> raw[2], gx |-> FALSE, gy |-> FALSE]
        axis == IF opts.axis THEN FoldLeft(pull, free, neighbours) ELSE free
        onGrid(c) == ((2 * c + opts.step) \div (2 * opts.step)) * opts.step
    IN  IF opts.points /\ near # {} THEN points[nearest]
        ELSE IF opts.grid
        THEN <<IF axis.gx THEN axis.x ELSE onGrid(axis.x),
               IF axis.gy THEN axis.y ELSE onGrid(axis.y)>>
        ELSE <<axis.x, axis.y>>
=============================================================================

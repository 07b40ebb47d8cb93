------------------------------ MODULE MCEditor ------------------------------
(* Two floors of 12 by 12: f1 has an island in its middle, f2 a partition.  *)
EXTENDS Editor
LOCAL INSTANCE TLC

Line(a, b, outer) ==
    [start |-> a, end |-> b, kind |-> "line", bulge |-> 0, ext |-> outer, virtual |-> FALSE]
Along(walls) ==
    [i \in DOMAIN walls |-> IF walls[i] > 0 THEN [wall |-> walls[i], dir |-> 1]
                            ELSE [wall |-> -walls[i], dir |-> -1]]
Face(id, kind, type, area, at, boundary, holes) ==
    [id |-> id, kind |-> kind, type |-> type, area |-> area, centroid |-> at, label |-> kind = "room",
     boundary |-> Along(boundary), holes |-> [k \in DOMAIN holes |-> Along(holes[k])]]

Corners == <<<<0, 0>>, <<12, 0>>, <<12, 12>>, <<0, 12>>>>
Outline == <<Line(1, 2, TRUE), Line(2, 3, TRUE), Line(3, 4, TRUE), Line(4, 1, TRUE)>>

\* A ring around a triangle.
IslandFloor ==
    [id |-> "f1",
     points |-> Corners \o <<<<2, 4>>, <<6, 4>>, <<4, 10>>>>,
     walls |-> Outline \o <<Line(5, 6, FALSE), Line(6, 7, FALSE), Line(7, 5, FALSE)>>,
     rooms |-> <<Face("ring", "corridor", "hall", 132, <<9, 9>>, <<1, 2, 3, 4>>, <<<<-7, -6, -5>>>>),
                 Face("island", "room", "office", 12, <<4, 6>>, <<5, 6, 7>>, <<>>)>>,
     exterior |-> Along(<<1, 2, 3, 4>>),
     doors |-> <<[id |-> 1, wall |-> 5, pos |-> 2]>>]

\* Two rooms side by side, the wall between them given upwards.
PartitionPoints == Corners \o <<<<4, 0>>, <<4, 12>>>>
PartitionWalls ==
    <<Line(1, 5, TRUE), Line(5, 2, TRUE), Line(2, 3, TRUE), Line(3, 6, TRUE),
      Line(6, 4, TRUE), Line(4, 1, TRUE), Line(6, 5, FALSE)>>
PartitionFloor ==
    [id |-> "f2",
     points |-> PartitionPoints, walls |-> PartitionWalls,
     rooms |-> <<Face("west", "room", "wc", 48, <<2, 6>>, <<1, -7, 5, 6>>, <<>>),
                 Face("east", "room", "class", 96, <<8, 6>>, <<2, 3, 4, 7>>, <<>>)>>,
     exterior |-> Along(<<1, 2, 3, 4, 5, 6>>),
     doors |-> <<[id |-> 1, wall |-> 7, pos |-> 1]>>]

MCRank == ("f1" :> 1) @@ ("f2" :> 2) @@ ("f3" :> 3)
MCDrawings == ("f1" :> IslandFloor) @@ ("f2" :> PartitionFloor)

Entry(x, y, id, type) == [at |-> <<x, y>>, id |-> id, type |-> type]
RightTable ==
    ("f1" :> <<Entry(9, 9, "100", "hall"), Entry(4, 6, "101", "office")>>) @@
    ("f2" :> <<Entry(8, 6, "202", "class"), Entry(2, 6, "201", "wc")>>)
MCTables ==
    {RightTable,
     [RightTable EXCEPT !["f1"] = <<Entry(9, 9, "101", "hall"), Entry(4, 6, "101", "office")>>],
     [RightTable EXCEPT !["f2"] = <<Entry(8, 6, "202", "class")>>],
     [RightTable EXCEPT !["f2"] = @ \o <<Entry(3, 3, "203", "wc")>>],
     [RightTable EXCEPT !["f1"] = @ \o <<Entry(13, 1, "102", "office")>>]}

\* Plan files: a new triangular floor, its room
\* numbered like one below; a floor f2 whose eastern room is gone;
\* one that names a wall it does not have.
Attic ==
    [id |-> "f3", points |-> <<<<0, 0>>, <<12, 0>>, <<6, 9>>>>,
     walls |-> <<Line(1, 2, TRUE), Line(2, 3, TRUE), Line(3, 1, TRUE)>>,
     rooms |-> <<[id |-> "2-02", type |-> "office", status |-> "free", boundary |-> Along(<<1, 2, 3>>),
                  holes |-> <<>>, spot |-> <<6, 3>>, hide |-> FALSE]>>,
     exterior |-> Along(<<1, 2, 3>>), doors |-> <<>>, zones |-> <<>>]
HalfFloor ==
    [id |-> "f2", points |-> PartitionPoints, walls |-> PartitionWalls,
     rooms |-> <<[id |-> "201", type |-> "wc", status |-> "service", boundary |-> Along(<<1, -7, 5, 6>>),
                  holes |-> <<>>, spot |-> <<2, 6>>, hide |-> FALSE]>>,
     exterior |-> Along(<<1, 2, 3, 4, 5, 6>>), doors |-> <<>>, zones |-> <<>>]
\* Two that pass the check of the build and are not outlined: no room at all,
\* and the ring of f1 around a courtyard.
BareAttic == [Attic EXCEPT !.rooms = <<>>]
Courtyard ==
    [id |-> "f1", points |-> IslandFloor.points,
     walls |-> Outline \o <<Line(5, 6, TRUE), Line(6, 7, TRUE), Line(7, 5, TRUE)>>,
     rooms |-> <<[id |-> "100", type |-> "hall", status |-> "free", boundary |-> Along(<<1, 2, 3, 4>>),
                  holes |-> <<Along(<<-7, -6, -5>>)>>, spot |-> <<9, 9>>, hide |-> FALSE]>>,
     exterior |-> Along(<<1, 2, 3, 4>>), doors |-> <<>>, zones |-> <<>>]
MCFiles == {Attic, HalfFloor, BareAttic, Courtyard, [Attic EXCEPT !.exterior = Along(<<1, 2, 4>>)]}

\* The drawings above, and the files that pass the schema, have closed contours.
ASSUME MCClosed == ClosedFiles

MCCodes == ("202" :> [code |-> "2-02", schedulable |-> TRUE])
MCRaws == {<<5, 5>>, <<14, 10>>}
MCReach ==
    ("f1" :> [points |-> {1, 7, 8}, walls |-> {1, 8, 9}]) @@
    ("f2" :> [points |-> {5}, walls |-> {7, 8}]) @@
    ("f3" :> [points |-> {1}, walls |-> {2}])
MCSnap == [step |-> 2, threshold |-> 2, points |-> TRUE, axis |-> TRUE, grid |-> TRUE]
=============================================================================

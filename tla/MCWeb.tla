-------------------------------- MODULE MCWeb --------------------------------
EXTENDS WebPage, TLC

Session(id, room, start, end, status, from, teacher, course) ==
    [id |-> id, room |-> room, start |-> start, end |-> end, status |-> status,
     conflict |-> FALSE, from |-> from, teacher |-> teacher, course |-> course]

MCMap ==
    "101" :> [floor |-> 1, schedulable |-> TRUE, labelled |-> TRUE]
 @@ "102" :> [floor |-> 1, schedulable |-> TRUE, labelled |-> TRUE]
 @@ "201" :> [floor |-> 2, schedulable |-> TRUE, labelled |-> TRUE]
 @@ "hall" :> [floor |-> 2, schedulable |-> FALSE, labelled |-> FALSE]

\* Two lessons run on floor 1 and one on floor 2; one follows in 101, and is
\* moved to 201 in the next snapshot; one is cancelled.
Plan(d) ==
    {Session(1, "101", 0, 6, "scheduled", "", "t1", "c1"),
     Session(2, "102", 0, 8, "delayed", "", "t2", "c1"),
     Session(3, "201", 1, 4, "scheduled", "", "t1", "c2"),
     Session(4, d, 6, 9, IF d = "101" THEN "scheduled" ELSE "moved",
             IF d = "101" THEN "" ELSE "101", "t2", "c1"),
     Session(5, "102", 8, 9, "cancelled", "", "t1", "c2")}

MCDays ==
    1 :> [at |-> 3, sessions |-> Plan("101")]
 @@ 2 :> [at |-> 4, sessions |-> Plan("201")]
 @@ 7 :> [at |-> 2, sessions |-> Plan("101")]
 @@ 8 :> [at |-> 9, sessions |-> Plan("201")]

\* One announcement from before the page was opened, one that comes with the
\* second snapshot.
MCNotes == "old" :> [from |-> 0, until |-> 2] @@ "new" :> [from |-> 2, until |-> 3]

MCAnswers ==
    "a" :> {[kind |-> "room", id |-> "101"], [kind |-> "teacher", id |-> "t1"]}
 @@ "b" :> {[kind |-> "course", id |-> "c1"]}

MCCatalogue == <<"101", "201">>
MCTaught == {[id |-> -1, room |-> "101", cell |-> 1]}
=============================================================================

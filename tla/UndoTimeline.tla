---------------------------- MODULE UndoTimeline ----------------------------
(***************************************************************************)
(* What the undo history of the map editor promises, for every floor: the  *)
(* versions of the plan form one line with a cursor on the current one.    *)
(* An edit forgets the versions after the cursor and adds one; a gesture   *)
(* in progress revises the current version in place; undo and redo only    *)
(* move the cursor.  The line never holds more than Limit versions besides *)
(* the current one.                                                        *)
(***************************************************************************)
EXTENDS Integers

CONSTANTS
    Floors,     \* the floors that have a history
    Limit       \* versions remembered besides the current one

VARIABLES
    versions,   \* versions[f] : the line, a function on 1..size[f]
    size,       \* size[f] : its length
    cursor      \* cursor[f] : the current version

timeline == <<versions, size, cursor>>

Init ==
    /\ size = [f \in Floors |-> 1]
    /\ cursor = [f \in Floors |-> 1]
    /\ \A f \in Floors : DOMAIN versions[f] = 1..1

\* An edit: what was undone is forgotten and, when the line is full, the
\* oldest version too.
Record(f) ==
    LET full == cursor[f] = Limit + 1
        drop == IF full THEN 1 ELSE 0
    IN  /\ cursor' = [cursor EXCEPT ![f] = @ + 1 - drop]
        /\ size' = [size EXCEPT ![f] = cursor[f] + 1 - drop]
        /\ DOMAIN versions'[f] = 1..(cursor[f] + 1 - drop)
        /\ \A i \in 1..(cursor[f] - drop) : versions'[f][i] = versions[f][i + drop]

\* A gesture in progress changes the current version and no other.
Revise(f) ==
    /\ UNCHANGED <<size, cursor>>
    /\ DOMAIN versions'[f] = 1..size[f]
    /\ \A i \in 1..size[f] : i # cursor[f] => versions'[f][i] = versions[f][i]

Undo(f) ==
    /\ cursor[f] > 1
    /\ cursor' = [cursor EXCEPT ![f] = @ - 1]
    /\ UNCHANGED <<versions, size>>

Redo(f) ==
    /\ cursor[f] < size[f]
    /\ cursor' = [cursor EXCEPT ![f] = @ + 1]
    /\ UNCHANGED <<versions, size>>

\* Another plan takes the floor: its line starts anew.
Restart(f) ==
    /\ cursor' = [cursor EXCEPT ![f] = 1]
    /\ size' = [size EXCEPT ![f] = 1]
    /\ DOMAIN versions'[f] = 1..1

OthersKept(f) == \A g \in Floors \ {f} : versions'[g] = versions[g]

Next ==
    \E f \in Floors :
        /\ OthersKept(f)
        /\ Record(f) \/ Revise(f) \/ Undo(f) \/ Redo(f) \/ Restart(f)

Spec == Init /\ [][Next]_timeline
=============================================================================

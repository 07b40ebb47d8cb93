---------------------------- MODULE HistoryStore ----------------------------
(***************************************************************************)
(* The undo history of the map editor (store/historyStore.ts) together     *)
(* with the plans it belongs to, which mapStore.ts keeps: for each floor a *)
(* stack of the versions before the current one and a list of those that   *)
(* were undone.  What a plan is does not matter here; Editor extends this  *)
(* module and says what the edits are.                                     *)
(***************************************************************************)
EXTENDS Integers, Sequences

CONSTANTS
    Floors,     \* ids of the floors
    Plan,       \* the plans a floor may have
    Limit       \* limit of the store: 100

ASSUME LimitAssumption == Limit \in Nat \ {0}

VARIABLES
    plans,      \* plans[f] : the plan of floor f in the map store
    hist        \* hist[f] = [past, future] : byFloor of the history store

storeVars == <<plans, hist>>

EmptyHistory == [past |-> <<>>, future |-> <<>>]

\* Variant of Push: the limit is not applied.
PushUnlimited(h, snapshot) == [past |-> Append(h.past, snapshot), future |-> <<>>]

\* Variant of Push: what was undone survives a new change.
PushBesideFuture(h, snapshot) ==
    LET grown == Append(h.past, snapshot)
    IN  [past   |-> SubSeq(grown, Len(grown) - (IF Len(grown) <= Limit THEN Len(grown) ELSE Limit) + 1,
                           Len(grown)),
         future |-> h.future]

\* push: the snapshot goes on top, the oldest beyond the limit is dropped,
\* and what was undone is gone.
Push(h, snapshot) ==
    LET grown == Append(h.past, snapshot)
    IN  [past   |-> IF Len(grown) <= Limit THEN grown
                   ELSE SubSeq(grown, Len(grown) - Limit + 1, Len(grown)),
         future |-> <<>>]

Undone(h, current) ==
    [past   |-> SubSeq(h.past, 1, Len(h.past) - 1),
     future |-> <<current>> \o h.future]

Redone(h, current) ==
    [past   |-> Append(h.past, current),
     future |-> Tail(h.future)]

CanUndo(f) == hist[f].past # <<>>
CanRedo(f) == hist[f].future # <<>>

-----------------------------------------------------------------------------
\* withCommit: the plan before the change is remembered, then replaced.
Commit(f, p) ==
    /\ hist' = [hist EXCEPT ![f] = Push(@, plans[f])]
    /\ plans' = [plans EXCEPT ![f] = p]

\* beginPointDrag: the plan before the gesture is remembered once ...
BeginGesture(f) ==
    /\ hist' = [hist EXCEPT ![f] = Push(@, plans[f])]
    /\ UNCHANGED plans

\* ... and movePoint changes the plan without the history.
Revise(f, p) ==
    /\ plans' = [plans EXCEPT ![f] = p]
    /\ UNCHANGED hist

UndoStep(f) ==
    /\ CanUndo(f)
    /\ plans' = [plans EXCEPT ![f] = hist[f].past[Len(hist[f].past)]]
    /\ hist' = [hist EXCEPT ![f] = Undone(@, plans[f])]

RedoStep(f) ==
    /\ CanRedo(f)
    /\ plans' = [plans EXCEPT ![f] = Head(hist[f].future)]
    /\ hist' = [hist EXCEPT ![f] = Redone(@, plans[f])]

\* importFloor: the plan of a file takes the floor, its history is cleared.
TakeOver(f, p) ==
    /\ plans' = [plans EXCEPT ![f] = p]
    /\ hist' = [hist EXCEPT ![f] = EmptyHistory]

StoreInit ==
    /\ plans \in [Floors -> Plan]
    /\ hist = [f \in Floors |-> EmptyHistory]

StoreNext ==
    \E f \in Floors :
        \/ \E p \in Plan : Commit(f, p) \/ Revise(f, p) \/ TakeOver(f, p)
        \/ BeginGesture(f)
        \/ UndoStep(f)
        \/ RedoStep(f)

StoreSpec == StoreInit /\ [][StoreNext]_storeVars

-----------------------------------------------------------------------------
StoreTypeOK ==
    /\ plans \in [Floors -> Plan]
    /\ hist \in [Floors -> [past : Seq(Plan), future : Seq(Plan)]]

(* Undoing and redoing in any order never makes the store remember more    *)
(* than its limit: redo appends to past without the slice of push          *)
(* (historyStore.ts:47), and only what push let in bounds it.              *)
HistoryBounded ==
    \A f \in Floors : Len(hist[f].past) + Len(hist[f].future) <= Limit

\* The line of versions that two stacks and the plan between them stand for.
LineSize(h) == Len(h.past) + 1 + Len(h.future)
LineAt(h, p, i) ==
    IF i <= Len(h.past) THEN h.past[i]
    ELSE IF i = Len(h.past) + 1 THEN p ELSE h.future[i - Len(h.past) - 1]
LineOf(h, p) == [i \in 1..LineSize(h) |-> LineAt(h, p, i)]

Versions == [f \in Floors |-> LineOf(hist[f], plans[f])]
Sizes == [f \in Floors |-> LineSize(hist[f])]
Cursors == [f \in Floors |-> Len(hist[f].past) + 1]

Timeline == INSTANCE UndoTimeline WITH versions <- Versions, size <- Sizes, cursor <- Cursors

(* The stacks of historyStore.ts and the plans of mapStore.ts are one line *)
(* of versions with a cursor: undo and redo lose or alter none of them,    *)
(* whatever edits, drags and imports come in between.                      *)
HistoryIsTimeline == Timeline!Spec
=============================================================================

---------------------------- MODULE WebPageProofs ----------------------------
(***************************************************************************)
(* The board of a web page shows what it says, its rows agree with its map, *)
(* its pages stay within their rows, and the search palette lists what was *)
(* asked last, for any number of snapshots, drops, travels, clicks, queries *)
(* and administrators' requests.  Few steps change the board store or the  *)
(* palette; all others leave them, which is shown part by part.            *)
(***************************************************************************)
EXTENDS AdminPanelsProofs

\* The fields of the store that the property reads.
StoreFields == {"mode", "shown", "live", "travelAt", "loading"} \subseteq DOMAIN store

(* Inductive strengthening: beside what the board shows, a travelled moment *)
(* is never the 0 of the live mode, or the answer of an old request could   *)
(* be taken for the one that is awaited after the visitor went live.        *)
BoardInv ==
    /\ StoreFields
    /\ store.mode \in {"live", "travel"}
    /\ store.mode = "travel" => store.travelAt # 0
    /\ BoardShowsWhatItSays

-----------------------------------------------------------------------------
(* What the functions of the store make of it. *)

\* The data of the client as it is.
LEMMA ClientKept ==
  ASSUME BoardInv, UNCHANGED clientVars
  PROVE  BoardInv'
  BY DEF BoardInv, StoreFields, BoardShowsWhatItSays, Past, clientVars

\* What the board shows depends on the store and on the history variable.
LEMMA StoreKept ==
  ASSUME BoardInv, store' = store, disturbed' = disturbed
  PROVE  BoardInv'
  BY DEF BoardInv, StoreFields, BoardShowsWhatItSays, Past

\* A store opened by a page: live, travelled, or without an answer.
LEMMA Opened ==
  ASSUME NEW snapshot, NEW m, NEW failed \in BOOLEAN,
         store' = StoreOpened(snapshot, m, failed),
         m = 0 \/ failed => (snapshot.of = "live" \/ failed),
         m # 0 /\ ~failed => snapshot = Past(m)
  PROVE  BoardInv'
  BY DEF BoardInv, StoreFields, BoardShowsWhatItSays, StoreOpened, Past, Live, Nothing

\* Changes of the connection, the ages and the announcements.
LEMMA BesideTheBoard ==
  ASSUME BoardInv, disturbed' = disturbed,
         DOMAIN store' = DOMAIN store,
         \A f \in {"mode", "shown", "live", "travelAt", "loading"} : store'[f] = store[f]
  PROVE  BoardInv'
  BY DEF BoardInv, StoreFields, BoardShowsWhatItSays, Past

LEMMA Delivered ==
  ASSUME BoardInv, NEW v, disturbed' = disturbed, store' = Heard(SseSnapshot(store, v))
  PROVE  BoardInv'
  BY DEF BoardInv, StoreFields, BoardShowsWhatItSays, Heard, SseSnapshot, Past, Live

LEMMA WentLive ==
  ASSUME BoardInv, store' = ExitTravel(store)
  PROVE  BoardInv'
  BY DEF BoardInv, StoreFields, BoardShowsWhatItSays, ExitTravel
-----------------------------------------------------------------------------
(* The steps, part by part. *)

LEMMA StreamStep ==
  ASSUME BoardInv, StreamNext
  PROVE  BoardInv'
<1>1. ASSUME ServerPublishes PROVE BoardInv'
  BY <1>1, StoreKept DEF ServerPublishes
<1>2. ASSUME StreamOpens PROVE BoardInv'
  BY <1>2, BesideTheBoard DEF StreamOpens
<1>3. ASSUME NEW next, StreamFails(next) PROVE BoardInv'
  BY <1>3, BesideTheBoard DEF StreamFails
<1>4. ASSUME RetryFails PROVE BoardInv'
  BY <1>4, BesideTheBoard DEF RetryFails
<1>5. ASSUME StreamFallsSilent PROVE BoardInv'
  BY <1>5, StoreKept DEF StreamFallsSilent
<1>6. ASSUME EventArrives PROVE BoardInv'
  <2>1. disturbed' = disturbed
    BY <1>6 DEF EventArrives
  <2>2. CASE Head(stream.queue).kind = "snapshot"
    BY <1>6, <2>1, <2>2, Delivered DEF EventArrives
  <2>3. CASE Head(stream.queue).kind # "snapshot"
    BY <1>6, <2>1, <2>3, BesideTheBoard DEF EventArrives
  <2> QED
    BY <2>2, <2>3
<1>7. ASSUME HeartbeatArrives PROVE BoardInv'
  BY <1>7, BesideTheBoard DEF HeartbeatArrives, Heard
<1>8. ASSUME NEW i, RefetchServed(i) PROVE BoardInv'
  BY <1>8, StoreKept DEF RefetchServed
\* The answer to a refetch: a live snapshot, taken for a travelled one when the
\* visitor is away, which the history variable then remembers.
<1>9. ASSUME NEW i, RefetchArrives(i) PROVE BoardInv'
  <2>1. store' = RestSnapshot(store, Live(refetches[i]))
        /\ disturbed' = (disturbed \/ store.mode = "travel")
    BY <1>9 DEF RefetchArrives
  <2>2. CASE store.mode = "travel"
    BY <2>1, <2>2 DEF RestSnapshot, BoardInv, StoreFields, BoardShowsWhatItSays
  <2>3. CASE store.mode = "live"
    BY <2>1, <2>3 DEF RestSnapshot, BoardInv, StoreFields, BoardShowsWhatItSays, Live
  <2> QED
    BY <2>2, <2>3 DEF BoardInv
<1>10. ASSUME NEW i, RefetchFails(i) PROVE BoardInv'
  BY <1>10, StoreKept DEF RefetchFails
<1>11. ASSUME TimePasses PROVE BoardInv'
  BY <1>11, BesideTheBoard DEF TimePasses
<1>12. ASSUME Watchdog PROVE BoardInv'
  <2>1. PICK c \in {"offline", "reconnecting"} : store' = [store EXCEPT !.connection = c]
    BY <1>12 DEF Watchdog
  <2>2. disturbed' = disturbed
    BY <1>12 DEF Watchdog
  <2> QED
    BY <2>1, <2>2, BesideTheBoard
<1> QED
  BY <1>1, <1>2, <1>3, <1>4, <1>5, <1>6, <1>7, <1>8, <1>9, <1>10, <1>11, <1>12 DEF StreamNext

LEMMA TravelStep ==
  ASSUME BoardInv, TravelNext
  PROVE  BoardInv'
<1>1. ASSUME NEW m \in Moments, TravelTo(m) PROVE BoardInv'
  <2>1. m # 0
    BY ClientAssumption
  <2>2. store' = EnterTravel(store, m)
    BY <1>1 DEF TravelTo
  <2> QED
    BY <2>1, <2>2 DEF EnterTravel, BoardInv, StoreFields, BoardShowsWhatItSays
<1>2. ASSUME TravelRequested PROVE BoardInv'
  BY <1>2, StoreKept DEF TravelRequested
\* An answer is taken for the moment it was asked for, or not at all; on the
\* live board there is no moment.
<1>3. ASSUME TravelAnswered PROVE BoardInv'
  <2>1. asked # 0 /\ disturbed' = disturbed
    BY <1>3 DEF TravelAnswered
  <2>2. CASE store.travelAt = asked
    <3>1. store.mode = "travel"
      BY <2>1, <2>2 DEF BoardInv, BoardShowsWhatItSays
    <3>2. store' = RestSnapshot(store, Past(asked))
      BY <1>3, <2>2 DEF TravelAnswered
    <3> QED
      BY <2>2, <3>1, <3>2 DEF RestSnapshot, BoardInv, StoreFields, BoardShowsWhatItSays
  <2>3. CASE store.travelAt # asked
    BY <1>3, <2>1, <2>3, StoreKept DEF TravelAnswered
  <2> QED
    BY <2>2, <2>3
<1>4. ASSUME TravelFails PROVE BoardInv'
  BY <1>4 DEF TravelFails, BoardInv, StoreFields, BoardShowsWhatItSays
<1>5. ASSUME GoLive PROVE BoardInv'
  BY <1>5, WentLive DEF GoLive
<1> QED
  BY <1>1, <1>2, <1>3, <1>4, <1>5 DEF TravelNext

\* What the other parts of the page do to the data: a new snapshot is published
\* or delivered, Escape leaves the past, a page opens; all else leaves it alone.
BesideTheStore ==
    <<stream, refetches, timer, asked, drops, travels, disturbed, overtaken>>

SharedStep ==
    \/ UNCHANGED clientVars
    \/ /\ version < MaxVersion /\ version' = version + 1
       /\ UNCHANGED <<store, BesideTheStore>>
    \/ /\ store' = Heard(SseSnapshot(store, version))
       /\ UNCHANGED <<version, BesideTheStore>>
    \/ GoLiveByShell
    \/ /\ store' = StoreOpened(Live(version), 0, FALSE)
       /\ UNCHANGED <<version, BesideTheStore>>

LEMMA ClicksShare ==
  ASSUME Escape \/ ToggleAdmin \/ (\E u : Click(u) \/ PageOpens(u)) \/ BoardPublished \/ BoardDelivered
  PROVE  SharedStep
<1>1. ASSUME NEW u, Click(u) PROVE UNCHANGED clientVars
  BY <1>1 DEF Click
<1>2. ASSUME NEW u, PageOpens(u) PROVE SharedStep
  BY <1>2 DEF PageOpens, SharedStep, BesideTheStore
<1>3. CASE Escape
  BY <1>1, <1>3 DEF Escape, SharedStep
<1>4. CASE ToggleAdmin
  BY <1>1, <1>4 DEF ToggleAdmin, SharedStep
<1>5. CASE BoardPublished \/ BoardDelivered
  BY <1>5 DEF BoardPublished, BoardDelivered, SharedStep, BesideTheStore
<1> QED
  BY <1>1, <1>2, <1>3, <1>4, <1>5 DEF SharedStep

LEMMA BoardShares == BoardNext => SharedStep
<1> USE DEF SharedStep
<1>1. ASSUME NEW u, Click(u) PROVE SharedStep
  BY <1>1 DEF Click
<1>2. ASSUME NEW s, NEW x, Rotate(s) \/ Hover(s) \/ PickDot(s, x) \/ Resize(s, x)
      PROVE  SharedStep
  BY <1>2 DEF Rotate, Hover, PickDot, Resize, TouchSection
<1>3. CASE KioskStep
  BY <1>3 DEF KioskStep
<1>4. ASSUME NEW x, \/ PickFloor(x) \/ PressDigit(x) \/ ClickRoom(x)
                   \/ ClickRow(x) \/ ToggleLegend(x)
      PROVE  SharedStep
  BY <1>1, <1>4 DEF PickFloor, PressDigit, ClickRoom, ClickRow, ToggleLegend
<1>5. CASE Unselect \/ ShowOnMap \/ ClearHighlight
  BY <1>1, <1>5 DEF Unselect, ShowOnMap, ClearHighlight
<1>6. CASE ToggleKiosk \/ Reload
  BY ONLY <1>6, ClicksShare DEF ToggleKiosk, Reload
<1> QED
  BY <1>2, <1>3, <1>4, <1>5, <1>6, ClicksShare DEF BoardNext

LEMMA SearchShares == SearchNext => SharedStep
<1>1. CASE OpenSearch \/ CloseSearch \/ SearchAsked
  BY <1>1 DEF OpenSearch, CloseSearch, SearchAsked, SharedStep
<1>2. ASSUME NEW x, TypeQuery(x) \/ SearchAnswered(x) \/ SearchFails(x) \/ Choose(x) \/ DayServed(x)
      PROVE  SharedStep
  BY <1>2 DEF TypeQuery, SearchAnswered, SearchFails, Choose, DayServed, SharedStep
<1>3. ASSUME NEW i, DayLands(i) \/ DayFails(i) PROVE SharedStep
  BY <1>3 DEF DayLands, DayFails, Chosen, SharedStep
<1> QED
  BY <1>1, <1>2, <1>3, ClicksShare DEF SearchNext

\* The panels of an administrator have data of their own; leaving the page and
\* coming back opens a new store.
LEMMA PanelsShare == AdminNext => SharedStep
<1>1. ASSUME NEW x, KeyArrives(x) \/ Remount PROVE SharedStep
  BY <1>1 DEF KeyArrives, Remount, SharedStep, BesideTheStore
<1>2. CASE OrdersNext
  <2>1. ASSUME NEW kind, NEW of, Order(kind, of) PROVE SharedStep
    BY <2>1 DEF Order, SharedStep
  <2>2. CASE PlaceOrder \/ UndoOrder \/ Announce
    BY <2>1, <2>2 DEF PlaceOrder, UndoOrder, Announce
  <2>3. ASSUME NEW o, OrderServed(o) \/ OrderAnswered(o) \/ OrderLost(o) PROVE SharedStep
    BY <2>3 DEF OrderServed, OrderAnswered, OrderLost, SharedStep
  <2> QED
    BY <1>2, <2>2, <2>3 DEF OrdersNext
<1>3. CASE TimetableNext
  <2>1. ASSUME NEW u, NEW g, Shows(u, g) PROVE SharedStep
    BY <2>1 DEF Shows, SharedStep
  <2>2. ASSUME NEW x, \/ OpenSchedule \/ CloseSchedule \/ CancelForm \/ PickRoom(x) \/ PressAdd(x)
        PROVE  SharedStep
    BY <2>1, <2>2 DEF OpenSchedule, CloseSchedule, CancelForm, PickRoom, PressAdd
  <2>3. ASSUME NEW r, FetchServed(r) \/ FetchLands(r) \/ FetchFails(r) PROVE SharedStep
    BY <2>3 DEF FetchServed, FetchLands, FetchFails, SharedStep
  <2>4. ASSUME NEW kind, NEW lesson, Change(kind, lesson) PROVE SharedStep
    BY <2>4 DEF Change, SharedStep
  <2>5. CASE SaveLesson \/ RemoveLesson
    BY <2>4, <2>5 DEF SaveLesson, RemoveLesson
  <2>6. ASSUME NEW c, ChangeServed(c) \/ ChangeAnswered(c) \/ ChangeFails(c) \/ ChangeLost(c)
        PROVE  SharedStep
    BY <2>6 DEF ChangeServed, ChangeAnswered, ChangeFails, ChangeLost, SharedStep
  <2> QED
    BY <1>3, <2>2, <2>3, <2>5, <2>6 DEF TimetableNext
<1> QED
  BY <1>1, <1>2, <1>3 DEF AdminNext

\* So the data of the page moves with its stream, with the travelling, or shared.
LEMMA DataSteps == [WebNext]_webVars => StreamNext \/ TravelNext \/ SharedStep
<1>1. UNCHANGED webVars => SharedStep
  BY DEF webVars, SharedStep
<1>2. EscapeToLive => SharedStep
  BY DEF EscapeToLive, SharedStep
<1> QED
  BY <1>1, <1>2, ClicksShare, BoardShares, SearchShares, PanelsShare DEF WebNext

LEMMA BoardInvShared ==
  ASSUME BoardInv, SharedStep
  PROVE  BoardInv'
<1>1. CASE UNCHANGED clientVars
  BY <1>1, ClientKept
<1>2. CASE UNCHANGED <<store, BesideTheStore>>
  BY <1>2, StoreKept DEF BesideTheStore
<1>3. CASE store' = Heard(SseSnapshot(store, version)) /\ UNCHANGED BesideTheStore
  BY <1>3, Delivered DEF BesideTheStore
<1>4. CASE GoLiveByShell
  BY <1>4, WentLive DEF GoLiveByShell
<1>5. CASE store' = StoreOpened(Live(version), 0, FALSE)
  <2>1. Live(version).of = "live"
    BY DEF Live
  <2> QED
    BY <1>5, <2>1, Opened
<1> QED
  BY <1>1, <1>2, <1>3, <1>4, <1>5 DEF SharedStep
-----------------------------------------------------------------------------
LEMMA BoardInvInit == WebInit => BoardInv
<1> SUFFICES ASSUME ClientInit PROVE BoardInv
  BY DEF WebInit
<1>1. CASE store = StoreOpened(Live(1), 0, FALSE) \/ store = StoreOpened(Nothing, 0, TRUE)
  BY <1>1 DEF BoardInv, StoreFields, BoardShowsWhatItSays, StoreOpened, Live, Nothing, Past
<1>2. ASSUME NEW m \in Moments, store = StoreOpened(Past(m), m, FALSE) PROVE BoardInv
  <2>1. m # 0
    BY ClientAssumption
  <2> QED
    BY <1>2, <2>1 DEF BoardInv, StoreFields, BoardShowsWhatItSays, StoreOpened, Live, Nothing, Past
<1> QED
  BY <1>1, <1>2 DEF ClientInit

LEMMA BoardInvStep == BoardInv /\ [WebNext]_webVars => BoardInv'
  BY DataSteps, StreamStep, TravelStep, BoardInvShared

LEMMA BoardInvAlways == WebSpec => []BoardInv
  BY BoardInvInit, BoardInvStep, PTL DEF WebSpec

(* The board shows what it says, whatever the visitor does, in whichever    *)
(* order answers, events, failures and reconnects come in: boardStore.ts,   *)
(* useRealtime.ts and useTimeTravel.ts.                                     *)
THEOREM BoardIsHonest == WebSpec => []BoardShowsWhatItSays
<1>1. BoardInv => BoardShowsWhatItSays
  BY DEF BoardInv
<1> QED
  BY <1>1, BoardInvAlways, PTL

-----------------------------------------------------------------------------
(* The search.  The palette is changed by its own steps only. *)

Queries == {""} \cup DOMAIN Answers
Request == [q : Queries, aborted : BOOLEAN]

PaletteTyped ==
    /\ palette = [q |-> palette.q, timer |-> palette.timer, asked |-> palette.asked,
                  result |-> palette.result, loading |-> palette.loading,
                  failed |-> palette.failed]
    /\ palette.q \in Queries /\ palette.asked \in Seq(Request)
    /\ palette.timer \in BOOLEAN /\ palette.loading \in BOOLEAN /\ palette.failed \in BOOLEAN

\* A request that was not aborted is for the query in the field, which is none
\* but the empty one: that one is answered at once.
WaitedForIsTyped ==
    /\ palette.timer => palette.q # ""
    /\ \A i \in DOMAIN palette.asked :
            ~palette.asked[i].aborted => palette.asked[i].q = palette.q /\ palette.q # ""

(* Inductive strengthening: without the second part the answer to an older  *)
(* query could be the last one to come in.                                  *)
SearchInv == PaletteTyped /\ WaitedForIsTyped /\ SearchSettles

\* Taking a request out keeps the others, and no more.
LEMMA RequestRemoved ==
  ASSUME NEW S, NEW s \in Seq(S), NEW i \in DOMAIN s
  PROVE  /\ RemoveAt(s, i) \in Seq(S)
         /\ \A k \in DOMAIN RemoveAt(s, i) : \E j \in DOMAIN s : RemoveAt(s, i)[k] = s[j]
         /\ \A j \in DOMAIN s \ {i} : \E k \in DOMAIN RemoveAt(s, i) : RemoveAt(s, i)[k] = s[j]
<1> DEFINE a == SubSeq(s, 1, i - 1)
           b == SubSeq(s, i + 1, Len(s))
           r == RemoveAt(s, i)
<1>1. DOMAIN s = 1..Len(s) /\ Len(s) \in Nat /\ i \in 1..Len(s) /\ \A j \in 1..Len(s) : s[j] \in S
  BY LenProperties, ElementOfSeq
<1>2. /\ a \in Seq(S) /\ Len(a) = i - 1
      /\ \A j \in 1..i - 1 : a[j] = s[j]
  <2>1. \A j \in 1..i - 1 : s[j] \in S
    BY <1>1
  <2> QED
    BY <1>1, <2>1, SubSeqProperties
<1>3. /\ b \in Seq(S) /\ Len(b) = Len(s) - i
      /\ \A j \in 1..Len(s) - i : b[j] = s[i + j]
  <2>1. \A j \in i + 1..Len(s) : s[j] \in S
    BY <1>1
  <2> QED
    BY <1>1, <2>1, SubSeqProperties
<1>4. r = a \o b
  BY DEF RemoveAt
<1> HIDE DEF a, b, r
<1>5. /\ r \in Seq(S) /\ Len(r) = Len(s) - 1
      /\ \A j \in 1..Len(s) - 1 : r[j] = IF j <= i - 1 THEN a[j] ELSE b[j - (i - 1)]
  <2>1. /\ a \o b \in Seq(S) /\ Len(a \o b) = Len(a) + Len(b)
        /\ \A j \in 1..Len(a) + Len(b) :
                (a \o b)[j] = IF j <= Len(a) THEN a[j] ELSE b[j - Len(a)]
    BY ONLY <1>2, <1>3, ConcatProperties
  <2>2. Len(a) + Len(b) = Len(s) - 1
    BY <1>1, <1>2, <1>3
  <2> QED
    BY <1>2, <1>4, <2>1, <2>2
<1>6. DOMAIN r = 1..Len(s) - 1
  BY ONLY <1>5, LenProperties
<1>7. \A j \in 1..Len(s) - 1 : r[j] = IF j < i THEN s[j] ELSE s[j + 1]
  <2> SUFFICES ASSUME NEW j \in 1..Len(s) - 1
               PROVE  r[j] = IF j < i THEN s[j] ELSE s[j + 1]
    OBVIOUS
  <2>1. CASE j < i
    <3>1. j <= i - 1 /\ j \in 1..i - 1
      BY <1>1, <2>1
    <3> QED
      BY <1>2, <1>5, <2>1, <3>1
  <2>2. CASE ~(j < i)
    <3>1. ~(j <= i - 1) /\ j - (i - 1) \in 1..Len(s) - i /\ i + (j - (i - 1)) = j + 1
      BY <1>1, <2>2
    <3>2. b[j - (i - 1)] = s[i + (j - (i - 1))]
      BY <1>3, <3>1
    <3> QED
      BY <1>5, <2>2, <3>1, <3>2
  <2> QED
    BY <2>1, <2>2
<1>8. \A k \in DOMAIN r : \E j \in DOMAIN s : r[k] = s[j]
  BY <1>1, <1>6, <1>7
<1>9. ASSUME NEW j \in DOMAIN s \ {i} PROVE \E k \in DOMAIN r : r[k] = s[j]
  <2>1. CASE j < i
    BY <1>1, <1>6, <1>7, <2>1
  <2>2. CASE j > i
    <3>1. j - 1 \in 1..Len(s) - 1 /\ r[j - 1] = s[j]
      BY <1>1, <1>7, <2>2
    <3> QED
      BY <1>6, <3>1
  <2> QED
    BY <1>1, <2>1, <2>2
<1> QED
  BY <1>5, <1>8, <1>9 DEF r

\* The palette as it is.
LEMMA PaletteKept ==
  ASSUME SearchInv, palette' = palette
  PROVE  SearchInv'
  BY DEF SearchInv, PaletteTyped, WaitedForIsTyped, SearchSettles

\* A page that opens has an empty palette.
LEMMA PaletteFresh ==
  ASSUME palette' = FreshPalette
  PROVE  SearchInv'
<1>1. palette'.asked = <<>> /\ palette'.asked \in Seq(Request) /\ DOMAIN palette'.asked = {}
  <2>1. palette'.asked = <<>>
    BY DEF FreshPalette
  <2> QED
    BY <2>1, EmptySeq
<1>2. PaletteTyped'
  BY <1>1 DEF PaletteTyped, FreshPalette, Queries
<1> QED
  BY <1>1, <1>2 DEF SearchInv, WaitedForIsTyped, SearchSettles, FreshPalette

\* A new query: all requests before are aborted.
LEMMA PaletteQueried ==
  ASSUME SearchInv, NEW q \in Queries, palette' = Queried(palette, q)
  PROVE  SearchInv'
<1> DEFINE aborted == [i \in DOMAIN palette.asked |-> [palette.asked[i] EXCEPT !.aborted = TRUE]]
           typed == q # ""
           found == IF q = "" THEN {} ELSE palette.result
<1>1. palette' = [q |-> q, timer |-> typed, asked |-> aborted, result |-> found,
                  loading |-> typed, failed |-> FALSE]
  BY DEF Queried, SearchInv, PaletteTyped
<1>2. /\ aborted \in Seq(Request) /\ DOMAIN aborted = DOMAIN palette.asked
      /\ \A i \in DOMAIN aborted : aborted[i].aborted
  <2>1. /\ palette.asked \in Seq(Request)
        /\ DOMAIN palette.asked = 1..Len(palette.asked) /\ Len(palette.asked) \in Nat
    BY LenProperties DEF SearchInv, PaletteTyped
  <2>2. \A i \in 1..Len(palette.asked) : palette.asked[i] \in Request
    BY <2>1, ElementOfSeq
  <2>3. \A i \in 1..Len(palette.asked) : aborted[i] \in Request /\ aborted[i].aborted
    BY <2>1, <2>2 DEF Request
  <2>4. aborted \in [1..Len(palette.asked) -> Request]
    BY <2>1, <2>3
  <2> QED
    BY <2>1, <2>3, <2>4, SeqDef
<1>3. /\ typed \in BOOLEAN /\ (typed <=> q # "")
      /\ q = "" => found = {}
  OBVIOUS
<1> HIDE DEF aborted, typed, found
<1>4. /\ palette'.q = q /\ palette'.timer = typed /\ palette'.asked = aborted
      /\ palette'.result = found /\ palette'.loading = typed /\ palette'.failed = FALSE
  BY <1>1
<1>5. PaletteTyped'
  <2>1. palette' = [q |-> palette'.q, timer |-> palette'.timer, asked |-> palette'.asked,
                    result |-> palette'.result, loading |-> palette'.loading,
                    failed |-> palette'.failed]
    BY ONLY <1>1
  <2> QED
    BY ONLY <1>2, <1>3, <1>4, <2>1, q \in Queries DEF PaletteTyped
<1>6. WaitedForIsTyped' /\ SearchSettles'
  BY <1>2, <1>3, <1>4 DEF WaitedForIsTyped, SearchSettles
<1> QED
  BY <1>5, <1>6 DEF SearchInv

LEMMA PaletteAsked ==
  ASSUME SearchInv, SearchAsked
  PROVE  SearchInv'
<1> DEFINE request == [q |-> palette.q, aborted |-> FALSE]
           all == Append(palette.asked, request)
<1>1. palette' = [palette EXCEPT !.timer = FALSE, !.asked = all] /\ palette.timer
  BY DEF SearchAsked
<1>2. palette.asked \in Seq(Request) /\ request \in Request /\ palette.q # ""
  BY <1>1 DEF SearchInv, PaletteTyped, WaitedForIsTyped, Request
<1> HIDE DEF request
<1>3. /\ all \in Seq(Request) /\ Len(all) = Len(palette.asked) + 1
      /\ \A i \in 1..Len(palette.asked) : all[i] = palette.asked[i]
      /\ all[Len(palette.asked) + 1] = request
  BY <1>2, AppendProperties
<1>4. /\ DOMAIN palette.asked = 1..Len(palette.asked) /\ Len(palette.asked) \in Nat
      /\ DOMAIN all = 1..Len(palette.asked) + 1
  <2>1. DOMAIN all = 1..Len(all)
    BY ONLY <1>3, LenProperties
  <2> QED
    BY <1>2, <1>3, <2>1, LenProperties
<1> HIDE DEF all
<1>5. palette' = [q |-> palette.q, timer |-> FALSE, asked |-> all, result |-> palette.result,
                  loading |-> palette.loading, failed |-> palette.failed]
  BY <1>1 DEF SearchInv, PaletteTyped
<1>6. PaletteTyped'
  BY <1>3, <1>5 DEF SearchInv, PaletteTyped
<1>7. WaitedForIsTyped'
  <2>1. \A i \in DOMAIN all : ~all[i].aborted => all[i].q = palette.q
    <3>1. \A i \in DOMAIN palette.asked : ~palette.asked[i].aborted => palette.asked[i].q = palette.q
      BY DEF SearchInv, WaitedForIsTyped
    <3>2. request.q = palette.q
      BY DEF request
    <3> QED
      BY <1>3, <1>4, <3>1, <3>2
  <2> QED
    BY <1>2, <1>5, <2>1 DEF WaitedForIsTyped
<1>8. SearchSettles'
  <2>1. ~all[Len(palette.asked) + 1].aborted /\ Len(palette.asked) + 1 \in DOMAIN all
    BY <1>3, <1>4 DEF request
  <2> QED
    BY <1>5, <2>1 DEF SearchSettles
<1> QED
  BY <1>6, <1>7, <1>8 DEF SearchInv

\* An answer is found for the query in the field.  A failure shows, unless the
\* request was aborted: then all else is as before.
LEMMA PaletteAnswered ==
  ASSUME SearchInv, NEW i \in DOMAIN palette.asked, SearchAnswered(i) \/ SearchFails(i)
  PROVE  SearchInv'
<1> DEFINE others == RemoveAt(palette.asked, i)
<1>1. palette.asked \in Seq(Request)
  BY DEF SearchInv, PaletteTyped
<1>2. /\ others \in Seq(Request)
      /\ \A k \in DOMAIN others : \E j \in DOMAIN palette.asked : others[k] = palette.asked[j]
      /\ \A j \in DOMAIN palette.asked \ {i} : \E k \in DOMAIN others : others[k] = palette.asked[j]
  BY <1>1, RequestRemoved
<1>3. palette.asked[i].aborted \in BOOLEAN
  <2>1. palette.asked[i] \in Request
    BY <1>1, LenProperties, ElementOfSeq
  <2> QED
    BY <2>1 DEF Request
<1>4. CASE SearchAnswered(i)
  <2>1. palette.asked[i].q = palette.q /\ palette.q # ""
    BY <1>4 DEF SearchAnswered, SearchInv, WaitedForIsTyped
  <2>2. palette' = [palette EXCEPT !.asked = others, !.loading = FALSE,
                                   !.result = Answers[palette.asked[i].q]]
    BY <1>4 DEF SearchAnswered
  <2> HIDE DEF others
  <2>3. palette' = [q |-> palette.q, timer |-> palette.timer, asked |-> others,
                    result |-> Answers[palette.q], loading |-> FALSE, failed |-> palette.failed]
    BY <2>1, <2>2 DEF SearchInv, PaletteTyped
  <2>4. PaletteTyped'
    BY <1>2, <2>3 DEF SearchInv, PaletteTyped
  <2>5. WaitedForIsTyped' /\ SearchSettles'
    BY <1>2, <2>1, <2>3 DEF SearchInv, WaitedForIsTyped, SearchSettles
  <2> QED
    BY <2>4, <2>5 DEF SearchInv
<1>5. CASE SearchFails(i)
  <2> DEFINE failed == palette.failed \/ ~palette.asked[i].aborted
  <2>1. palette' = [palette EXCEPT !.asked = others, !.loading = FALSE, !.failed = failed]
    BY <1>5 DEF SearchFails
  <2>2. failed \in BOOLEAN /\ (failed <=> palette.failed \/ ~palette.asked[i].aborted)
    BY DEF SearchInv, PaletteTyped
  <2> HIDE DEF others, failed
  <2>3. palette' = [q |-> palette.q, timer |-> palette.timer, asked |-> others,
                    result |-> palette.result, loading |-> FALSE, failed |-> failed]
    BY <2>1 DEF SearchInv, PaletteTyped
  <2>4. PaletteTyped'
    BY <1>2, <2>2, <2>3 DEF SearchInv, PaletteTyped
  <2>5. WaitedForIsTyped'
    BY <1>2, <2>3 DEF SearchInv, WaitedForIsTyped
  <2>6. SearchSettles'
    <3> SUFFICES ASSUME ~palette.timer, ~failed, \A k \in DOMAIN others : others[k].aborted
                 PROVE  palette.result = IF palette.q = "" THEN {} ELSE Answers[palette.q]
      BY <2>3 DEF SearchSettles
    <3>1. \A j \in DOMAIN palette.asked : palette.asked[j].aborted
      BY <1>2, <2>2
    <3> QED
      BY <2>2, <3>1 DEF SearchInv, SearchSettles
  <2> QED
    BY <2>4, <2>5, <2>6 DEF SearchInv
<1> QED
  BY <1>4, <1>5

\* Clicks and keys on the board: only a page that opens touches the palette.
LEMMA PaletteClicked ==
  ASSUME SearchInv, BoardNext \/ Escape \/ ToggleAdmin
  PROVE  SearchInv'
<1>1. ASSUME NEW u, Click(u) PROVE SearchInv'
  BY <1>1, PaletteKept DEF Click
<1>2. ASSUME NEW s, NEW touched, TouchSection(s, touched) PROVE SearchInv'
  BY <1>2, PaletteKept DEF TouchSection
<1>3. ASSUME NEW u, PageOpens(u) PROVE SearchInv'
  BY <1>3, PaletteFresh DEF PageOpens
<1>4. CASE Escape
  BY <1>1, <1>4, PaletteKept DEF Escape
<1>5. CASE ToggleAdmin
  BY <1>1, <1>5 DEF ToggleAdmin
<1>6. CASE BoardNext
  <2>1. ASSUME NEW x, \/ PickFloor(x) \/ PressDigit(x) \/ ClickRoom(x)
                     \/ ClickRow(x) \/ ToggleLegend(x)
        PROVE  SearchInv'
    BY <1>1, <2>1 DEF PickFloor, PressDigit, ClickRoom, ClickRow, ToggleLegend
  <2>2. ASSUME Unselect \/ ShowOnMap \/ ClearHighlight PROVE SearchInv'
    BY <1>1, <2>2 DEF Unselect, ShowOnMap, ClearHighlight
  <2>3. ASSUME NEW s, NEW x, Rotate(s) \/ Hover(s) \/ PickDot(s, x) \/ Resize(s, x)
        PROVE  SearchInv'
    BY <1>2, <2>3, PaletteKept DEF Rotate, Hover, PickDot, Resize
  <2>4. ASSUME KioskStep \/ BoardPublished \/ BoardDelivered PROVE SearchInv'
    BY <2>4, PaletteKept DEF KioskStep, BoardPublished, BoardDelivered, pageVars
  <2>5. ASSUME ToggleKiosk \/ Reload PROVE SearchInv'
    BY <1>3, <2>5 DEF ToggleKiosk, Reload
  <2> QED
    BY <1>4, <1>6, <2>1, <2>2, <2>3, <2>4, <2>5 DEF BoardNext
<1> QED
  BY <1>4, <1>5, <1>6

LEMMA PaletteUsed ==
  ASSUME SearchInv, SearchNext
  PROVE  SearchInv'
<1>1. "" \in Queries /\ \A q \in DOMAIN Answers : q \in Queries
  BY DEF Queries
<1>2. ASSUME CloseSearch PROVE SearchInv'
  BY <1>1, <1>2, PaletteQueried DEF CloseSearch
<1>3. ASSUME NEW q \in DOMAIN Answers, TypeQuery(q) PROVE SearchInv'
  BY <1>1, <1>3, PaletteQueried DEF TypeQuery
<1>4. ASSUME NEW entry, Choose(entry) PROVE SearchInv'
  <2>1. palette' = Queried(palette, "")
    BY <1>4 DEF Choose
  <2> QED
    BY <1>1, <2>1, PaletteQueried
<1>5. ASSUME OpenSearch \/ BoardPublished \/ BoardDelivered PROVE SearchInv'
  BY <1>5, PaletteKept DEF OpenSearch, BoardPublished, BoardDelivered, pageVars
<1>6. ASSUME NEW i, DayServed(i) PROVE SearchInv'
  BY <1>6, PaletteKept DEF DayServed
<1>7. ASSUME NEW i, NEW sessions, NEW asOf, Chosen(i, sessions, asOf) PROVE SearchInv'
  BY <1>7, PaletteKept DEF Chosen
<1>8. ASSUME NEW i, DayLands(i) \/ DayFails(i) PROVE SearchInv'
  BY <1>7, <1>8 DEF DayLands, DayFails
<1> QED
  BY <1>2, <1>3, <1>4, <1>5, <1>6, <1>8, PaletteAsked, PaletteAnswered, PaletteClicked
  DEF SearchNext

\* The panels leave the palette as it is, a panel that is mounted anew too.
LEMMA PaletteBehindPanels ==
  ASSUME SearchInv, AdminNext
  PROVE  SearchInv'
<1>1. ASSUME NEW k, KeyArrives(k) PROVE SearchInv'
  BY <1>1, PaletteKept DEF KeyArrives, pageVars
<1>2. ASSUME Remount PROVE SearchInv'
  BY <1>2, PaletteKept DEF Remount, pageVars
<1>3. CASE OrdersNext
  <2>1. ASSUME NEW kind, NEW of, Order(kind, of) PROVE SearchInv'
    BY <2>1, PaletteKept DEF Order, pageVars
  <2>2. ASSUME PlaceOrder \/ UndoOrder \/ Announce PROVE SearchInv'
    BY <2>1, <2>2 DEF PlaceOrder, UndoOrder, Announce
  <2>3. ASSUME NEW o, OrderServed(o) \/ OrderAnswered(o) \/ OrderLost(o) PROVE SearchInv'
    BY <2>3, PaletteKept DEF OrderServed, OrderAnswered, OrderLost, pageVars
  <2> QED
    BY <1>3, <2>2, <2>3 DEF OrdersNext
<1>4. CASE TimetableNext
  <2>1. ASSUME NEW u, NEW g, Shows(u, g) PROVE SearchInv'
    BY <2>1, PaletteKept DEF Shows
  <2>2. ASSUME NEW x, \/ OpenSchedule \/ CloseSchedule \/ CancelForm \/ PickRoom(x) \/ PressAdd(x)
        PROVE  SearchInv'
    BY <2>1, <2>2 DEF OpenSchedule, CloseSchedule, CancelForm, PickRoom, PressAdd
  <2>3. ASSUME NEW r, FetchServed(r) \/ FetchLands(r) \/ FetchFails(r) PROVE SearchInv'
    BY <2>3, PaletteKept DEF FetchServed, FetchLands, FetchFails, pageVars
  <2>4. ASSUME NEW kind, NEW lesson, Change(kind, lesson) PROVE SearchInv'
    BY <2>4, PaletteKept DEF Change, pageVars
  <2>5. ASSUME SaveLesson \/ RemoveLesson PROVE SearchInv'
    BY <2>4, <2>5 DEF SaveLesson, RemoveLesson
  <2>6. ASSUME NEW c, ChangeServed(c) \/ ChangeAnswered(c) \/ ChangeFails(c) \/ ChangeLost(c)
        PROVE  SearchInv'
    BY <2>6, PaletteKept DEF ChangeServed, ChangeAnswered, ChangeFails, ChangeLost, pageVars
  <2> QED
    BY <1>4, <2>2, <2>3, <2>5, <2>6 DEF TimetableNext
<1> QED
  BY <1>1, <1>2, <1>3, <1>4 DEF AdminNext

LEMMA SearchInvAlways == WebSpec => []SearchInv
<1>1. WebInit => SearchInv
  <2> SUFFICES ASSUME palette = FreshPalette PROVE SearchInv
    BY DEF WebInit, BoardInit
  <2>1. palette.asked = <<>>
    BY DEF FreshPalette
  <2>2. palette.asked \in Seq(Request) /\ DOMAIN palette.asked = {}
    BY <2>1, EmptySeq
  <2>3. PaletteTyped
    BY <2>2 DEF PaletteTyped, FreshPalette, Queries
  <2> QED
    BY <2>2, <2>3 DEF SearchInv, WaitedForIsTyped, SearchSettles, FreshPalette
<1>2. SearchInv /\ [WebNext]_webVars => SearchInv'
  <2> SUFFICES ASSUME SearchInv, [WebNext]_webVars PROVE SearchInv'
    OBVIOUS
  <2>1. CASE UNCHANGED webVars
    BY <2>1, PaletteKept DEF webVars, pageVars
  <2>2. CASE UNCHANGED pageVars
    BY <2>2, PaletteKept DEF pageVars
  <2> QED
    BY <2>1, <2>2, PaletteClicked, PaletteUsed, PaletteBehindPanels DEF WebNext, EscapeToLive
<1> QED
  BY <1>1, <1>2, PTL DEF WebSpec

(* What the palette lists was found for the query in its field, whichever   *)
(* requests come in late, fail or are aborted: useSearch.ts and             *)
(* SearchPalette.tsx.                                                       *)
THEOREM SearchSettlesAlways == WebSpec => []SearchSettles
<1>1. SearchInv => SearchSettles
  BY DEF SearchInv
<1> QED
  BY <1>1, SearchInvAlways, PTL
-----------------------------------------------------------------------------
(* The data of the client has its type, whichever answers, events and       *)
(* failures come in.                                                        *)

LiveSnapshots == {Live(v) : v \in 0..MaxVersion}
PastSnapshots == {Past(m) : m \in Moments}
Ages == {0, 1, 2, Never}

StoreType ==
    [mode : {"live", "travel"}, shown : LiveSnapshots \cup PastSnapshots,
     live : LiveSnapshots, travelAt : {0} \cup Moments, loading : BOOLEAN,
     connection : {"online", "reconnecting", "offline"}, beat : Ages, snap : Ages,
     notes : SUBSET DOMAIN Notes, error : BOOLEAN]

Event ==
    [kind : {"snapshot"}, of : 1..MaxVersion] \cup [kind : {"announcement"}, of : DOMAIN Notes]

StreamType ==
    [state : {"connecting", "open", "silent", "retrying", "dead"}, queue : Seq(Event),
     everOpened : BOOLEAN, dropped : BOOLEAN]

(* Inductive strengthening: what is under way is typed as well.             *)
ClientInv ==
    /\ version \in 1..MaxVersion
    /\ stream \in StreamType
    /\ refetches \in Seq(0..MaxVersion) /\ \A i \in DOMAIN refetches : refetches[i] <= version
    /\ timer \in {0} \cup Moments /\ asked \in {0} \cup Moments
    /\ drops \in 0..MaxDrops /\ travels \in 0..MaxTravels
    /\ store \in StoreType

LEMMA ClientTyped == ClientInv => ClientTypeOK
<1> SUFFICES ASSUME ClientInv PROVE ClientTypeOK
  OBVIOUS
<1>1. \A i \in DOMAIN refetches : refetches[i] \in 0..version
  <2>1. \A i \in DOMAIN refetches : refetches[i] \in 0..MaxVersion
    BY LenProperties, ElementOfSeq DEF ClientInv
  <2> QED
    BY <2>1, ClientAssumption DEF ClientInv
<1>2. StoreTypeOK
  BY DEF ClientInv, StoreType, StoreTypeOK, LiveSnapshots, PastSnapshots, Ages
<1> QED
  BY <1>1, <1>2 DEF ClientInv, ClientTypeOK, StreamType

LEMMA Snapshots ==
  /\ \A v \in 0..MaxVersion : Live(v) \in LiveSnapshots
  /\ \A m \in Moments : Past(m) \in PastSnapshots
  /\ Nothing \in LiveSnapshots
  BY ClientAssumption DEF LiveSnapshots, PastSnapshots, Nothing

\* The functions of the store keep its type.
LEMMA StoreOpenedTyped ==
  ASSUME NEW snapshot \in LiveSnapshots \cup PastSnapshots, NEW m \in {0} \cup Moments,
         NEW failed \in BOOLEAN, snapshot \in LiveSnapshots \/ (m # 0 /\ ~failed)
  PROVE  StoreOpened(snapshot, m, failed) \in StoreType
  BY Snapshots DEF StoreOpened, StoreType, Ages, Carried

LEMMA SseTyped ==
  ASSUME NEW st \in StoreType, NEW v \in 0..MaxVersion
  PROVE  Heard(SseSnapshot(st, v)) \in StoreType
<1>1. SseSnapshot(st, v) \in StoreType
  BY Snapshots DEF SseSnapshot, StoreType, Ages, Merged, Carried
<1> QED
  BY <1>1 DEF Heard, StoreType, Ages

LEMMA RestTyped ==
  ASSUME NEW st \in StoreType, NEW s \in LiveSnapshots \cup PastSnapshots,
         st.mode = "travel" \/ s \in LiveSnapshots
  PROVE  RestSnapshot(st, s) \in StoreType
  BY DEF RestSnapshot, StoreType, Ages, Merged, Carried

LEMMA TravelTyped ==
  ASSUME NEW st \in StoreType, NEW m \in Moments
  PROVE  EnterTravel(st, m) \in StoreType /\ ExitTravel(st) \in StoreType
  BY DEF EnterTravel, ExitTravel, StoreType

\* A finite set as a sequence.
LEMMA ListOfSet ==
  ASSUME NEW S, IsFiniteSet(S)
  PROVE  SetToSeq(S) \in Seq(S)
<1>1. Cardinality(S) \in Nat /\ ExistsBijection(1..Cardinality(S), S)
  BY FS_CardinalityType
<1>2. \E f \in [1..Cardinality(S) -> S] : IsInjective(f)
  BY <1>1 DEF ExistsBijection, Bijection, Injection
<1>3. SetToSeq(S) \in [1..Cardinality(S) -> S]
  BY <1>2 DEF SetToSeq
<1> QED
  BY <1>1, <1>3, SeqDef

\* A new snapshot brings the announcements that begin with it.
LEMMA PublishedTyped ==
  ASSUME ClientInv, ServerPublishes
  PROVE  ClientInv'
<1> DEFINE begun == {n \in DOMAIN Notes : Notes[n].from = version + 1}
           new == SetToSeq(begun)
           told == [i \in DOMAIN new |-> [kind |-> "announcement", of |-> new[i]]]
<1>1. version \in Nat /\ version < MaxVersion /\ version + 1 \in 1..MaxVersion
  BY ClientAssumption DEF ClientInv, ServerPublishes
<1>2. IsFiniteSet(begun)
  BY ClientAssumption, FS_Subset
<1>3. told \in Seq(Event)
  <2>1. new \in Seq(begun)
    BY <1>2, ListOfSet
  <2> HIDE DEF new
  <2>2. DOMAIN new = 1..Len(new) /\ Len(new) \in Nat
    BY <2>1, LenProperties
  <2>3. \A i \in 1..Len(new) : new[i] \in DOMAIN Notes
    BY <2>1, ElementOfSeq
  <2>4. told \in [1..Len(new) -> Event]
    BY <2>2, <2>3 DEF Event
  <2> QED
    BY <2>2, <2>4, SeqDef
<1>4. <<Snap(version + 1)>> \in Seq(Event)
  <2>1. Snap(version + 1) \in Event
    BY <1>1 DEF Snap, Event
  <2> QED
    BY <2>1
<1>5. stream' = IF stream.state = "open"
                THEN [stream EXCEPT !.queue = @ \o told \o <<Snap(version + 1)>>] ELSE stream
  BY DEF ServerPublishes
<1> HIDE DEF told
<1>6. stream' \in StreamType
  <2>1. stream \in StreamType
    BY DEF ClientInv
  <2>2. stream.queue \o told \o <<Snap(version + 1)>> \in Seq(Event)
    BY <1>3, <1>4, <2>1, ConcatProperties DEF StreamType
  <2> QED
    BY <1>5, <2>1, <2>2 DEF StreamType
<1>7. refetches' = refetches /\ \A i \in DOMAIN refetches : refetches[i] <= version + 1
  <2>1. \A i \in DOMAIN refetches : refetches[i] \in Nat /\ refetches[i] <= version
    <3>1. DOMAIN refetches = 1..Len(refetches)
      BY LenProperties DEF ClientInv
    <3>2. \A i \in 1..Len(refetches) : refetches[i] \in 0..MaxVersion
      BY ElementOfSeq DEF ClientInv
    <3> QED
      BY <3>1, <3>2 DEF ClientInv
  <2> QED
    BY <1>1, <2>1 DEF ServerPublishes
<1>8. version' = version + 1
  BY DEF ServerPublishes
<1> QED
  BY <1>1, <1>6, <1>7, <1>8 DEF ServerPublishes, ClientInv

LEMMA OpenedTyped ==
  ASSUME ClientInv, StreamOpens
  PROVE  ClientInv'
<1>1. version \in 1..MaxVersion /\ version \in Nat /\ 0 \in 0..MaxVersion
  BY ClientAssumption DEF ClientInv
<1>2. <<Snap(version)>> \in Seq(Event)
  <2>1. Snap(version) \in Event
    BY <1>1 DEF Snap, Event
  <2> QED
    BY <2>1
<1>3. stream' \in StreamType
  BY <1>2 DEF StreamOpens, StreamType
<1>4. store' \in StoreType
  BY DEF StreamOpens, ClientInv, StoreType
<1>5. refetches' \in Seq(0..MaxVersion) /\ \A i \in DOMAIN refetches' : refetches'[i] <= version
  <2>1. refetches \in Seq(0..MaxVersion) /\ \A i \in DOMAIN refetches : refetches[i] <= version
    BY DEF ClientInv
  <2>2. CASE refetches' = refetches
    BY <2>1, <2>2
  <2>3. CASE refetches' = Append(refetches, 0)
    <3>1. /\ Append(refetches, 0) \in Seq(0..MaxVersion)
          /\ Len(Append(refetches, 0)) = Len(refetches) + 1
          /\ \A i \in 1..Len(refetches) : Append(refetches, 0)[i] = refetches[i]
          /\ Append(refetches, 0)[Len(refetches) + 1] = 0
      BY <1>1, <2>1, AppendProperties
    <3>2. /\ DOMAIN refetches = 1..Len(refetches) /\ Len(refetches) \in Nat
          /\ DOMAIN Append(refetches, 0) = 1..Len(refetches) + 1
      BY <2>1, <3>1, LenProperties
    <3> QED
      BY <1>1, <2>1, <2>3, <3>1, <3>2
  <2> QED
    BY <2>2, <2>3 DEF StreamOpens
<1> QED
  BY <1>3, <1>4, <1>5 DEF StreamOpens, ClientInv

\* An answer that is taken, or given up.
LEMMA FewerRefetches ==
  ASSUME ClientInv, NEW i \in DOMAIN refetches
  PROVE  /\ RemoveAt(refetches, i) \in Seq(0..MaxVersion)
         /\ \A k \in DOMAIN RemoveAt(refetches, i) : RemoveAt(refetches, i)[k] <= version
<1>1. refetches \in Seq(0..MaxVersion)
  BY DEF ClientInv
<1>2. /\ RemoveAt(refetches, i) \in Seq(0..MaxVersion)
      /\ \A k \in DOMAIN RemoveAt(refetches, i) :
            \E j \in DOMAIN refetches : RemoveAt(refetches, i)[k] = refetches[j]
  BY <1>1, RequestRemoved
<1> QED
  BY <1>2 DEF ClientInv

LEMMA StreamTyped ==
  ASSUME ClientInv, StreamNext
  PROVE  ClientInv'
<1> USE ClientAssumption
<1>1. ASSUME NEW next \in {"retrying", "dead"}, StreamFails(next) PROVE ClientInv'
  <2>1. stream' \in StreamType
    <3>1. <<>> \in Seq(Event)
      BY EmptySeq
    <3> QED
      BY <1>1, <3>1 DEF StreamFails, ClientInv, StreamType
  <2>2. store' \in StoreType
    BY <1>1 DEF StreamFails, ClientInv, StoreType
  <2> QED
    BY <1>1, <2>1, <2>2 DEF StreamFails, ClientInv
<1>2. ASSUME RetryFails PROVE ClientInv'
  <2>1. stream' \in StreamType /\ store' \in StoreType
    BY <1>2 DEF RetryFails, ClientInv, StoreType, StreamType
  <2> QED
    BY <1>2, <2>1 DEF RetryFails, ClientInv
<1>3. ASSUME StreamFallsSilent PROVE ClientInv'
  <2>1. stream' \in StreamType
    <3>1. <<>> \in Seq(Event)
      BY EmptySeq
    <3> QED
      BY <1>3, <3>1 DEF StreamFallsSilent, ClientInv, StreamType
  <2> QED
    BY <1>3, <2>1 DEF StreamFallsSilent, ClientInv
<1>4. ASSUME EventArrives PROVE ClientInv'
  <2>1. stream.queue \in Seq(Event) /\ stream.queue # <<>>
    BY <1>4 DEF EventArrives, Arriving, ClientInv, StreamType
  <2>2. Head(stream.queue) \in Event /\ Tail(stream.queue) \in Seq(Event)
    BY <2>1, HeadTailProperties
  <2>3. stream' \in StreamType
    BY <1>4, <2>2 DEF EventArrives, ClientInv, StreamType
  <2>4. store' \in StoreType
    <3>1. CASE Head(stream.queue).kind = "snapshot"
      <4>1. Head(stream.queue).of \in 0..MaxVersion
        BY <2>2, <3>1 DEF Event
      <4>2. store' = Heard(SseSnapshot(store, Head(stream.queue).of))
        BY <1>4, <3>1 DEF EventArrives
      <4> QED
        BY <4>1, <4>2, SseTyped DEF ClientInv
    <3>2. CASE Head(stream.queue).kind # "snapshot"
      <4>1. Head(stream.queue).of \in DOMAIN Notes
        BY <2>2, <3>2 DEF Event
      <4>2. store' = [store EXCEPT !.notes = @ \cup {Head(stream.queue).of}]
        BY <1>4, <3>2 DEF EventArrives
      <4> QED
        BY <4>1, <4>2 DEF ClientInv, StoreType
    <3> QED
      BY <3>1, <3>2
  <2> QED
    BY <1>4, <2>3, <2>4 DEF EventArrives, ClientInv
<1>5. ASSUME HeartbeatArrives PROVE ClientInv'
  <2>1. store' \in StoreType
    BY <1>5 DEF HeartbeatArrives, ClientInv, StoreType, Heard, Ages
  <2> QED
    BY <1>5, <2>1 DEF HeartbeatArrives, ClientInv
<1>6. ASSUME NEW i \in DOMAIN refetches, RefetchServed(i) PROVE ClientInv'
  <2>1. /\ refetches \in Seq(0..MaxVersion) /\ version \in 1..MaxVersion
        /\ \A k \in DOMAIN refetches : refetches[k] <= version
    BY DEF ClientInv
  <2>2. refetches' = [refetches EXCEPT ![i] = version]
    BY <1>6 DEF RefetchServed
  <2>3. version \in 0..MaxVersion /\ version <= version
    BY <2>1
  <2>4. refetches' \in Seq(0..MaxVersion) /\ \A k \in DOMAIN refetches' : refetches'[k] <= version
    <3>1. DOMAIN refetches = 1..Len(refetches) /\ Len(refetches) \in Nat
      BY <2>1, LenProperties
    <3>2. refetches \in [1..Len(refetches) -> 0..MaxVersion]
      BY <2>1, LenProperties
    <3>3. refetches' \in [1..Len(refetches) -> 0..MaxVersion]
      BY <2>2, <2>3, <3>1, <3>2
    <3> QED
      BY <2>1, <2>2, <2>3, <3>1, <3>3, SeqDef
  <2> QED
    BY <1>6, <2>4 DEF RefetchServed, ClientInv
<1>7. ASSUME NEW i \in DOMAIN refetches, RefetchArrives(i) PROVE ClientInv'
  <2>1. refetches[i] \in 0..MaxVersion
    BY LenProperties, ElementOfSeq DEF ClientInv
  <2>2. store' \in StoreType
    BY <1>7, <2>1, Snapshots, RestTyped DEF RefetchArrives, ClientInv
  <2>3. /\ refetches' \in Seq(0..MaxVersion)
        /\ \A k \in DOMAIN refetches' : refetches'[k] <= version
    BY <1>7, FewerRefetches DEF RefetchArrives
  <2> QED
    BY <1>7, <2>2, <2>3 DEF RefetchArrives, ClientInv
<1>8. ASSUME NEW i \in DOMAIN refetches, RefetchFails(i) PROVE ClientInv'
  BY <1>8, FewerRefetches DEF RefetchFails, ClientInv
<1>9. ASSUME TimePasses PROVE ClientInv'
  <2>1. store' \in StoreType
    <3>1. store \in StoreType /\ Older(store.beat) \in Ages /\ Older(store.snap) \in Ages
      BY DEF ClientInv, StoreType, Older, Ages, Never
    <3>2. store' = [store EXCEPT !.beat = Older(store.beat), !.snap = Older(store.snap)]
      BY <1>9 DEF TimePasses
    <3> QED
      BY <3>1, <3>2 DEF StoreType
  <2> QED
    BY <1>9, <2>1 DEF TimePasses, ClientInv
<1>10. ASSUME Watchdog PROVE ClientInv'
  <2>1. store' \in StoreType
    BY <1>10 DEF Watchdog, ClientInv, StoreType
  <2> QED
    BY <1>10, <2>1 DEF Watchdog, ClientInv
<1> QED
  BY <1>1, <1>2, <1>3, <1>4, <1>5, <1>6, <1>7, <1>8, <1>9, <1>10, PublishedTyped, OpenedTyped
  DEF StreamNext

LEMMA TravelStepTyped ==
  ASSUME ClientInv, BoardInv, TravelNext \/ GoLiveByShell
  PROVE  ClientInv'
<1> USE ClientAssumption
<1>1. store \in StoreType
  BY DEF ClientInv
<1>2. ASSUME NEW m \in Moments, TravelTo(m) PROVE ClientInv'
  <2>1. store' \in StoreType
    BY <1>1, <1>2, TravelTyped DEF TravelTo
  <2> QED
    BY <1>2, <2>1 DEF TravelTo, ClientInv
<1>3. CASE TravelRequested
  BY <1>3 DEF TravelRequested, ClientInv
<1>4. CASE TravelAnswered
  <2>1. CASE store.travelAt = asked
    <3>1. store.mode = "travel" /\ asked \in Moments
      BY <1>1, <1>4, <2>1 DEF TravelAnswered, BoardInv, BoardShowsWhatItSays, StoreType, ClientInv
    <3>2. store' = RestSnapshot(store, Past(asked))
      BY <1>4, <2>1 DEF TravelAnswered
    <3>3. store' \in StoreType
      BY <1>1, <3>1, <3>2, Snapshots, RestTyped
    <3> QED
      BY <1>4, <3>3 DEF TravelAnswered, ClientInv
  <2>2. CASE store.travelAt # asked
    BY <1>4, <2>2 DEF TravelAnswered, ClientInv
  <2> QED
    BY <2>1, <2>2
<1>5. CASE TravelFails
  <2>1. store' \in StoreType
    BY <1>1, <1>5 DEF TravelFails, StoreType
  <2> QED
    BY <1>5, <2>1 DEF TravelFails, ClientInv
<1>6. CASE GoLive \/ GoLiveByShell
  <2>1. ExitTravel(store) \in StoreType
    BY <1>1 DEF ExitTravel, StoreType
  <2> QED
    BY <1>6, <2>1 DEF GoLive, GoLiveByShell, ClientInv
<1> QED
  BY <1>2, <1>3, <1>4, <1>5, <1>6 DEF TravelNext

LEMMA ClientInvStep ==
  ASSUME ClientInv, BoardInv, [WebNext]_webVars
  PROVE  ClientInv'
<1> USE DEF BesideTheStore
<1>1. CASE UNCHANGED clientVars
  BY <1>1 DEF ClientInv, clientVars
<1>2. CASE /\ version < MaxVersion /\ version' = version + 1
           /\ UNCHANGED <<store, BesideTheStore>>
  <2>1. version' \in 1..MaxVersion /\ version <= version'
    BY <1>2, ClientAssumption DEF ClientInv
  <2>2. \A i \in DOMAIN refetches : refetches[i] \in Nat
    <3>1. DOMAIN refetches = 1..Len(refetches)
      BY LenProperties DEF ClientInv
    <3>2. \A i \in 1..Len(refetches) : refetches[i] \in 0..MaxVersion
      BY ElementOfSeq DEF ClientInv
    <3> QED
      BY <3>1, <3>2
  <2>3. \A i \in DOMAIN refetches : refetches[i] <= version'
    BY <2>1, <2>2 DEF ClientInv
  <2> QED
    BY <1>2, <2>1, <2>3 DEF ClientInv
<1>3. CASE store' = Heard(SseSnapshot(store, version)) /\ UNCHANGED <<version, BesideTheStore>>
  <2>1. version \in 0..MaxVersion
    BY DEF ClientInv
  <2>2. store' \in StoreType
    BY <1>3, <2>1, SseTyped DEF ClientInv
  <2> QED
    BY <1>3, <2>2 DEF ClientInv
<1>4. CASE store' = StoreOpened(Live(version), 0, FALSE) /\ UNCHANGED <<version, BesideTheStore>>
  <2>1. Live(version) \in LiveSnapshots
    BY Snapshots DEF ClientInv
  <2>2. store' \in StoreType
    BY <1>4, <2>1, StoreOpenedTyped
  <2> QED
    BY <1>4, <2>2 DEF ClientInv
<1> QED
  BY <1>1, <1>2, <1>3, <1>4, DataSteps, StreamTyped, TravelStepTyped DEF SharedStep

LEMMA ClientInvInit == WebInit => ClientInv
<1> SUFFICES ASSUME ClientInit PROVE ClientInv
  BY DEF WebInit
<1> USE ClientAssumption
<1>1. stream \in StreamType
  <2>1. <<>> \in Seq(Event)
    BY EmptySeq
  <2> QED
    BY <2>1 DEF ClientInit, StreamType
<1>2. refetches \in Seq(0..MaxVersion) /\ DOMAIN refetches = {}
  <2>1. refetches = <<>>
    BY DEF ClientInit
  <2> QED
    BY <2>1, EmptySeq
<1>3. store \in StoreType
  <2>1. Live(1) \in LiveSnapshots /\ Nothing \in LiveSnapshots
    BY Snapshots
  <2>2. CASE store = StoreOpened(Live(1), 0, FALSE) \/ store = StoreOpened(Nothing, 0, TRUE)
    BY <2>1, <2>2, StoreOpenedTyped
  <2>3. ASSUME NEW m \in Moments, store = StoreOpened(Past(m), m, FALSE)
        PROVE  store \in StoreType
    BY <2>3, Snapshots, StoreOpenedTyped
  <2> QED
    BY <2>2, <2>3 DEF ClientInit
<1> QED
  BY <1>1, <1>2, <1>3 DEF ClientInit, ClientInv

LEMMA ClientInvAlways == WebSpec => []ClientInv
  BY ClientInvInit, ClientInvStep, BoardInvAlways, PTL DEF WebSpec

-----------------------------------------------------------------------------
(* Places in an order.  The lists of the page are sets in a strict order:   *)
(* each element has the place that the number of those before it gives.     *)

\* A strict order, as the elements before each.
Ordering(S, before) ==
    /\ before \in [S -> SUBSET S]
    /\ \A x \in S : x \notin before[x]
    /\ \A x, y \in S : x = y \/ x \in before[y] \/ y \in before[x]
    /\ \A x, y \in S : x \in before[y] => before[x] \subseteq before[y]

Placed(S, before) ==
    /\ Cardinality(S) \in Nat
    /\ \A x \in S : Cardinality(before[x]) \in 0..Cardinality(S) - 1
    /\ \A x, y \in S : Cardinality(before[x]) = Cardinality(before[y]) => x = y
    /\ \A i \in 1..Cardinality(S) : \E x \in S : Cardinality(before[x]) = i - 1

LEMMA Places ==
  ASSUME NEW S, IsFiniteSet(S), NEW before, Ordering(S, before)
  PROVE  Placed(S, before)
<1> USE DEF Ordering
<1> DEFINE n == Cardinality(S)
           place == [x \in S |-> Cardinality(before[x]) + 1]
<1>1. n \in Nat
  BY FS_CardinalityType
<1>2. ASSUME NEW x \in S
      PROVE  IsFiniteSet(before[x]) /\ Cardinality(before[x]) \in Nat /\ Cardinality(before[x]) < n
  <2>1. before[x] \subseteq S /\ before[x] # S
    OBVIOUS
  <2> QED
    BY <1>1, <2>1, FS_Subset, FS_CardinalityType
<1>3. ASSUME NEW x \in S, NEW y \in S, x \in before[y]
      PROVE  Cardinality(before[x]) < Cardinality(before[y])
  <2>1. before[x] \subseteq before[y] /\ before[x] # before[y]
    BY <1>3
  <2> QED
    BY <1>2, <2>1, FS_Subset
<1>4. \A x, y \in S : Cardinality(before[x]) = Cardinality(before[y]) => x = y
  BY <1>2, <1>3
<1>5. place \in [S -> 1..n]
  BY <1>1, <1>2
<1>6. place \in Injection(S, 1..n)
  <2>1. \A x, y \in S : place[x] = place[y] => x = y
    BY <1>2, <1>4
  <2> QED
    BY <1>5, <2>1 DEF Injection, IsInjective
<1>7. IsFiniteSet(1..n) /\ Cardinality(1..n) = n
  BY <1>1, FS_Interval
<1>8. place \in Surjection(S, 1..n)
  BY <1>6, <1>7, FS_Injection
<1>9. ASSUME NEW i \in 1..n PROVE \E x \in S : Cardinality(before[x]) = i - 1
  <2>1. PICK x \in S : place[x] = i
    BY <1>8 DEF Surjection
  <2>2. Cardinality(before[x]) + 1 = i
    BY <2>1
  <2> QED
    BY <1>2, <2>2
<1> QED
  BY <1>1, <1>2, <1>4, <1>9 DEF Placed

Floors == {Map[c].floor : c \in DOMAIN Map}

\* A list with every element of a set, each at one place.
Lists(s, S) ==
    /\ Cardinality(S) \in Nat
    /\ s \in [1..Cardinality(S) -> S]
    /\ Elements(s) = S

LEMMA ListedByPlace ==
  ASSUME NEW S, NEW before, Placed(S, before), NEW s,
         s \in [1..Cardinality(S) -> S],
         \A i \in 1..Cardinality(S) : Cardinality(before[s[i]]) = i - 1
  PROVE  Lists(s, S)
<1> DEFINE n == Cardinality(S)
<1>1. n \in Nat /\ \A x \in S : Cardinality(before[x]) \in 0..n - 1
  BY DEF Placed
<1>2. \A i \in 1..n : s[i] \in S /\ Cardinality(before[s[i]]) = i - 1
  OBVIOUS
<1>3. DOMAIN s = 1..n
  OBVIOUS
<1>4. ASSUME NEW x \in S PROVE \E i \in DOMAIN s : s[i] = x
  <2> DEFINE i == Cardinality(before[x]) + 1
  <2>1. i \in 1..n /\ i - 1 = Cardinality(before[x])
    BY <1>1
  <2> HIDE DEF i
  <2>2. s[i] = x
    BY <1>2, <2>1 DEF Placed
  <2> QED
    BY <1>3, <2>1, <2>2
<1> QED
  BY <1>1, <1>3, <1>4 DEF Lists, Elements

\* Numbers, each with the smaller ones before it.
Smaller(F) == [x \in F |-> {y \in F : y < x}]

LEMMA NumbersPlaced ==
  ASSUME NEW F \in SUBSET Nat, IsFiniteSet(F)
  PROVE  Placed(F, Smaller(F))
<1> DEFINE before == Smaller(F)
<1>1. before \in [F -> SUBSET F] /\ \A x \in F : before[x] = {y \in F : y < x}
  BY DEF Smaller
<1> HIDE DEF before
<1>2. /\ \A x \in F : x \notin before[x]
      /\ \A x, y \in F : x = y \/ x \in before[y] \/ y \in before[x]
  BY <1>1
<1>3. \A x, y \in F : x \in before[y] => before[x] \subseteq before[y]
  <2> SUFFICES ASSUME NEW x \in F, NEW y \in F, x < y, NEW z \in F, z < x PROVE z < y
    BY <1>1
  <2> QED
    OBVIOUS
<1>4. Placed(F, before)
  BY <1>1, <1>2, <1>3, Places DEF Ordering
<1> QED
  BY <1>4 DEF before

LEMMA NumbersInOrder ==
  ASSUME NEW F \in SUBSET Nat, IsFiniteSet(F)
  PROVE  Lists(InOrder(F, <), F)
<1> DEFINE s == InOrder(F, <)
           before == Smaller(F)
<1>1. s = [i \in 1..Cardinality(F) |-> CHOOSE x \in F : Cardinality({y \in F : y < x}) = i - 1]
  BY DEF InOrder
<1>2. Placed(F, before) /\ \A x \in F : before[x] = {y \in F : y < x}
  BY NumbersPlaced DEF Smaller
<1> HIDE DEF s, before
<1>3. \A i \in 1..Cardinality(F) : s[i] \in F /\ Cardinality(before[s[i]]) = i - 1
  <2>1. \A i \in 1..Cardinality(F) : \E x \in F : Cardinality({y \in F : y < x}) = i - 1
    BY <1>2 DEF Placed
  <2>2. \A i \in 1..Cardinality(F) : s[i] \in F /\ Cardinality({y \in F : y < s[i]}) = i - 1
    BY <1>1, <2>1
  <2> QED
    BY <1>2, <2>2
<1>4. s \in [1..Cardinality(F) -> F]
  BY <1>1, <1>3
<1>5. Lists(s, F)
  <2>1. Placed(F, before) /\ \A i \in 1..Cardinality(F) : Cardinality(before[s[i]]) = i - 1
    BY <1>2, <1>3
  <2> QED
    BY <1>4, <2>1, ListedByPlace
<1> QED
  BY <1>5 DEF s

\* The rows that pass, counted and in their places.
LEMMA FilteredRows ==
  ASSUME NEW rows, NEW n \in Nat, DOMAIN rows = 1..n, NEW u
  PROVE  /\ Cardinality(Kept(rows, u)) \in Nat
         /\ DOMAIN FilterSessions(rows, u) = 1..Cardinality(Kept(rows, u))
         /\ \A k \in DOMAIN FilterSessions(rows, u) :
                \E i \in Kept(rows, u) : FilterSessions(rows, u)[k] = rows[i]
<1> DEFINE K == Kept(rows, u)
<1>1. K \in SUBSET (1..n) /\ K \in SUBSET Nat /\ IsFiniteSet(K)
  BY FS_Interval, FS_Subset DEF Kept
<1> HIDE DEF K
<1>2. Placed(K, Smaller(K)) /\ \A x \in K : Smaller(K)[x] = {y \in K : y < x}
  BY <1>1, NumbersPlaced DEF Smaller
<1>3. ASSUME NEW i \in K
      PROVE  Cardinality(K \cap 1..i) = Cardinality(Smaller(K)[i]) + 1
  <2> DEFINE B == {y \in K : y < i}
  <2>1. K \cap 1..i = B \cup {i} /\ i \notin B
    <3> DEFINE upto == 1..i
    <3>1. i \in Nat /\ \A y \in K : y \in Nat /\ 1 <= y
      BY <1>1
    <3>2. \A y \in K : y \in upto <=> y \in B \/ y = i
      BY <3>1
    <3>3. i \notin B /\ B \subseteq K
      BY <3>1
    <3> HIDE DEF upto, B
    <3>4. K \cap upto = B \cup {i}
      BY <3>2, <3>3
    <3> QED
      BY <3>3, <3>4 DEF upto
  <2>2. IsFiniteSet(B)
    BY <1>1, FS_Subset
  <2> HIDE DEF B
  <2>3. Cardinality(B \cup {i}) = Cardinality(B) + 1
    BY <2>1, <2>2, FS_AddElement
  <2> QED
    BY <1>2, <2>1, <2>3 DEF B
<1>4. ASSUME NEW k \in 1..Cardinality(K)
      PROVE  \E i \in K : Cardinality(K \cap 1..i) = k
  <2>1. PICK i \in K : Cardinality(Smaller(K)[i]) = k - 1
    BY <1>2 DEF Placed
  <2>2. k - 1 + 1 = k
    BY <1>2 DEF Placed
  <2> QED
    BY <1>3, <2>1, <2>2
<1>5. FilterSessions(rows, u) =
        [k \in 1..Cardinality(K) |-> rows[CHOOSE i \in K : Cardinality(K \cap 1..i) = k]]
  BY DEF FilterSessions, K
<1>6. \A k \in 1..Cardinality(K) : \E i \in K : FilterSessions(rows, u)[k] = rows[i]
  BY <1>4, <1>5
<1>7. Cardinality(K) \in Nat /\ DOMAIN FilterSessions(rows, u) = 1..Cardinality(K)
  BY <1>2, <1>5 DEF Placed
<1> QED
  BY <1>6, <1>7 DEF K

LEMMA RowsInOrder ==
  ASSUME NEW rows, IsFiniteSet(rows), NEW field,
         \A x \in rows : x.session.id \in Int /\ x.session[field] \in Int,
         \A x, y \in rows : x.session.id = y.session.id => x = y
  PROVE  Lists(Ordered(rows, field), rows)
<1> DEFINE Less(x, y) == \/ x.session[field] < y.session[field]
                         \/ x.session[field] = y.session[field] /\ x.session.id < y.session.id
           before == [x \in rows |-> {y \in rows : Less(y, x)}]
           s == Ordered(rows, field)
<1>1. /\ \A x \in rows : ~Less(x, x)
      /\ \A x, y \in rows : x = y \/ Less(x, y) \/ Less(y, x)
      /\ \A x, y, z \in rows : Less(z, x) /\ Less(x, y) => Less(z, y)
  OBVIOUS
<1>2. s = [i \in 1..Cardinality(rows) |->
                CHOOSE x \in rows : Cardinality({y \in rows : Less(y, x)}) = i - 1]
  BY DEF Ordered, InOrder
<1> HIDE DEF Less, s
<1>3. \A x \in rows : before[x] = {y \in rows : Less(y, x)}
  OBVIOUS
<1>4. Ordering(rows, before)
  BY <1>1 DEF Ordering
<1> HIDE DEF before
<1>5. Placed(rows, before)
  BY <1>4, Places
<1>6. \A i \in 1..Cardinality(rows) : s[i] \in rows /\ Cardinality(before[s[i]]) = i - 1
  BY <1>2, <1>3, <1>5 DEF Placed
<1>7. Lists(s, rows)
  <2>1. s \in [1..Cardinality(rows) -> rows]
    BY <1>2, <1>6
  <2> QED
    BY <1>5, <1>6, <2>1, ListedByPlace
<1> QED
  BY <1>7 DEF s

-----------------------------------------------------------------------------
(* The boards.  Every row is a session of the day the board was made from,  *)
(* and every list of a day has its rows.                                    *)

PhasedAt(S, t) == {E!Phased(s, t) : s \in S}

LEMMA PhasedInOrder ==
  ASSUME NEW d \in DOMAIN Days, NEW S \in SUBSET Days[d].sessions, NEW field \in {"start", "end"}
  PROVE  Lists(Ordered(PhasedAt(S, Days[d].at), field), PhasedAt(S, Days[d].at))
<1> DEFINE t == Days[d].at
           rows == PhasedAt(S, t)
           phased == [s \in S |-> E!Phased(s, t)]
<1>1. /\ IsFiniteSet(Days[d].sessions)
      /\ \A s \in S : s.id \in Nat /\ s.start \in Int /\ s.end \in Int
      /\ \A s, u \in S : s.id = u.id => s = u
  BY BoardPageAssumption DEF E!IsSession
<1>2. IsFiniteSet(S)
  BY <1>1, FS_Subset
<1>3. rows = {phased[s] : s \in S}
  BY DEF PhasedAt
<1>4. IsFiniteSet(rows)
  <2>1. phased \in [S -> rows] /\ \A r \in rows : \E s \in S : phased[s] = r
    BY <1>3
  <2> HIDE DEF phased, rows
  <2>2. phased \in Surjection(S, rows)
    BY <2>1 DEF Surjection
  <2> QED
    BY <1>2, <2>2, FS_Surjection
<1>5. /\ \A x \in rows : x.session.id \in Int /\ x.session[field] \in Int
      /\ \A x, y \in rows : x.session.id = y.session.id => x = y
  <2>1. \A x \in rows : x.session \in S /\ x = E!Phased(x.session, t)
    BY DEF PhasedAt, E!Phased
  <2> QED
    BY <1>1, <2>1
<1> HIDE DEF rows
<1>6. Lists(Ordered(rows, field), rows)
  BY <1>4, <1>5, RowsInOrder
<1> QED
  BY <1>6 DEF rows

LEMMA DayBoard ==
  ASSUME NEW d \in DOMAIN Days
  PROVE  LET S == Days[d].sessions
             t == Days[d].at
         IN  /\ Boards[d] = Board(Days[d]) /\ d \in DOMAIN Boards /\ d # 0
             /\ Lists(Boards[d].now, PhasedAt(E!NowList(S, t), t))
             /\ Lists(Boards[d].next, PhasedAt(E!NextList(S, t), t))
             /\ Boards[d].phase = [r \in SchedulableRooms |-> E!RoomState(S, r, t).phase]
<1> DEFINE S == Days[d].sessions
           t == Days[d].at
<1>1. Boards[d] = Board(Days[d]) /\ d \in DOMAIN Boards /\ d # 0
  BY BoardPageAssumption DEF Boards
<1>2. E!NowList(S, t) \in SUBSET S /\ E!NextList(S, t) \in SUBSET S
  BY DEF E!NowList, E!NextList, E!In
<1>3. /\ E!Contents(S, t).now = PhasedAt(E!NowList(S, t), t)
      /\ E!Contents(S, t).next = PhasedAt(E!NextList(S, t), t)
      /\ \A r \in SchedulableRooms : E!Contents(S, t).rooms[r] = E!RoomState(S, r, t)
  BY DEF E!Contents, PhasedAt
<1> HIDE DEF S, t
<1>4. /\ Board(Days[d]).now = Ordered(PhasedAt(E!NowList(S, t), t), "end")
      /\ Board(Days[d]).next = Ordered(PhasedAt(E!NextList(S, t), t), "start")
      /\ Board(Days[d]).phase = [r \in SchedulableRooms |-> E!RoomState(S, r, t).phase]
  BY <1>3 DEF Board, S, t
<1>5. /\ Lists(Board(Days[d]).now, PhasedAt(E!NowList(S, t), t))
      /\ Lists(Board(Days[d]).next, PhasedAt(E!NextList(S, t), t))
  BY <1>2, <1>4, PhasedInOrder DEF S, t
<1> QED
  BY <1>1, <1>4, <1>5 DEF S, t

LEMMA BoardRows ==
  ASSUME NEW at \in DOMAIN Boards
  PROVE  /\ \A s \in Sections :
            /\ \E n \in Nat : DOMAIN Boards[at][s] = 1..n
            /\ Elements(Boards[at][s]) \subseteq Listed(Boards[at])
         /\ \A row \in Listed(Boards[at]) :
                at \in DOMAIN Days /\ row.session \in Days[at].sessions
         /\ DOMAIN Boards[at].phase \subseteq DOMAIN Map
<1>1. \A s \in Sections : Elements(Boards[at][s]) \subseteq Listed(Boards[at])
  BY DEF Sections, Listed
<1>2. CASE at \in DOMAIN Days
  <2> DEFINE now == PhasedAt(E!NowList(Days[at].sessions, Days[at].at), Days[at].at)
             next == PhasedAt(E!NextList(Days[at].sessions, Days[at].at), Days[at].at)
  <2>1. Lists(Boards[at].now, now) /\ Lists(Boards[at].next, next)
        /\ DOMAIN Boards[at].phase = SchedulableRooms
    BY <1>2, DayBoard
  <2>2. \A row \in now \cup next : row.session \in Days[at].sessions
    BY DEF PhasedAt, E!NowList, E!NextList, E!In, E!Phased
  <2> HIDE DEF now, next
  <2>3. \A s \in Sections : \E n \in Nat : DOMAIN Boards[at][s] = 1..n
    BY <2>1 DEF Lists, Sections
  <2>4. Listed(Boards[at]) = now \cup next
    BY <2>1 DEF Lists, Listed
  <2> QED
    BY <1>1, <1>2, <2>1, <2>2, <2>3, <2>4 DEF SchedulableRooms
<1>3. CASE at \notin DOMAIN Days
  <2>1. Boards[at] = EmptyBoard
    BY <1>3 DEF Boards
  <2>2. /\ DOMAIN Boards[at].now = 1..0 /\ DOMAIN Boards[at].next = 1..0
        /\ DOMAIN Boards[at].phase = {}
    BY <2>1 DEF EmptyBoard
  <2>3. \A s \in Sections : DOMAIN Boards[at][s] = 1..0 /\ 0 \in Nat
    BY <2>2 DEF Sections
  <2>4. Listed(Boards[at]) = {}
    BY <2>2 DEF Listed, Elements
  <2> QED
    BY <1>1, <2>2, <2>3, <2>4
<1> QED
  BY <1>2, <1>3

-----------------------------------------------------------------------------
(* The board and the map.                                                   *)

\* A highlight knows the rooms of the rows it leaves on the board.
Tells(h) ==
    /\ h.asOf \in DOMAIN Boards /\ h.rooms \subseteq DOMAIN Map
    /\ h # NoHighlight =>
        \A row \in Listed(Boards[h.asOf]) : row.session.id \in h.sessions =>
            \/ row.session.room \in h.rooms
            \/ row.session.status = "cancelled"
            \/ h.kind = "room" /\ row.session.from = h.id

UiOK(u) ==
    /\ u \in [focused : Nat, floors : SUBSET Floors, selected : {""} \cup DOMAIN Map,
              highlight : {u.highlight}, kiosk : BOOLEAN, searchOpen : BOOLEAN,
              adminOpen : BOOLEAN, scheduleOpen : BOOLEAN]
    /\ Tells(u.highlight)

PagerType == [Sections -> [page : Nat, per : {1} \cup PerPages, hover : BOOLEAN]]

InRange(pg, u, board) ==
    /\ pg \in PagerType
    /\ \A s \in Sections : pg[s].page < PageCount(Cardinality(Kept(board[s], u)), pg[s].per)

Pick ==
    [of : UNION {Answers[q] : q \in DOMAIN Answers}, seen : DOMAIN Boards, served : 0..MaxVersion]

PageOK ==
    /\ UiOK(ui)
    /\ InRange(pager, ui, Snapshot)
    /\ driver \in Nat \cup {-1}
    /\ palette.result \in {Answers[q] : q \in DOMAIN Answers} \cup {{}}
    /\ picks \in Seq(Pick)
    /\ clicks \in 0..MaxClicks

FirstPages == \A s \in Sections : pager[s].page = 0

(* Inductive strengthening: the pages are in range because whoever changes  *)
(* the rows turns them back; the parts of the page that do not, stay on the *)
(* first ones.                                                              *)
PageInv ==
    /\ PageOK
    /\ scene \in Scenes
    /\ scene \notin {"board", "search"} => FirstPages

LEMMA FloorsListed ==
  Lists(FloorNumbers, Floors) /\ Floors \subseteq Nat /\ IsFiniteSet(Floors)
<1>1. Floors \in SUBSET Nat
  BY BoardPageAssumption DEF Floors
<1>2. IsFiniteSet(Floors)
  <2> DEFINE floor == [c \in DOMAIN Map |-> Map[c].floor]
  <2>1. floor \in Surjection(DOMAIN Map, Floors)
    BY DEF Floors, Surjection
  <2> QED
    BY <2>1, BoardPageAssumption, FS_Surjection
<1>3. FloorNumbers = InOrder(Floors, <)
  BY DEF FloorNumbers, Floors
<1> QED
  BY <1>1, <1>2, <1>3, NumbersInOrder

LEMMA RowsKnown ==
  ASSUME NEW at \in DOMAIN Boards
  PROVE  /\ \A row \in Listed(Boards[at]) : row.session.room \in DOMAIN Map
         /\ \A x, y \in Listed(Boards[at]) : x.session.id = y.session.id => x.session = y.session
<1>1. \A row \in Listed(Boards[at]) : at \in DOMAIN Days /\ row.session \in Days[at].sessions
  BY BoardRows
<1> QED
  BY <1>1, BoardPageAssumption DEF E!IsSession

LEMMA SnapshotKnown ==
  ASSUME NEW st \in StoreType
  PROVE  st.shown.at \in DOMAIN Boards
<1>1. st.shown \in LiveSnapshots \cup PastSnapshots
  BY DEF StoreType
<1>2. st.shown.at \in {0} \cup (1..MaxVersion) \cup Moments
  BY <1>1 DEF LiveSnapshots, PastSnapshots, Live, Past
<1> QED
  BY <1>2, BoardPageAssumption DEF Boards

LEMMA UiChanges ==
  ASSUME NEW u, UiOK(u)
  PROVE  /\ \A f \in Nat : UiOK([u EXCEPT !.focused = f])
         /\ \A c \in {""} \cup DOMAIN Map : UiOK([u EXCEPT !.selected = c])
         /\ \A b \in BOOLEAN : /\ UiOK([u EXCEPT !.searchOpen = b])
                               /\ UiOK([u EXCEPT !.adminOpen = b])
                               /\ UiOK([u EXCEPT !.scheduleOpen = b])
                               /\ UiOK([u EXCEPT !.kiosk = b])
         /\ \A h : Tells(h) => UiOK([u EXCEPT !.highlight = h])
         /\ \A f \in {0} \cup Floors : UiOK(OnFloor(u, f))
<1> HIDE DEF Floors
<1>1. \A f \in {0} \cup Floors : f \in Nat
  BY FloorsListed
<1>2. \A h : [u EXCEPT !.highlight = h].highlight = h
  BY DEF UiOK
<1>3. \A h : Tells(h) => UiOK([u EXCEPT !.highlight = h])
  BY <1>2 DEF UiOK
<1>4. \A f \in {0} \cup Floors : UiOK(OnFloor(u, f))
  BY <1>1 DEF UiOK, OnFloor
<1> QED
  BY <1>3, <1>4 DEF UiOK

\* There is always a page, and a last one.
LEMMA PagesPositive ==
  ASSUME NEW n \in Nat, NEW per \in Nat \ {0}
  PROVE  PageCount(n, per) \in Nat \ {0}
<1>1. CASE n = 0
  BY <1>1 DEF PageCount
<1>2. CASE n # 0
  <2>1. n + per - 1 \in Nat /\ n + per - 1 >= per
    BY <1>2
  <2>2. (n + per - 1) \div per \in Nat /\ (n + per - 1) \div per >= 1
    BY <2>1
  <2> QED
    BY <1>2, <2>2 DEF PageCount
<1> QED
  BY <1>1, <1>2

LEMMA KeptCounted ==
  ASSUME NEW at \in DOMAIN Boards, NEW s \in Sections, NEW u
  PROVE  Cardinality(Kept(Boards[at][s], u)) \in Nat
<1>1. PICK n \in Nat : DOMAIN Boards[at][s] = 1..n
  BY BoardRows
<1> QED
  BY <1>1, FilteredRows

LEMMA PerPositive == \A per \in {1} \cup PerPages : per \in Nat \ {0}
  BY BoardPageAssumption

LEMMA ClampedInRange ==
  ASSUME NEW at \in DOMAIN Boards, NEW u, NEW pg \in PagerType
  PROVE  /\ InRange(Clamped(pg, u, Boards[at]), u, Boards[at])
         /\ \A s \in Sections : pg[s].page = 0 => Clamped(pg, u, Boards[at])[s].page = 0
<1> DEFINE new == Clamped(pg, u, Boards[at])
           count(s) == Cardinality(Kept(Boards[at][s], u))
<1>1. ASSUME NEW s \in Sections
      PROVE  /\ new[s] \in [page : Nat, per : {1} \cup PerPages, hover : BOOLEAN]
             /\ new[s].page < PageCount(count(s), new[s].per)
             /\ pg[s].page = 0 => new[s].page = 0
  <2>1. /\ pg[s] \in [page : Nat, per : {1} \cup PerPages, hover : BOOLEAN]
        /\ pg[s].page \in Nat /\ pg[s].per \in {1} \cup PerPages
    BY DEF PagerType
  <2>2. PageCount(count(s), pg[s].per) \in Nat \ {0}
    BY <2>1, KeptCounted, PerPositive, PagesPositive
  <2> DEFINE p == Paginate(count(s), pg[s].per, pg[s].page).page
  <2>3. new[s] = [pg[s] EXCEPT !.page = p]
    BY DEF Clamped
  <2> HIDE DEF count, new
  <2>4. p \in Nat /\ p < PageCount(count(s), pg[s].per) /\ (pg[s].page = 0 => p = 0)
    BY <2>1, <2>2 DEF Paginate, OnPage
  <2> HIDE DEF p
  <2> QED
    BY <2>1, <2>3, <2>4
<1>2. new \in PagerType
  <2>1. DOMAIN new = Sections /\ new = [s \in Sections |-> new[s]]
    BY DEF Clamped
  <2> HIDE DEF new
  <2> QED
    BY <1>1, <2>1 DEF PagerType
<1> QED
  BY <1>1, <1>2 DEF InRange

\* The first pages are in range, whatever is shown.
LEMMA FirstInRange ==
  ASSUME NEW at \in DOMAIN Boards, NEW u, NEW pg \in PagerType,
         \A s \in Sections : pg[s].page = 0
  PROVE  InRange(pg, u, Boards[at])
<1>1. ASSUME NEW s \in Sections
      PROVE  pg[s].page < PageCount(Cardinality(Kept(Boards[at][s], u)), pg[s].per)
  <2>1. pg[s].per \in {1} \cup PerPages
    BY DEF PagerType
  <2>2. PageCount(Cardinality(Kept(Boards[at][s], u)), pg[s].per) \in Nat \ {0}
    BY <2>1, KeptCounted, PerPositive, PagesPositive
  <2> QED
    BY <2>2
<1> QED
  BY <1>1 DEF InRange

\* A highlight of sessions of the board, and of a room's those that left it.
LEMMA HighlightedTells ==
  ASSUME NEW at \in DOMAIN Boards, NEW kind, NEW id, NEW sessions,
         \A s \in sessions : s.room \in DOMAIN Map,
         \A row \in Listed(Boards[at]) : \A s \in sessions :
            s.id = row.session.id => s = row.session,
         kind = "room" => id \in DOMAIN Map /\ \A s \in sessions : s.room = id \/ s.from = id
  PROVE  Tells(Highlighted(kind, id, sessions, at))
<1> DEFINE h == Highlighted(kind, id, sessions, at)
<1>1. /\ h.kind = kind /\ h.id = id /\ h.asOf = at
      /\ h.sessions = {s.id : s \in sessions}
      /\ kind = "room" => h.rooms = {id}
      /\ kind # "room" => h.rooms = {s.room : s \in {x \in sessions : x.status # "cancelled"}}
  BY DEF Highlighted
<1> HIDE DEF h
<1>2. h.rooms \subseteq DOMAIN Map
  BY <1>1
<1>3. ASSUME NEW row \in Listed(Boards[at]), row.session.id \in h.sessions
      PROVE  \/ row.session.room \in h.rooms
             \/ row.session.status = "cancelled"
             \/ h.kind = "room" /\ row.session.from = h.id
  <2>1. PICK s \in sessions : s.id = row.session.id
    BY <1>1, <1>3
  <2>2. s = row.session
    BY <2>1
  <2> QED
    BY <1>1, <2>1, <2>2
<1>4. Tells(h)
  BY <1>1, <1>2, <1>3 DEF Tells
<1> QED
  BY <1>4 DEF h

LEMMA KnownTells ==
  ASSUME NEW at \in DOMAIN Boards, NEW kind, NEW id, kind = "room" => id \in DOMAIN Map
  PROVE  Tells(Highlighted(kind, id, KnownSessions(kind, id, Boards[at]), at))
<1> DEFINE sessions == KnownSessions(kind, id, Boards[at])
<1>1. \A s \in sessions : s[kind] = id /\ \E row \in Listed(Boards[at]) : s = row.session
  BY DEF KnownSessions
<1> HIDE DEF sessions
<1>2. \A s \in sessions : s.room \in DOMAIN Map
  BY <1>1, RowsKnown
<1>3. \A row \in Listed(Boards[at]) : \A s \in sessions : s.id = row.session.id => s = row.session
  BY <1>1, RowsKnown
<1>4. kind = "room" => id \in DOMAIN Map /\ \A s \in sessions : s.room = id \/ s.from = id
  BY <1>1
<1>5. Tells(Highlighted(kind, id, sessions, at))
  BY <1>2, <1>3, <1>4, HighlightedTells
<1> QED
  BY <1>5 DEF sessions

LEMMA DayTells ==
  ASSUME NEW d \in DOMAIN Days, NEW kind, NEW id, kind = "room" => id \in DOMAIN Map
  PROVE  Tells(Highlighted(kind, id, DayOf(kind, id, Days[d].sessions), d))
<1> DEFINE sessions == DayOf(kind, id, Days[d].sessions)
<1>1. sessions \subseteq Days[d].sessions /\ d \in DOMAIN Boards
  BY DEF DayOf, Boards
<1>2. kind = "room" => \A s \in sessions : s.room = id \/ s.from = id
  BY DEF DayOf
<1> HIDE DEF sessions
<1>3. \A s \in sessions : s.room \in DOMAIN Map
  BY <1>1, BoardPageAssumption DEF E!IsSession
<1>4. \A row \in Listed(Boards[d]) : \A s \in sessions : s.id = row.session.id => s = row.session
  <2>1. \A row \in Listed(Boards[d]) : row.session \in Days[d].sessions
    BY <1>1, BoardRows
  <2> QED
    BY <1>1, <2>1, BoardPageAssumption
<1>5. Tells(Highlighted(kind, id, sessions, d))
  BY <1>1, <1>2, <1>3, <1>4, HighlightedTells
<1> QED
  BY <1>5 DEF sessions

LEMMA NothingTells == Tells(NoHighlight)
  BY DEF Tells, NoHighlight, Boards

LEMMA ChosenOK ==
  ASSUME NEW u, UiOK(u), NEW h, Tells(h), h.kind = "room" => h.id \in DOMAIN Map
  PROVE  UiOK(WithChosen(u, h))
<1> DEFINE lit == [u EXCEPT !.highlight = h]
           at == [lit EXCEPT !.selected = h.id]
<1>1. UiOK(lit)
  BY UiChanges
<1>2. WithChosen(u, h) = IF h.kind = "room" THEN OnFloor(at, Map[h.id].floor) ELSE lit
  BY DEF WithChosen
<1> HIDE DEF lit
<1>3. CASE h.kind = "room"
  <2>1. UiOK(at)
    BY <1>1, <1>3, UiChanges
  <2> HIDE DEF at
  <2>2. Map[h.id].floor \in Floors
    BY <1>3 DEF Floors
  <2>3. UiOK(OnFloor(at, Map[h.id].floor))
    BY <2>1, <2>2, UiChanges
  <2> QED
    BY <1>2, <1>3, <2>3
<1> QED
  BY <1>1, <1>2, <1>3

-----------------------------------------------------------------------------
(* The steps of the board and of the search turn the pages back.            *)

BesidePages ==
    /\ driver \in Nat \cup {-1}
    /\ palette.result \in {Answers[q] : q \in DOMAIN Answers} \cup {{}}
    /\ picks \in Seq(Pick)
    /\ clicks \in 0..MaxClicks

LEMMA Turned ==
  ASSUME ClientInv', NEW pg \in PagerType, UiOK(ui'), BesidePages',
         pager' = Clamped(pg, ui', Boards[store'.shown.at])
  PROVE  PageOK'
<1>1. store'.shown.at \in DOMAIN Boards
  BY SnapshotKnown DEF ClientInv
<1>2. InRange(pager', ui', Boards[store'.shown.at])
  BY <1>1, ClampedInRange
<1> QED
  BY <1>2 DEF PageOK, BesidePages, Snapshot

LEMMA Clicked ==
  ASSUME PageOK, ClientInv, NEW u, UiOK(u), Click(u)
  PROVE  PageOK' /\ (FirstPages => FirstPages')
<1>1. /\ ui' = u /\ pager' = Clamped(pager, u, Snapshot) /\ clicks' \in 0..MaxClicks
      /\ UNCHANGED <<clientVars, driver, palette, picks>>
  BY BoardPageAssumption DEF Click, PageOK
<1>2. store' = store /\ ClientInv' /\ BesidePages'
  BY <1>1 DEF clientVars, ClientInv, PageOK, BesidePages
<1>3. pager \in PagerType /\ store.shown.at \in DOMAIN Boards
  BY SnapshotKnown DEF PageOK, InRange, ClientInv
<1>4. pager' = Clamped(pager, ui', Boards[store'.shown.at])
  BY <1>1, <1>2 DEF Snapshot
<1>5. PageOK'
  BY <1>1, <1>2, <1>3, <1>4, Turned
<1>6. ASSUME FirstPages, NEW s \in Sections PROVE pager'[s].page = 0
  BY <1>1, <1>3, <1>6, ClampedInRange DEF FirstPages, Snapshot
<1> QED
  BY <1>5, <1>6 DEF FirstPages

\* Where nothing turns the pages, they stay the first ones.
LEMMA FirstStay ==
  ASSUME PageOK, ClientInv', FirstPages, UiOK(ui'),
         UNCHANGED <<pager, driver, palette, picks, clicks>>
  PROVE  PageOK' /\ FirstPages'
<1>1. store'.shown.at \in DOMAIN Boards
  BY SnapshotKnown DEF ClientInv
<1>2. InRange(pager', ui', Boards[store'.shown.at])
  BY <1>1, FirstInRange DEF PageOK, InRange, FirstPages
<1> QED
  BY <1>2 DEF PageOK, FirstPages, Snapshot

LEMMA FreshPages == FreshPager \in PagerType /\ \A s \in Sections : FreshPager[s].page = 0
  BY DEF FreshPager, PagerType

LEMMA PageOpened ==
  ASSUME PageOK, ClientInv', NEW u, UiOK(u), PageOpens(u)
  PROVE  PageOK' /\ FirstPages'
<1>1. ui' = u /\ pager' = FreshPager /\ BesidePages'
  <2>1. /\ ui' = u /\ pager' = FreshPager /\ driver' = -1 /\ palette'.result = {}
        /\ picks' = picks /\ clicks < MaxClicks /\ clicks' = clicks + 1
    BY DEF PageOpens, FreshPalette
  <2>2. clicks' \in 0..MaxClicks
    BY <2>1, BoardPageAssumption DEF PageOK
  <2> QED
    BY <2>1, <2>2 DEF PageOK, BesidePages
<1>2. store'.shown.at \in DOMAIN Boards
  BY SnapshotKnown DEF ClientInv
<1>3. InRange(pager', ui', Boards[store'.shown.at])
  BY <1>1, <1>2, FirstInRange, FreshPages
<1> QED
  BY <1>1, <1>3, FreshPages DEF PageOK, BesidePages, Snapshot, FirstPages

LEMMA EscapeOK ==
  ASSUME PageOK, ClientInv, ClientInv', Escape
  PROVE  PageOK'
<1>1. UiOK(ui) /\ pager \in PagerType
  BY DEF PageOK, InRange
<1>2. UiOK([ui EXCEPT !.selected = ""]) /\ UiOK([ui EXCEPT !.highlight = NoHighlight])
      /\ UiOK([ui EXCEPT !.focused = 0])
  BY <1>1, UiChanges, NothingTells
<1>3. CASE /\ pager' = Clamped(pager, ui, Boards[store'.shown.at])
           /\ UNCHANGED <<ui, driver, palette, picks, clicks>>
  <2>1. UiOK(ui') /\ BesidePages'
    BY <1>1, <1>3 DEF PageOK, BesidePages
  <2> QED
    BY <1>1, <1>3, <2>1, Turned
<1> QED
  BY <1>2, <1>3, Clicked DEF Escape

\* A new snapshot is published, or delivered to the board.
LEMMA DeliveredOK ==
  ASSUME PageOK, ClientInv', BoardPublished \/ BoardDelivered
  PROVE  PageOK'
<1>1. CASE BoardPublished
  BY <1>1 DEF BoardPublished, pageVars, PageOK, Snapshot
<1>2. CASE BoardDelivered
  <2>1. pager \in PagerType /\ pager' = Clamped(pager, ui', Boards[store'.shown.at])
    BY <1>2 DEF BoardDelivered, PageOK, InRange
  <2>2. UiOK(ui') /\ BesidePages'
    BY <1>2 DEF BoardDelivered, PageOK, BesidePages
  <2> QED
    BY <2>1, <2>2, Turned
<1> QED
  BY <1>1, <1>2

\* The rows that are drawn are rows of the snapshot.
LEMMA RowsDrawn ==
  ASSUME PageOK, ClientInv, NEW s \in Sections
  PROVE  /\ Elements(RowsOf(s)) \subseteq Listed(Snapshot)
         /\ VisibleRows(s) \subseteq Elements(RowsOf(s))
         /\ Pages(s) \in Nat \ {0}
         /\ \A row \in Elements(RowsOf(s)) : Passes(row, ui)
<1> DEFINE rows == Snapshot[s]
           per == pager[s].per
           page == pager[s].page
<1>1. store.shown.at \in DOMAIN Boards
  BY SnapshotKnown DEF ClientInv
<1>2. PICK n \in Nat : DOMAIN rows = 1..n
  BY <1>1, BoardRows DEF Snapshot
<1>3. /\ RowCount(s) \in Nat /\ DOMAIN RowsOf(s) = 1..RowCount(s)
      /\ \A k \in DOMAIN RowsOf(s) : \E i \in Kept(rows, ui) : RowsOf(s)[k] = rows[i]
  BY <1>2, FilteredRows DEF RowCount, RowsOf
<1>4. Elements(RowsOf(s)) \subseteq Elements(rows) /\ \A row \in Elements(RowsOf(s)) : Passes(row, ui)
  BY <1>3 DEF Elements, Kept
<1>5. Elements(rows) \subseteq Listed(Snapshot)
  BY DEF Sections, Listed
<1>6. page \in Nat /\ per \in Nat \ {0} /\ Pages(s) \in Nat \ {0} /\ page < Pages(s)
  <2>1. /\ pager[s] \in [page : Nat, per : {1} \cup PerPages, hover : BOOLEAN]
        /\ page < PageCount(Cardinality(Kept(rows, ui)), per)
    BY DEF PageOK, InRange, PagerType
  <2>2. per \in Nat \ {0}
    BY <2>1, PerPositive
  <2> QED
    BY <1>3, <2>1, <2>2, PagesPositive DEF Pages, RowCount
<1>7. ShownPage(s).first \in Nat \ {0} /\ ShownPage(s).last \in Int /\ ShownPage(s).last <= RowCount(s)
  <2>1. ShownPage(s) = OnPage(RowCount(s), per, page)
    BY <1>6 DEF ShownPage, Paginate, Pages
  <2>2. page * per \in Nat /\ (page + 1) * per \in Nat
    BY <1>6
  <2> HIDE DEF page, per
  <2>3. /\ ShownPage(s).first = page * per + 1
        /\ ShownPage(s).last = IF RowCount(s) < (page + 1) * per THEN RowCount(s) ELSE (page + 1) * per
    BY <2>1 DEF OnPage
  <2> QED
    BY <1>3, <2>2, <2>3
<1>8. VisibleRows(s) \subseteq Elements(RowsOf(s))
  <2>1. \A i \in ShownPage(s).first..ShownPage(s).last : i \in DOMAIN RowsOf(s)
    BY <1>3, <1>7
  <2> QED
    BY <2>1 DEF VisibleRows, Elements
<1> QED
  BY <1>4, <1>5, <1>6, <1>8

LEMMA LegendTells ==
  ASSUME ClientInv, NEW phase, NEW rooms, NEW rows,
         rooms = {c \in DOMAIN Snapshot.phase : Snapshot.phase[c] = phase},
         rows = {row \in Listed(Snapshot) : phase # "free" /\ row.session.room \in rooms}
  PROVE  Tells([kind |-> "phase", id |-> phase, rooms |-> rooms,
                sessions |-> {row.session.id : row \in rows}, asOf |-> store.shown.at])
<1>1. store.shown.at \in DOMAIN Boards
  BY SnapshotKnown DEF ClientInv
<1>2. rooms \subseteq DOMAIN Map
  BY <1>1, BoardRows DEF Snapshot
<1>3. ASSUME NEW row \in Listed(Boards[store.shown.at]),
             row.session.id \in {x.session.id : x \in rows}
      PROVE  row.session.room \in rooms
  <2>1. PICK x \in rows : x.session.id = row.session.id
    BY <1>3
  <2>2. x.session = row.session
    BY <1>1, <2>1, RowsKnown DEF Snapshot
  <2> QED
    BY <2>1, <2>2
<1> QED
  BY <1>1, <1>2, <1>3 DEF Tells

LEMMA TouchedOK ==
  ASSUME PageOK, ClientInv, NEW s \in Sections, NEW touched, TouchSection(s, touched),
         touched \in [page : Nat, per : {1} \cup PerPages, hover : BOOLEAN]
  PROVE  PageOK'
<1> DEFINE pg == [pager EXCEPT ![s] = touched]
<1>1. pg \in PagerType
  BY DEF PageOK, InRange, PagerType
<1> HIDE DEF pg
<1>2. /\ pager' = Clamped(pg, ui, Snapshot) /\ ui' = ui /\ store' = store
      /\ ClientInv' /\ BesidePages'
  <2>1. clicks' \in 0..MaxClicks
    BY BoardPageAssumption DEF TouchSection, PageOK
  <2> QED
    BY <2>1 DEF TouchSection, pg, clientVars, ClientInv, PageOK, BesidePages
<1>3. UiOK(ui') /\ pager' = Clamped(pg, ui', Boards[store'.shown.at])
  BY <1>2 DEF PageOK, Snapshot
<1> QED
  BY <1>1, <1>2, <1>3, Turned

LEMMA RotatedOK ==
  ASSUME PageOK, ClientInv, NEW s \in Sections, Rotate(s)
  PROVE  PageOK'
<1> DEFINE next == (pager[s].page + 1) % Pages(s)
<1>1. /\ pager' = [pager EXCEPT ![s].page = next]
      /\ UNCHANGED <<clientVars, ui, driver, palette, picks, clicks>>
  BY DEF Rotate
<1>2. pager \in PagerType /\ Pages(s) \in Nat \ {0}
  BY RowsDrawn DEF PageOK, InRange
<1>3. next \in Nat /\ next < Pages(s)
  BY <1>2 DEF PagerType
<1> HIDE DEF next
<1>4. pager' \in PagerType /\ pager'[s].page = next
      /\ \A t \in Sections : pager'[t].per = pager[t].per /\ (t # s => pager'[t] = pager[t])
  BY <1>1, <1>2, <1>3 DEF PagerType
<1>5. \A t \in Sections :
        pager'[t].page < PageCount(Cardinality(Kept(Snapshot[t], ui)), pager'[t].per)
  BY <1>3, <1>4 DEF PageOK, InRange, Pages, RowCount
<1>6. InRange(pager', ui', Boards[store'.shown.at])
  BY <1>1, <1>4, <1>5 DEF InRange, Snapshot, clientVars
<1> QED
  BY <1>1, <1>6 DEF PageOK, Snapshot

LEMMA KioskOK ==
  ASSUME PageOK, ClientInv, ClientInv', KioskStep
  PROVE  PageOK'
<1> DEFINE inUse == {f \in Elements(FloorNumbers) : BusyByFloor(f) > 0}
           busy == InOrder(inUse, <)
           cycle == <<0>> \o (IF busy = <<>> THEN FloorNumbers ELSE busy)
<1>1. /\ driver' = (driver + 1) % Len(cycle)
      /\ ui' = OnFloor(ui, cycle[driver' + 1])
      /\ pager' = Clamped(pager, ui', Snapshot)
      /\ UNCHANGED <<clientVars, palette, picks, clicks>>
  BY DEF KioskStep
<1>2. Lists(FloorNumbers, Floors) /\ Floors \in SUBSET Nat /\ inUse \in SUBSET Floors
  BY FloorsListed DEF Lists
<1>3. IsFiniteSet(inUse)
  BY <1>2, FloorsListed, FS_Subset
<1> HIDE DEF inUse
<1>4. Lists(busy, inUse)
  BY <1>2, <1>3, NumbersInOrder
<1> HIDE DEF busy
<1>5. FloorNumbers \in Seq({0} \cup Floors) /\ busy \in Seq({0} \cup Floors)
  <2>1. ASSUME NEW s, NEW S \in SUBSET Floors, Lists(s, S) PROVE s \in Seq({0} \cup Floors)
    <3>1. Cardinality(S) \in Nat /\ s \in [1..Cardinality(S) -> {0} \cup Floors]
      BY <2>1 DEF Lists
    <3> QED
      BY <3>1, SeqDef
  <2> QED
    BY <1>2, <1>4, <2>1
<1>6. cycle \in Seq({0} \cup Floors) /\ Len(cycle) \in Nat \ {0}
  <2>1. <<0>> \in Seq({0} \cup Floors) /\ Len(<<0>>) = 1
    OBVIOUS
  <2> QED
    BY <1>5, <2>1, ConcatProperties, LenProperties
<1> HIDE DEF cycle
<1>7. driver' \in 0..Len(cycle) - 1
  BY <1>1, <1>6 DEF PageOK
<1>8. cycle[driver' + 1] \in {0} \cup Floors
  <2>1. \A n \in Nat : \A d \in 0..n - 1 : d + 1 \in 1..n
    OBVIOUS
  <2>2. driver' + 1 \in 1..Len(cycle)
    BY <1>6, <1>7, <2>1
  <2> QED
    BY <1>6, <2>2, ElementOfSeq
<1>9. UiOK(ui')
  BY <1>1, <1>8, UiChanges DEF PageOK
<1>10. BesidePages'
  BY <1>1, <1>6, <1>7 DEF PageOK, BesidePages
<1>11. pager \in PagerType /\ pager' = Clamped(pager, ui', Boards[store'.shown.at])
  BY <1>1 DEF PageOK, InRange, Snapshot, clientVars
<1> QED
  BY <1>9, <1>10, <1>11, Turned

LEMMA BoardOK ==
  ASSUME PageOK, ClientInv, ClientInv', BoardNext
  PROVE  PageOK'
<1>1. UiOK(ui) /\ pager \in PagerType /\ store.shown.at \in DOMAIN Boards
  BY SnapshotKnown DEF PageOK, InRange, ClientInv
<1>2. ASSUME NEW f \in {0} \cup Elements(FloorNumbers), PickFloor(f) PROVE PageOK'
  <2>1. f \in {0} \cup Floors
    BY FloorsListed DEF Lists
  <2> QED
    BY <1>1, <1>2, <2>1, UiChanges, Clicked DEF PickFloor
<1>3. ASSUME NEW d \in {0, 9} \cup Elements(FloorNumbers), PressDigit(d) PROVE PageOK'
  <2>1. d \in Nat
    BY FloorsListed DEF Lists
  <2> QED
    BY <1>1, <1>3, <2>1, UiChanges, Clicked DEF PressDigit
<1>4. ASSUME NEW c \in DOMAIN Map, ClickRoom(c) PROVE PageOK'
  <2> DEFINE at == [ui EXCEPT !.selected = c]
             u == IF ui.focused = 0 THEN OnFloor(at, Map[c].floor) ELSE at
  <2>1. Map[c].floor \in {0} \cup Floors
    BY DEF Floors
  <2>2. UiOK(at)
    BY <1>1, UiChanges
  <2>3. Click(u)
    BY <1>4 DEF ClickRoom
  <2> HIDE DEF at
  <2>4. UiOK(u)
    BY <2>1, <2>2, UiChanges
  <2> HIDE DEF u
  <2> QED
    BY <2>3, <2>4, Clicked
<1>5. CASE Unselect \/ ClearHighlight
  BY <1>1, <1>5, UiChanges, NothingTells, Clicked DEF Unselect, ClearHighlight
<1>6. ASSUME NEW s \in Sections, NEW row \in VisibleRows(s), ClickRow(row) PROVE PageOK'
  <2>1. row \in Listed(Snapshot)
    BY <1>6, RowsDrawn
  <2>2. row.session.room \in DOMAIN Map
    BY <1>1, <2>1, RowsKnown DEF Snapshot
  <2>3. UiOK([ui EXCEPT !.selected = row.session.room])
    BY <1>1, <2>2, UiChanges
  <2> QED
    BY <1>6, <2>3, Clicked DEF ClickRow
<1>7. CASE ShowOnMap
  <2>1. ui.selected \in DOMAIN Map
    BY <1>1, <1>7 DEF ShowOnMap, UiOK
  <2>2. UiOK(OnFloor(ui, Map[ui.selected].floor))
    <3>1. Map[ui.selected].floor \in {0} \cup Floors
      BY <2>1 DEF Floors
    <3> QED
      BY <1>1, <3>1, UiChanges
  <2> QED
    BY <1>7, <2>2, Clicked DEF ShowOnMap
<1>8. ASSUME NEW phase, ToggleLegend(phase) PROVE PageOK'
  <2> DEFINE rooms == {c \in DOMAIN Snapshot.phase : Snapshot.phase[c] = phase}
             rows == {row \in Listed(Snapshot) : phase # "free" /\ row.session.room \in rooms}
             lit == [kind |-> "phase", id |-> phase, rooms |-> rooms,
                     sessions |-> {row.session.id : row \in rows}, asOf |-> store.shown.at]
             h == IF ui.highlight.kind = "phase" /\ ui.highlight.id = phase THEN NoHighlight ELSE lit
  <2>1. Tells(lit)
    BY LegendTells
  <2>2. Click([ui EXCEPT !.highlight = h])
    BY <1>8 DEF ToggleLegend
  <2> HIDE DEF lit
  <2>3. Tells(h)
    BY <2>1, NothingTells
  <2> HIDE DEF h
  <2>4. UiOK([ui EXCEPT !.highlight = h])
    BY <1>1, <2>3, UiChanges
  <2> QED
    BY <2>2, <2>4, Clicked
<1>9. ASSUME NEW s \in Sections, Hover(s) PROVE PageOK'
  <2>1. [pager[s] EXCEPT !.hover = ~@] \in [page : Nat, per : {1} \cup PerPages, hover : BOOLEAN]
    BY <1>1 DEF PagerType
  <2> QED
    BY <1>9, <2>1, TouchedOK DEF Hover
<1>10. ASSUME NEW s \in Sections, NEW p \in 0..Pages(s) - 1, PickDot(s, p) PROVE PageOK'
  <2>1. p \in Nat
    BY RowsDrawn
  <2>2. [pager[s] EXCEPT !.page = p] \in [page : Nat, per : {1} \cup PerPages, hover : BOOLEAN]
    BY <1>1, <2>1 DEF PagerType
  <2> QED
    BY <1>10, <2>2, TouchedOK DEF PickDot
<1>11. ASSUME NEW s \in Sections, NEW per \in PerPages, Resize(s, per) PROVE PageOK'
  <2>1. [pager[s] EXCEPT !.per = per] \in [page : Nat, per : {1} \cup PerPages, hover : BOOLEAN]
    BY <1>1 DEF PagerType
  <2> QED
    BY <1>11, <2>1, TouchedOK DEF Resize
<1>12. CASE ToggleKiosk
  <2> DEFINE u == [ui EXCEPT !.kiosk = ~@, !.searchOpen = FALSE]
  <2>1. UiOK(u)
    BY <1>1 DEF UiOK
  <2> QED
    BY <1>12, <2>1, PageOpened DEF ToggleKiosk
<1>13. CASE Reload
  <2>1. UiOK(FreshUi(ui.kiosk))
    <3>1. ui.kiosk \in BOOLEAN
      BY <1>1 DEF UiOK
    <3> QED
      BY <3>1, NothingTells DEF UiOK, FreshUi
  <2> QED
    BY <1>13, <2>1, PageOpened DEF Reload
<1> QED
  BY <1>2, <1>3, <1>4, <1>5, <1>6, <1>7, <1>8, <1>9, <1>10, <1>11, <1>12, <1>13,
     RotatedOK, KioskOK, EscapeOK, DeliveredOK
  DEF BoardNext

\* A pick that landed or failed is taken off the list.
LEMMA PickTaken ==
  ASSUME PageOK, ClientInv, NEW i \in DOMAIN picks, NEW sessions, NEW asOf,
         Tells(Highlighted(picks[i].of.kind, picks[i].of.id, sessions, asOf)),
         Chosen(i, sessions, asOf)
  PROVE  PageOK'
<1> DEFINE h == Highlighted(picks[i].of.kind, picks[i].of.id, sessions, asOf)
<1>1. /\ picks' = RemoveAt(picks, i) /\ ui' = WithChosen(ui, h)
      /\ pager' = Clamped(pager, ui', Snapshot)
      /\ UNCHANGED <<clientVars, driver, palette, clicks>>
  BY DEF Chosen
<1>2. picks \in Seq(Pick) /\ picks[i] \in Pick
  BY LenProperties, ElementOfSeq DEF PageOK
<1>3. picks' \in Seq(Pick)
  BY <1>1, <1>2, RequestRemoved
<1>4. h.kind = "room" => h.id \in DOMAIN Map
  BY <1>2, BoardPageAssumption DEF Pick, Highlighted
<1> HIDE DEF h
<1>5. UiOK(ui')
  BY <1>1, <1>4, ChosenOK DEF PageOK, h
<1>6. /\ ClientInv' /\ BesidePages' /\ pager \in PagerType
      /\ pager' = Clamped(pager, ui', Boards[store'.shown.at])
  BY <1>1, <1>3 DEF clientVars, ClientInv, PageOK, BesidePages, InRange, Snapshot
<1> QED
  BY <1>5, <1>6, Turned

LEMMA EntryChosen ==
  ASSUME PageOK, ClientInv, NEW entry \in palette.result, Choose(entry)
  PROVE  PageOK'
<1> DEFINE h == Highlighted("course", entry.id, KnownSessions("course", entry.id, Snapshot),
                            store.shown.at)
           closed == [ui EXCEPT !.searchOpen = FALSE]
           course == entry.kind = "course"
           pick == [of |-> entry, seen |-> store.shown.at, served |-> 0]
<1>1. /\ palette' = Queried(palette, "")
      /\ ui' = IF course THEN WithChosen(closed, h) ELSE closed
      /\ picks' = IF course THEN picks ELSE Append(picks, pick)
      /\ pager' = Clamped(pager, ui', Snapshot)
      /\ UNCHANGED <<clientVars, driver, clicks>>
  BY DEF Choose
<1>2. store.shown.at \in DOMAIN Boards /\ UiOK(closed) /\ pager \in PagerType
  BY SnapshotKnown, UiChanges DEF PageOK, InRange, ClientInv
<1>3. Tells(h) /\ h.kind # "room"
  BY <1>2, KnownTells DEF Snapshot, Highlighted
<1>4. entry \in UNION {Answers[q] : q \in DOMAIN Answers}
  BY DEF PageOK
<1>5. pick \in Pick
  BY <1>2, <1>4, ClientAssumption DEF Pick
<1> HIDE DEF h, closed, pick
<1>6. UiOK(ui')
  BY <1>1, <1>2, <1>3, ChosenOK
<1>7. picks' \in Seq(Pick)
  BY <1>1, <1>5, AppendProperties DEF PageOK
<1>8. BesidePages'
  <2>1. palette'.result = {} \/ palette'.result = palette.result
    BY <1>1 DEF Queried
  <2> QED
    BY <1>1, <1>7, <2>1 DEF PageOK, BesidePages
<1>9. ClientInv' /\ pager' = Clamped(pager, ui', Boards[store'.shown.at])
  BY <1>1 DEF clientVars, ClientInv, Snapshot
<1> QED
  BY <1>2, <1>6, <1>8, <1>9, Turned

LEMMA SearchOK ==
  ASSUME PageOK, SearchInv, ClientInv, ClientInv', SearchNext
  PROVE  PageOK'
<1>1. UiOK(ui) /\ pager \in PagerType /\ InRange(pager, ui, Snapshot)
  BY DEF PageOK, InRange
\* Neither the filters nor the rows change.
<1>2. ASSUME store' = store, UNCHANGED pager, BesidePages',
             \/ ui' = ui \/ \E b \in BOOLEAN : ui' = [ui EXCEPT !.searchOpen = b]
      PROVE  PageOK'
  <2>1. UiOK(ui')
    BY <1>1, <1>2, UiChanges
  <2>2. ui'.floors = ui.floors /\ ui'.highlight = ui.highlight
    BY <1>1, <1>2 DEF UiOK
  <2>3. \A rows : Kept(rows, ui') = Kept(rows, ui)
    BY <2>2 DEF Kept, Passes
  <2>4. InRange(pager', ui', Snapshot')
    BY <1>1, <1>2, <2>3 DEF InRange, Snapshot
  <2> QED
    BY <1>2, <2>1, <2>4 DEF PageOK, BesidePages
<1>3. BesidePages
  BY DEF PageOK, BesidePages
<1>4. CASE OpenSearch
  BY <1>2, <1>3, <1>4 DEF OpenSearch, clientVars, BesidePages
<1>5. \A q : Queried(palette, q).result \in {palette.result, {}}
  BY DEF Queried, SearchInv, PaletteTyped
<1>6. CASE CloseSearch
  <2>1. BesidePages'
    BY <1>3, <1>5, <1>6 DEF CloseSearch, BesidePages
  <2> QED
    BY <1>2, <1>6, <2>1 DEF CloseSearch, clientVars
<1>7. ASSUME NEW q \in DOMAIN Answers, TypeQuery(q) PROVE PageOK'
  <2>1. palette'.result \in {palette.result, {}}
    BY <1>5, <1>7 DEF TypeQuery
  <2>2. BesidePages'
    BY <1>3, <1>7, <2>1, BoardPageAssumption DEF TypeQuery, BesidePages
  <2> QED
    BY <1>2, <1>7, <2>2 DEF TypeQuery, clientVars
<1>8. CASE SearchAsked
  <2>1. palette'.result = palette.result
    BY <1>8 DEF SearchAsked, SearchInv, PaletteTyped
  <2> QED
    BY <1>2, <1>3, <1>8, <2>1 DEF SearchAsked, clientVars, BesidePages
<1>9. ASSUME NEW i \in DOMAIN palette.asked, SearchAnswered(i) \/ SearchFails(i) PROVE PageOK'
  <2>1. palette'.result = palette.result
        \/ (~palette.asked[i].aborted /\ palette'.result = Answers[palette.asked[i].q])
    BY <1>9 DEF SearchAnswered, SearchFails, SearchInv, PaletteTyped
  <2>2. ~palette.asked[i].aborted => palette.asked[i].q \in DOMAIN Answers
    BY DEF SearchInv, PaletteTyped, WaitedForIsTyped, Queries
  <2>3. BesidePages'
    BY <1>3, <1>9, <2>1, <2>2 DEF SearchAnswered, SearchFails, BesidePages
  <2> QED
    BY <1>2, <1>9, <2>3 DEF SearchAnswered, SearchFails, clientVars
<1>10. ASSUME NEW i \in DOMAIN picks, DayServed(i) PROVE PageOK'
  <2>1. picks \in Seq(Pick) /\ picks[i] \in Pick /\ version \in 0..MaxVersion
    BY LenProperties, ElementOfSeq DEF PageOK, ClientInv
  <2>2. picks' = [picks EXCEPT ![i].served = version]
    BY <1>10 DEF DayServed
  <2>3. [picks[i] EXCEPT !.served = version] \in Pick
    BY <2>1 DEF Pick
  <2>4. picks' \in Seq(Pick)
    <3>1. /\ DOMAIN picks = 1..Len(picks) /\ Len(picks) \in Nat
          /\ picks \in [1..Len(picks) -> Pick]
      BY <2>1, LenProperties
    <3>2. picks' \in [1..Len(picks) -> Pick]
      BY <2>2, <2>3, <3>1
    <3> QED
      BY <3>1, <3>2, SeqDef
  <2> QED
    BY <1>2, <1>3, <1>10, <2>4 DEF DayServed, clientVars, BesidePages
<1>11. ASSUME NEW i \in DOMAIN picks, DayLands(i) \/ DayFails(i) PROVE PageOK'
  <2>1. picks[i] \in Pick
    BY LenProperties, ElementOfSeq DEF PageOK
  <2>2. picks[i].of.kind = "room" => picks[i].of.id \in DOMAIN Map
    BY <2>1, BoardPageAssumption DEF Pick
  <2>3. CASE DayLands(i)
    <3>1. picks[i].served \in DOMAIN Days
      BY <2>1, <2>3, BoardPageAssumption, ClientAssumption DEF DayLands, Pick
    <3> QED
      BY <2>2, <2>3, <3>1, DayTells, PickTaken DEF DayLands
  <2>4. CASE DayFails(i)
    <3>1. picks[i].seen \in DOMAIN Boards
      BY <2>1 DEF Pick
    <3> QED
      BY <2>2, <2>4, <3>1, KnownTells, PickTaken DEF DayFails
  <2> QED
    BY <1>11, <2>3, <2>4
<1> QED
  BY <1>4, <1>6, <1>7, <1>8, <1>9, <1>10, <1>11, EntryChosen, EscapeOK, DeliveredOK DEF SearchNext

\* The panels change no more of the page than whether the timetable is open.
LEMMA PanelsBeside ==
  ASSUME PageOK, FirstPages, ClientInv', AdminNext
  PROVE  PageOK' /\ FirstPages'
<1>1. UiOK(ui) /\ \A b \in BOOLEAN : UiOK([ui EXCEPT !.scheduleOpen = b])
  BY UiChanges DEF PageOK
<1>2. ASSUME UNCHANGED pageVars PROVE PageOK' /\ FirstPages'
  BY <1>1, <1>2, FirstStay DEF pageVars
<1>3. ASSUME NEW x, KeyArrives(x) \/ Remount PROVE PageOK' /\ FirstPages'
  BY <1>2, <1>3 DEF KeyArrives, Remount
<1>4. CASE OrdersNext
  <2>1. ASSUME NEW kind, NEW of, Order(kind, of) PROVE PageOK' /\ FirstPages'
    BY <1>2, <2>1 DEF Order
  <2>2. CASE PlaceOrder \/ UndoOrder \/ Announce
    BY <2>1, <2>2 DEF PlaceOrder, UndoOrder, Announce
  <2>3. ASSUME NEW o, OrderServed(o) \/ OrderAnswered(o) \/ OrderLost(o)
        PROVE  PageOK' /\ FirstPages'
    BY <1>2, <2>3 DEF OrderServed, OrderAnswered, OrderLost
  <2> QED
    BY <1>4, <2>2, <2>3 DEF OrdersNext
<1>5. CASE TimetableNext
  <2>1. ASSUME NEW u, NEW g, Shows(u, g), UiOK(u) PROVE PageOK' /\ FirstPages'
    BY <2>1, FirstStay DEF Shows
  <2>2. ASSUME NEW x, \/ OpenSchedule \/ CloseSchedule \/ CancelForm \/ PickRoom(x) \/ PressAdd(x)
        PROVE  PageOK' /\ FirstPages'
    BY <1>1, <2>1, <2>2 DEF OpenSchedule, CloseSchedule, CancelForm, PickRoom, PressAdd
  <2>3. ASSUME NEW r, FetchServed(r) \/ FetchLands(r) \/ FetchFails(r)
        PROVE  PageOK' /\ FirstPages'
    BY <1>2, <2>3 DEF FetchServed, FetchLands, FetchFails
  <2>4. ASSUME NEW kind, NEW lesson, Change(kind, lesson) PROVE PageOK' /\ FirstPages'
    BY <1>2, <2>4 DEF Change
  <2>5. CASE SaveLesson \/ RemoveLesson
    BY <2>4, <2>5 DEF SaveLesson, RemoveLesson
  <2>6. ASSUME NEW c, ChangeServed(c) \/ ChangeAnswered(c) \/ ChangeFails(c) \/ ChangeLost(c)
        PROVE  PageOK' /\ FirstPages'
    BY <1>2, <2>6 DEF ChangeServed, ChangeAnswered, ChangeFails, ChangeLost
  <2> QED
    BY <1>5, <2>2, <2>3, <2>5, <2>6 DEF TimetableNext
<1> QED
  BY <1>3, <1>4, <1>5 DEF AdminNext

LEMMA PageInvStep ==
  ASSUME PageInv, SearchInv, ClientInv, ClientInv', [WebNext]_webVars
  PROVE  PageInv'
<1>1. PageOK /\ scene \in Scenes /\ scene' = scene
      /\ (scene \notin {"board", "search"} => FirstPages)
  BY DEF PageInv, WebNext, StreamScene, BoardScene, webVars
<1>2. UiOK(ui) /\ \A b \in BOOLEAN : UiOK([ui EXCEPT !.adminOpen = b])
  <2>1. UiOK(ui)
    BY <1>1 DEF PageOK
  <2> QED
    BY <2>1, UiChanges
<1>3. CASE UNCHANGED webVars
  BY <1>3 DEF webVars, clientVars, pageVars, PageInv, PageOK, FirstPages, Snapshot
<1>4. CASE scene = "stream" /\ UNCHANGED pageVars
  BY <1>1, <1>2, <1>4, FirstStay DEF pageVars, PageInv
<1>5. CASE scene = "board" /\ BoardNext
  BY <1>1, <1>5, BoardOK DEF PageInv
<1>6. CASE scene = "search" /\ SearchNext
  BY <1>1, <1>6, SearchOK DEF PageInv
<1>7. CASE scene = "panels" /\ ToggleAdmin
  <2>1. UiOK([ui EXCEPT !.adminOpen = ~@])
    BY <1>2 DEF UiOK
  <2> QED
    BY <1>1, <1>7, <2>1, Clicked DEF ToggleAdmin, PageInv
<1>8. CASE scene = "panels" /\ AdminNext
  BY <1>1, <1>8, PanelsBeside DEF PageInv
<1> QED
  BY <1>3, <1>4, <1>5, <1>6, <1>7, <1>8 DEF WebNext, StreamScene, BoardScene, EscapeToLive

LEMMA PageInvInit == WebInit => PageInv
<1> SUFFICES ASSUME WebInit PROVE PageInv
  OBVIOUS
<1>1. UiOK(ui)
  <2>1. PICK k \in BOOLEAN, a \in BOOLEAN : ui = [FreshUi(k) EXCEPT !.adminOpen = a]
    BY DEF WebInit, BoardInit
  <2> QED
    BY <2>1, NothingTells DEF UiOK, FreshUi
<1>2. pager = FreshPager /\ driver = -1 /\ palette.result = {} /\ picks = <<>> /\ clicks = 0
      /\ scene \in Scenes
  <2>1. pager = FreshPager /\ driver = -1 /\ palette = FreshPalette /\ picks = <<>> /\ clicks = 0
    BY DEF WebInit, BoardInit
  <2>2. scene \in Scenes
    BY DEF WebInit
  <2> QED
    BY <2>1, <2>2 DEF FreshPalette
<1>3. store.shown.at \in DOMAIN Boards
  BY ClientInvInit, SnapshotKnown DEF ClientInv
<1>4. InRange(pager, ui, Snapshot) /\ FirstPages
  BY <1>2, <1>3, FirstInRange, FreshPages DEF Snapshot, FirstPages
<1>5. picks \in Seq(Pick) /\ clicks \in 0..MaxClicks
  BY <1>2, EmptySeq, BoardPageAssumption
<1> QED
  BY <1>1, <1>2, <1>4, <1>5 DEF PageInv, PageOK

LEMMA PageInvAlways == WebSpec => []PageInv
  BY PageInvInit, PageInvStep, SearchInvAlways, ClientInvAlways, PTL DEF WebSpec

-----------------------------------------------------------------------------
\* A room is in use when a session runs in it.
LEMMA RoomInUse ==
  ASSUME NEW S, NEW r, NEW t
  PROVE  E!RoomState(S, r, t).phase \in BusyPhases <=> \E s \in E!NowList(S, t) : s.room = r
<1> DEFINE running == E!NowList({s \in S : s.room = r}, t)
<1>1. running # {} <=> \E s \in E!NowList(S, t) : s.room = r
  BY DEF E!NowList, E!In
<1>2. CASE running # {}
  <2>1. E!RoomState(S, r, t).phase \in {"ending", "live"}
    BY <1>2 DEF E!RoomState
  <2> QED
    BY <1>1, <1>2, <2>1 DEF BusyPhases
<1>3. CASE running = {}
  <2>1. E!RoomState(S, r, t).phase \in {"soon", "free"}
    BY <1>3 DEF E!RoomState
  <2> QED
    BY <1>1, <1>3, <2>1 DEF BusyPhases
<1> QED
  BY <1>2, <1>3

LEMMA RunningPill ==
  ASSUME NEW S, NEW t, NEW row \in PhasedAt(E!NowList(S, t), t)
  PROVE  PillKind(row) \in BusyPhases
<1>1. PICK s \in S : row = E!Phased(s, t) /\ E!PhaseAt(s, t) \in {"live", "ending"}
  BY DEF PhasedAt, E!NowList, E!In
<1>2. row.phase \in {"live", "ending"} /\ row.session = s
  BY <1>1 DEF E!Phased
<1>3. s.status # "cancelled"
  BY <1>1 DEF E!PhaseAt, E!Cancelled
<1> QED
  BY <1>2, <1>3 DEF PillKind, BusyPhases

(* Board and map tell the same, for every timetable, plan and number of     *)
(* snapshots: engine.go, uiStore.ts, Board.tsx, selectors.ts and            *)
(* Legend.tsx.                                                              *)
THEOREM BoardAndMapAlwaysAgree == WebSpec => []BoardAndMapAgree
<1>1. ASSUME PageOK, ClientInv PROVE BoardAndMapAgree
  <2> DEFINE Rooms == \A c \in SchedulableRooms :
                        Snapshot # EmptyBoard =>
                            (Snapshot.phase[c] \in BusyPhases
                                <=> \E row \in Elements(Snapshot.now) : row.session.room = c)
             Pills == \A row \in Elements(Snapshot.now) : PillKind(row) \in BusyPhases
             Lit == ui.highlight # NoHighlight /\ ui.highlight.asOf = store.shown.at =>
                        \A s \in Sections : \A row \in Elements(RowsOf(s)) :
                            \/ DimState(row.session.room) = "hit"
                            \/ row.session.status = "cancelled"
                            \/ ui.highlight.kind = "room" /\ row.session.from = ui.highlight.id
  <2> DEFINE at == store.shown.at
             S == Days[at].sessions
             t == Days[at].at
  <2>1. at \in DOMAIN Boards
    BY <1>1, SnapshotKnown DEF ClientInv
  <2>2. ASSUME at \in DOMAIN Days PROVE Rooms /\ Pills
    <3>1. /\ Elements(Snapshot.now) = PhasedAt(E!NowList(S, t), t)
          /\ \A c \in SchedulableRooms : Snapshot.phase[c] = E!RoomState(S, c, t).phase
      BY <2>2, DayBoard DEF Lists, Snapshot
    <3>2. ASSUME NEW c \in SchedulableRooms
          PROVE  Snapshot.phase[c] \in BusyPhases
                    <=> \E row \in Elements(Snapshot.now) : row.session.room = c
      <4>1. Snapshot.phase[c] \in BusyPhases <=> \E s \in E!NowList(S, t) : s.room = c
        BY <3>1, RoomInUse
      <4>2. (\E row \in PhasedAt(E!NowList(S, t), t) : row.session.room = c)
              <=> \E s \in E!NowList(S, t) : s.room = c
        <5> DEFINE running == E!NowList(S, t)
        <5> HIDE DEF running
        <5>1. \A s \in running : E!Phased(s, t).session = s
          BY DEF E!Phased
        <5>2. (\E row \in PhasedAt(running, t) : row.session.room = c)
                <=> \E s \in running : s.room = c
          BY <5>1 DEF PhasedAt
        <5> QED
          BY <5>2 DEF running
      <4> QED
        BY <3>1, <4>1, <4>2
    <3>3. \A row \in Elements(Snapshot.now) : PillKind(row) \in BusyPhases
      BY <3>1, RunningPill
    <3> QED
      BY <3>2, <3>3
  <2>3. ASSUME at \notin DOMAIN Days PROVE Rooms /\ Pills
    <3>1. Snapshot = EmptyBoard
      BY <2>1, <2>3 DEF Boards, Snapshot
    <3>2. Elements(Snapshot.now) = {}
      BY <3>1 DEF EmptyBoard, Elements
    <3> QED
      BY <3>1, <3>2
  <2>4. Lit
    <3> SUFFICES ASSUME ui.highlight # NoHighlight, ui.highlight.asOf = at,
                        NEW s \in Sections, NEW row \in Elements(RowsOf(s))
                 PROVE  \/ DimState(row.session.room) = "hit"
                        \/ row.session.status = "cancelled"
                        \/ ui.highlight.kind = "room" /\ row.session.from = ui.highlight.id
      OBVIOUS
    <3>1. row \in Listed(Boards[at]) /\ row.session.id \in ui.highlight.sessions
      BY <1>1, RowsDrawn DEF Snapshot, Passes
    <3>2. Tells(ui.highlight)
      BY <1>1 DEF PageOK, UiOK
    <3> QED
      BY <3>1, <3>2 DEF Tells, DimState
  <2> QED
    BY <2>2, <2>3, <2>4 DEF BoardAndMapAgree
<1> QED
  BY <1>1, PageInvAlways, ClientInvAlways, PTL DEF PageInv

(* The page has its types: every page of the board is in range, and what is *)
(* lit, listed, under way and offered is there.                             *)
THEOREM PageIsTyped == WebSpec => []WebTypeOK
<1>1. ASSUME PageInv, ClientInv PROVE BoardPageTypeOK
  <2>1. PageOK
    BY <1>1 DEF PageInv
  <2>2. /\ ui.focused \in Nat /\ ui.floors \subseteq Elements(FloorNumbers)
        /\ ui.selected \in {""} \cup DOMAIN Map
    BY <2>1, FloorsListed DEF PageOK, UiOK, Lists
  <2>3. ui.highlight.rooms \subseteq DOMAIN Map
    BY <2>1 DEF PageOK, UiOK, Tells
  <2>4. ASSUME NEW s \in Sections
        PROVE  pager[s].page \in 0..Pages(s) - 1 /\ pager[s].per \in {1} \cup PerPages
    <3>1. Pages(s) \in Nat \ {0}
      BY <1>1, <2>1, RowsDrawn
    <3>2. pager[s].page \in Nat /\ pager[s].page < Pages(s) /\ pager[s].per \in {1} \cup PerPages
      BY <2>1 DEF PageOK, InRange, PagerType, Pages, RowCount
    <3> QED
      BY <3>1, <3>2
  <2> QED
    BY <2>1, <2>2, <2>3, <2>4 DEF BoardPageTypeOK, PageOK
<1>2. PageInv => scene \in Scenes
  BY DEF PageInv
<1>3. AdminInv => AdminTypeOK
  BY DEF AdminInv
<1> QED
  BY <1>1, <1>2, <1>3, ClientTyped, PageInvAlways, ClientInvAlways, AdminInvAlways, PTL DEF WebTypeOK
=============================================================================

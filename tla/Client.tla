------------------------------- MODULE Client -------------------------------
(***************************************************************************)
(* The data of a web page (apps/web): the board store (boardStore.ts), the *)
(* event stream that feeds it (RealtimeClient.ts, useRealtime.ts) and the  *)
(* travelling in time (useTimeTravel.ts).  Of the server (board.go,        *)
(* scheduler.go, broker.go; modules Board and Broker) there is one step    *)
(* per effect: it publishes the next snapshot, replays the current one to  *)
(* whoever connects, and answers a request with what it has when serving.  *)
(* Left out: the clock of the page, which only words and bars depend on.   *)
(***************************************************************************)
EXTENDS Integers, Sequences, FiniteSets, SequencesExt

CONSTANTS
    MaxVersion, \* bound: snapshots the server publishes
    MaxDrops,   \* bound: times the connection is lost
    MaxTravels, \* bound: times a moment is picked on the bar
    Moments,    \* the moments that can be travelled to, as the bar rounds them
    Notes       \* announcement -> [from, until] : the versions that carry it

ASSUME ClientAssumption ==
    /\ MaxVersion \in Nat \ {0} /\ MaxDrops \in Nat /\ MaxTravels \in Nat
    /\ 0 \notin Moments
    /\ IsFiniteSet(DOMAIN Notes)
    /\ \A n \in DOMAIN Notes : Notes[n].from \in Nat /\ Notes[n].until \in Nat

VARIABLES
    version,    \* the server's current snapshot
    stream,     \* the EventSource: state, events under way, everOpened, dropped
    refetches,  \* answers to the refetch of a reconnect that are under way
    timer,      \* moment the bar's debounce timer is to ask for, 0 for none
    asked,      \* moment of the bar's request that is under way, 0 for none
    store,      \* the board store
    drops,      \* times the connection was lost
    travels,    \* times a moment was picked
    disturbed,  \* history: since the last pick a travel request failed, or a
                \*   refetch was taken for its answer
    overtaken   \* history: a refetch replaced a newer live snapshot, and nothing
                \*   newer has come since

clientVars == <<version, stream, refetches, timer, asked, store, drops, travels,
                disturbed, overtaken>>

Live(v) == [of |-> "live", at |-> v]
Past(m) == [of |-> "past", at |-> m]
\* emptySnapshot: before anything was received.
Nothing == Live(0)
Never == 9

InForce(n, v) == Notes[n].until > v
Carried(v) == {n \in DOMAIN Notes : Notes[n].from <= v /\ InForce(n, v)}

\* mergeAnnouncements: those known and those received that have not ended.
Merged(known, received, v) == {n \in known \cup received : InForce(n, v)}

-----------------------------------------------------------------------------
(* The board store. *)

\* createBoardStore, for a page rendered live, at a moment, or without an answer.
\* A travelled snapshot brings the announcements of its time, version 0.
StoreOpened(snapshot, travelAt, failed) ==
    LET travel == travelAt # 0 /\ ~failed
        shown == IF failed THEN Nothing ELSE snapshot
    IN  [mode       |-> IF travel THEN "travel" ELSE "live",
         shown      |-> shown,
         live       |-> IF travel THEN Nothing ELSE shown,
         travelAt   |-> IF travel THEN travelAt ELSE 0,
         loading    |-> FALSE,
         connection |-> IF failed THEN "offline" ELSE "online",
         beat       |-> Never,
         snap       |-> IF failed THEN Never ELSE 0,
         notes      |-> Carried(IF shown.of = "live" THEN shown.at ELSE 0),
         error      |-> failed]

\* Variant of SseSnapshot: while travelling it is not even remembered.
SseSnapshotIgnored(st, v) ==
    IF st.mode = "travel" THEN [st EXCEPT !.snap = 0, !.error = FALSE]
    ELSE [st EXCEPT !.shown = Live(v), !.live = Live(v), !.notes = Merged(@, Carried(v), v),
                    !.snap = 0, !.error = FALSE]

\* setSnapshot from SSE: remembered in any mode, shown in live mode.
SseSnapshot(st, v) ==
    [st EXCEPT !.shown = IF st.mode = "live" THEN Live(v) ELSE @,
               !.live = Live(v),
               !.notes = Merged(@, Carried(v), v),
               !.snap = 0,
               !.error = FALSE]

\* setSnapshot from REST: in travel mode any answer counts as the travelled
\* snapshot, in live mode as the newest one.
RestSnapshot(st, s) ==
    IF st.mode = "travel"
    THEN [st EXCEPT !.shown = s, !.loading = FALSE, !.error = FALSE]
    ELSE [st EXCEPT !.shown = s, !.live = s, !.notes = Merged(@, Carried(s.at), s.at),
                    !.snap = 0, !.error = FALSE]

Heard(st) == [st EXCEPT !.beat = 0, !.connection = "online"]

EnterTravel(st, m) == [st EXCEPT !.mode = "travel", !.travelAt = m, !.loading = TRUE]

\* Variant of ExitTravel: the travelled snapshot stays on the board.
ExitTravelShowing(st) == [st EXCEPT !.mode = "live", !.travelAt = 0, !.loading = FALSE]

ExitTravel(st) ==
    [st EXCEPT !.mode = "live", !.travelAt = 0, !.loading = FALSE, !.shown = st.live]

-----------------------------------------------------------------------------
(* The server and the network. *)

Arriving == stream.state = "open" /\ stream.queue # <<>>
Snap(v) == [kind |-> "snapshot", of |-> v]

\* The server publishes its next snapshot, and an announcement beside the
\* first snapshot that carries it.
ServerPublishes ==
    LET new == SetToSeq({n \in DOMAIN Notes : Notes[n].from = version + 1})
    IN  /\ version < MaxVersion
        /\ version' = version + 1
        /\ stream' = IF stream.state = "open"
                     THEN [stream EXCEPT !.queue = @
                             \o [i \in DOMAIN new |-> [kind |-> "announcement", of |-> new[i]]]
                             \o <<Snap(version + 1)>>]
                     ELSE stream
        /\ UNCHANGED <<refetches, timer, asked, store, drops, travels, disturbed, overtaken>>

\* onopen: after a drop the board is asked for once more; the server replays
\* its current snapshot to every new stream.
StreamOpens ==
    LET reconnect == stream.everOpened /\ stream.dropped
    IN  /\ stream.state \in {"connecting", "retrying"}
        /\ stream' = [state |-> "open", queue |-> <<Snap(version)>>,
                      everOpened |-> TRUE, dropped |-> FALSE]
        /\ store' = [store EXCEPT !.connection = "online"]
        /\ refetches' = IF reconnect THEN Append(refetches, 0) ELSE refetches
        /\ UNCHANGED <<version, timer, asked, drops, travels, disturbed, overtaken>>

\* onerror: the browser tries again by itself, or gives up for good when it is
\* answered with anything but an event stream.
StreamFails(next) ==
    /\ stream.state # "dead"
    /\ drops < MaxDrops
    /\ drops' = drops + 1
    /\ stream' = [stream EXCEPT !.state = next, !.queue = <<>>, !.dropped = TRUE]
    /\ store' = [store EXCEPT !.connection = "reconnecting"]
    /\ UNCHANGED <<version, refetches, timer, asked, travels, disturbed, overtaken>>

\* Every further failed attempt reports an error, too.
RetryFails ==
    /\ stream.state \in {"connecting", "retrying"}
    /\ stream' = [stream EXCEPT !.dropped = TRUE]
    /\ store' = [store EXCEPT !.connection = "reconnecting"]
    /\ UNCHANGED <<version, refetches, timer, asked, drops, travels, disturbed, overtaken>>

\* The connection is gone without an error: nothing comes through any more.
StreamFallsSilent ==
    /\ stream.state = "open"
    /\ drops < MaxDrops
    /\ drops' = drops + 1
    /\ stream' = [stream EXCEPT !.state = "silent", !.queue = <<>>]
    /\ UNCHANGED <<version, refetches, timer, asked, store, travels, disturbed, overtaken>>

EventArrives ==
    LET e == Head(stream.queue)
    IN  /\ Arriving
        /\ stream' = [stream EXCEPT !.queue = Tail(@)]
        /\ store' = IF e.kind = "snapshot" THEN Heard(SseSnapshot(store, e.of))
                    ELSE [store EXCEPT !.notes = @ \cup {e.of}]
        /\ overtaken' = (overtaken /\ e.kind # "snapshot")
        /\ UNCHANGED <<version, refetches, timer, asked, drops, travels, disturbed>>

HeartbeatArrives ==
    /\ stream.state = "open" /\ stream.queue = <<>>
    /\ store' = Heard(store)
    /\ UNCHANGED <<version, stream, refetches, timer, asked, drops, travels, disturbed, overtaken>>

\* The server serves a refetch with the snapshot it has: 0 is not served yet.
RefetchServed(i) ==
    /\ i \in DOMAIN refetches /\ refetches[i] = 0
    /\ refetches' = [refetches EXCEPT ![i] = version]
    /\ UNCHANGED <<version, stream, timer, asked, store, drops, travels, disturbed, overtaken>>

RefetchArrives(i) ==
    /\ i \in DOMAIN refetches /\ refetches[i] # 0
    /\ refetches' = RemoveAt(refetches, i)
    /\ store' = RestSnapshot(store, Live(refetches[i]))
    /\ disturbed' = (disturbed \/ store.mode = "travel")
    /\ overtaken' = IF store.mode = "travel" THEN overtaken
                    ELSE \/ refetches[i] < store.live.at
                         \/ overtaken /\ refetches[i] # version
    /\ UNCHANGED <<version, stream, timer, asked, drops, travels>>

RefetchFails(i) ==
    /\ i \in DOMAIN refetches
    /\ refetches' = RemoveAt(refetches, i)
    /\ UNCHANGED <<version, stream, timer, asked, store, drops, travels, disturbed, overtaken>>

-----------------------------------------------------------------------------
(* The watchdog: ages count up to 1 for more than 30 s without a sign and to *)
(* 2 for more than 120 s.                                                    *)

Older(age) == IF age \in {0, 1} THEN age + 1 ELSE age

TimePasses ==
    /\ ~Arriving
    /\ store' = [store EXCEPT !.beat = Older(@), !.snap = Older(@)]
    /\ UNCHANGED <<version, stream, refetches, timer, asked, drops, travels, disturbed, overtaken>>

LastSign == IF store.beat # Never THEN store.beat ELSE store.snap

\* Variant of Watchdog: only a connection that is online goes offline.
WatchdogOnlineOnly ==
    /\ LastSign \in {1, 2} /\ store.connection = "online"
    /\ store' = [store EXCEPT !.connection = IF LastSign = 2 THEN "offline" ELSE "reconnecting"]
    /\ UNCHANGED <<version, stream, refetches, timer, asked, drops, travels, disturbed, overtaken>>

Watchdog ==
    /\ \/ /\ LastSign = 2 /\ store.connection # "offline"
          /\ store' = [store EXCEPT !.connection = "offline"]
       \/ /\ LastSign = 1 /\ store.connection = "online"
          /\ store' = [store EXCEPT !.connection = "reconnecting"]
    /\ UNCHANGED <<version, stream, refetches, timer, asked, drops, travels, disturbed, overtaken>>

-----------------------------------------------------------------------------
(* Travelling. *)

\* travelTo: the store changes at once, the request waits for the timer.
TravelTo(m) ==
    /\ travels < MaxTravels
    /\ travels' = travels + 1
    /\ store' = EnterTravel(store, m)
    /\ timer' = m
    /\ disturbed' = FALSE
    /\ UNCHANGED <<version, stream, refetches, asked, drops, overtaken>>

\* The debounce timer fires; the request before is aborted, which its sender
\* ignores.
TravelRequested ==
    /\ timer # 0
    /\ asked' = timer
    /\ timer' = 0
    /\ UNCHANGED <<version, stream, refetches, store, drops, travels, disturbed, overtaken>>

\* The answer is taken when its moment is still the one asked for.
TravelAnswered ==
    /\ asked # 0
    /\ asked' = 0
    /\ store' = IF store.travelAt = asked THEN RestSnapshot(store, Past(asked)) ELSE store
    /\ UNCHANGED <<version, stream, refetches, timer, drops, travels, disturbed, overtaken>>

TravelFails ==
    /\ asked # 0
    /\ asked' = 0
    /\ store' = [store EXCEPT !.loading = FALSE, !.error = TRUE]
    /\ disturbed' = TRUE
    /\ UNCHANGED <<version, stream, refetches, timer, drops, travels, overtaken>>

\* goLive of the bar drops its timer and its request ...
GoLive ==
    /\ timer' = 0 /\ asked' = 0
    /\ store' = ExitTravel(store)
    /\ UNCHANGED <<version, stream, refetches, drops, travels, disturbed, overtaken>>

\* ... goLive of the shell is another instance of the hook and has neither.
GoLiveByShell ==
    /\ store' = ExitTravel(store)
    /\ UNCHANGED <<version, stream, refetches, timer, asked, drops, travels, disturbed, overtaken>>

-----------------------------------------------------------------------------
\* The page is rendered live, at a moment of its address, or as an error.
ClientInit ==
    /\ version = 1
    /\ stream = [state |-> "connecting", queue |-> <<>>, everOpened |-> FALSE, dropped |-> FALSE]
    /\ refetches = <<>>
    /\ timer = 0 /\ asked = 0
    /\ store \in {StoreOpened(Live(1), 0, FALSE), StoreOpened(Nothing, 0, TRUE)}
                 \cup {StoreOpened(Past(m), m, FALSE) : m \in Moments}
    /\ drops = 0 /\ travels = 0
    /\ disturbed = FALSE /\ overtaken = FALSE

StreamNext ==
    \/ ServerPublishes
    \/ StreamOpens
    \/ \E next \in {"retrying", "dead"} : StreamFails(next)
    \/ RetryFails
    \/ StreamFallsSilent
    \/ EventArrives
    \/ HeartbeatArrives
    \/ \E i \in DOMAIN refetches : RefetchServed(i) \/ RefetchArrives(i) \/ RefetchFails(i)
    \/ TimePasses
    \/ Watchdog

TravelNext ==
    \/ \E m \in Moments : TravelTo(m)
    \/ TravelRequested
    \/ TravelAnswered
    \/ TravelFails
    \/ GoLive

-----------------------------------------------------------------------------
StoreTypeOK ==
    /\ store.mode \in {"live", "travel"}
    /\ store.live \in {Live(v) : v \in 0..MaxVersion}
    /\ store.shown \in {Live(v) : v \in 0..MaxVersion} \cup {Past(m) : m \in Moments}
    /\ store.travelAt \in {0} \cup Moments
    /\ store.loading \in BOOLEAN /\ store.error \in BOOLEAN
    /\ store.connection \in {"online", "reconnecting", "offline"}
    /\ {store.beat, store.snap} \subseteq {0, 1, 2, Never}
    /\ store.notes \subseteq DOMAIN Notes

ClientTypeOK ==
    /\ version \in 1..MaxVersion
    /\ stream.state \in {"connecting", "open", "silent", "retrying", "dead"}
    /\ \A i \in DOMAIN refetches : refetches[i] \in 0..version
    /\ {timer, asked} \subseteq {0} \cup Moments
    /\ drops \in 0..MaxDrops /\ travels \in 0..MaxTravels
    /\ StoreTypeOK

(* The board shows what it says.  LIVE is always the last live snapshot,    *)
(* never a travelled one, whichever answers come in after the visitor left  *)
(* the past; and a moment that is no longer loading is the moment on the    *)
(* clock, unless its request failed or the refetch of a reconnect was taken *)
(* for its answer.                                                          *)
BoardShowsWhatItSays ==
    /\ store.live.of = "live"
    /\ store.mode = "live" => store.shown = store.live /\ store.travelAt = 0
    /\ store.mode = "travel" /\ ~store.loading /\ ~disturbed => store.shown = Past(store.travelAt)
=============================================================================

------------------------------- MODULE WebPage -------------------------------
(***************************************************************************)
(* A web page: its data (Client), its board, map and search (BoardPage)    *)
(* and its panels (AdminPanels) over the same stores.                      *)
(*                                                                         *)
(* Bound: in one behaviour the visitor uses one part of the page, and only *)
(* the machinery of that part moves; what the parts share is the page they *)
(* start from.  The two panels of the administrator are one part: both may *)
(* be open, and what is done in one is done beside the other.              *)
(***************************************************************************)
EXTENDS AdminPanels

CONSTANT Scenes   \* bound: the parts that are used: "stream", "board", "search", "panels"

ASSUME WebAssumption == Scenes \subseteq {"stream", "board", "search", "panels"}

VARIABLE scene    \* the part that is used

webVars == <<clientVars, pageVars, adminVars, scene>>

\* The hook of the shell goes live by Escape: nothing else is open.
EscapeToLive ==
    /\ store.mode = "travel" /\ ui.selected = "" /\ ui.highlight = NoHighlight /\ ui.focused = 0
    /\ GoLiveByShell
    /\ UNCHANGED pageVars

StreamScene == scene = "stream" /\ UNCHANGED <<adminVars, scene>>
BoardScene == scene = "board" /\ UNCHANGED <<adminVars, scene>>

WebInit ==
    /\ scene \in Scenes
    /\ ClientInit /\ BoardInit /\ AdminInit
    /\ ui.kiosk => scene = "board"
    /\ ui.adminOpen <=> scene = "panels"
    /\ scene \in {"search", "panels"} => store = StoreOpened(Live(1), 0, FALSE)

WebNext ==
    \/ StreamScene /\ (StreamNext \/ TravelNext) /\ UNCHANGED pageVars
    \/ StreamScene /\ EscapeToLive
    \/ BoardScene /\ BoardNext
    \/ scene = "search" /\ SearchNext /\ UNCHANGED <<adminVars, scene>>
    \/ scene = "panels" /\ ToggleAdmin /\ UNCHANGED <<adminVars, scene>>
    \/ scene = "panels" /\ AdminNext /\ UNCHANGED scene

\* The network delivers what it carries; time passes; timers run.
WebFairness ==
    /\ WF_webVars(StreamScene /\ EventArrives /\ UNCHANGED pageVars)
    /\ WF_webVars(StreamScene /\ TimePasses /\ UNCHANGED pageVars)
    /\ WF_webVars(StreamScene /\ Watchdog /\ UNCHANGED pageVars)
    /\ \A s \in Sections : WF_webVars(BoardScene /\ Rotate(s))
    /\ WF_webVars(BoardScene /\ KioskStep)

WebSpec == WebInit /\ [][WebNext]_webVars /\ WebFairness

WebTypeOK ==
    /\ scene \in Scenes
    /\ ClientTypeOK /\ BoardPageTypeOK /\ AdminTypeOK

(* When the connection stays, the page ends up with the last snapshot of    *)
(* the server and exactly the announcements in force, through drops,        *)
(* reconnects and travels; only a refetch that was overtaken by the stream  *)
(* can leave it behind.                                                     *)
LiveCatchesUp ==
    scene = "stream" /\ <>[](stream.state = "open") =>
        <>[](overtaken \/ (store.live = Live(version) /\ store.notes = Carried(version)))

(* A stream that has gone quiet is noticed, with or without an error, once  *)
(* anything was ever received.                                              *)
SilenceIsNoticed ==
    scene = "stream" /\ <>[](stream.state # "open" /\ (store.beat # Never \/ store.snap # Never))
        => []<>(store.connection = "offline")

(* Every row comes round: when the visitor leaves the board alone, a session *)
(* that stays in its section is shown again and again, however snapshots,    *)
(* floors, highlights and sizes changed the pages before; and the kiosk      *)
(* comes back to every floor that stays in use.                              *)
EveryRowComesRound ==
    /\ \A s \in Sections, k \in UNION {{x.id : x \in Days[d].sessions} : d \in DOMAIN Days} :
        <>[](/\ scene = "board" /\ ~ui.kiosk /\ ~Paused(s)
             /\ \E row \in Elements(Snapshot[s]) : Passes(row, ui) /\ row.session.id = k)
            => []<>(scene = "board" /\ \E row \in VisibleRows(s) : row.session.id = k)
    /\ \A f \in Elements(FloorNumbers) :
        <>[](scene = "board" /\ ui.kiosk /\ BusyByFloor(f) > 0) => []<>(ui.focused = f)
=============================================================================

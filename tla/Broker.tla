------------------------------- MODULE Broker -------------------------------
(***************************************************************************)
(* The hub of one building (internal/realtime/broker.go): publishers,      *)
(* subscribers with a bounded queue each, and the goroutine that streams a *)
(* queue to one connection.  Publish and Subscribe hold h.mu, so each is   *)
(* one step; a streaming goroutine takes one step per select and per write.*)
(***************************************************************************)
EXTENDS Naturals, Sequences, FiniteSets

CONSTANTS
  Clients,       \* connections; a browser that reconnects is a new one
  Names,         \* event names that are published
  ClientBuffer,  \* capacity of a client's channel
  None,          \* no snapshot published yet
  MaxEvents      \* bound on the number of published events

ASSUME BrokerAssumption ==
  /\ ClientBuffer \in Nat \ {0}     \* New replaces a capacity <= 0 by 16
  /\ MaxEvents \in Nat

\* nil is no event.
ASSUME NoneAssumption == None \notin [name : Names, n : Nat \ {0}]

VARIABLES
  log,        \* history: every event published
  last,       \* h.last
  clients,    \* h.clients
  queue,      \* c.ch
  closes,     \* how often c.done was closed
  pc,         \* where the goroutine in ServeSSE stands
  hand,       \* the event it is writing
  sent,       \* history: events written to the connection, heartbeats aside
  joined,     \* history: Len(log) at Subscribe
  left,       \* history: Len(log) when the client was removed
  replay      \* history: what Subscribe queued, <<>> or <<event>>

vars == <<log, last, clients, queue, closes, pc, hand, sent, joined, left, replay>>

Event     == [name : Names, n : Nat \ {0}]
Heartbeat == [name |-> "heartbeat", n |-> 0]
ToEvent(name) == [name |-> name, n |-> Len(log) + 1]

Init ==
  /\ log = <<>>
  /\ last = None
  /\ clients = {}
  /\ queue = [c \in Clients |-> <<>>]
  /\ closes = [c \in Clients |-> 0]
  /\ pc = [c \in Clients |-> "connecting"]
  /\ hand = [c \in Clients |-> Heartbeat]
  /\ sent = [c \in Clients |-> <<>>]
  /\ joined = [c \in Clients |-> 0]
  /\ left = [c \in Clients |-> 0]
  /\ replay = [c \in Clients |-> <<>>]
-----------------------------------------------------------------------------
(***************************************************************************)
(* Publish: remember a snapshot, offer the event to every client without   *)
(* blocking, drop the clients whose channel is full.                       *)
(***************************************************************************)
Slow == {c \in clients : Len(queue[c]) = ClientBuffer}

\* Variant of Publish: an event that does not fit is skipped, the client stays.
PublishOrSkip(name) ==
  /\ Len(log) < MaxEvents
  /\ log' = Append(log, ToEvent(name))
  /\ last' = IF name = "snapshot" THEN ToEvent(name) ELSE last
  /\ queue' = [c \in Clients |-> IF c \in clients \ Slow
                                 THEN Append(queue[c], ToEvent(name))
                                 ELSE queue[c]]
  /\ UNCHANGED <<clients, closes, pc, hand, sent, joined, left, replay>>

Publish(name) ==
  /\ Len(log) < MaxEvents
  /\ log' = Append(log, ToEvent(name))
  /\ last' = IF name = "snapshot" THEN ToEvent(name) ELSE last
  /\ queue' = [c \in Clients |-> IF c \in clients \ Slow
                                 THEN Append(queue[c], ToEvent(name))
                                 ELSE queue[c]]
  /\ clients' = clients \ Slow
  /\ closes' = [c \in Clients |-> IF c \in Slow THEN closes[c] + 1 ELSE closes[c]]
  /\ left' = [c \in Clients |-> IF c \in Slow THEN Len(log) ELSE left[c]]
  /\ UNCHANGED <<pc, hand, sent, joined, replay>>

Remembered == IF last = None THEN <<>> ELSE <<last>>

\* Variant of Subscribe: nothing is replayed.
SubscribeOnly(c) ==
  /\ pc[c] = "connecting"
  /\ clients' = clients \cup {c}
  /\ joined' = [joined EXCEPT ![c] = Len(log)]
  /\ pc' = [pc EXCEPT ![c] = "hello"]
  /\ UNCHANGED <<log, last, queue, closes, hand, sent, left, replay>>

\* Subscribe: register and queue the last snapshot, in one critical section.
Subscribe(c) ==
  /\ pc[c] = "connecting"
  /\ clients' = clients \cup {c}
  /\ queue' = [queue EXCEPT ![c] = Remembered]
  /\ joined' = [joined EXCEPT ![c] = Len(log)]
  /\ replay' = [replay EXCEPT ![c] = Remembered]
  /\ pc' = [pc EXCEPT ![c] = "hello"]
  /\ UNCHANGED <<log, last, closes, hand, sent, left>>
-----------------------------------------------------------------------------
(***************************************************************************)
(* ServeSSE.  "hello" writes the retry hint; "select" waits for the        *)
(* context, c.done, an event or the heartbeat ticker; "writing" is inside  *)
(* write().                                                                *)
(***************************************************************************)
Move(c, from, to) == pc[c] = from /\ pc' = [pc EXCEPT ![c] = to]

Hello(c) ==
  /\ Move(c, "hello", "select") \/ Move(c, "hello", "leaving")
  /\ UNCHANGED <<log, last, clients, queue, closes, hand, sent, joined, left, replay>>

ContextDone(c) ==
  /\ Move(c, "select", "leaving")
  /\ UNCHANGED <<log, last, clients, queue, closes, hand, sent, joined, left, replay>>

\* Variant of Dropped: one close of c.done is not enough.
DroppedTwice(c) ==
  /\ closes[c] > 1
  /\ Move(c, "select", "leaving")
  /\ UNCHANGED <<log, last, clients, queue, closes, hand, sent, joined, left, replay>>

Dropped(c) ==
  /\ closes[c] > 0
  /\ Move(c, "select", "leaving")
  /\ UNCHANGED <<log, last, clients, queue, closes, hand, sent, joined, left, replay>>

\* Variant of TakeEvent: the newest event first.
TakeNewest(c) ==
  /\ queue[c] # <<>>
  /\ Move(c, "select", "writing")
  /\ hand' = [hand EXCEPT ![c] = queue[c][Len(queue[c])]]
  /\ queue' = [queue EXCEPT ![c] = SubSeq(@, 1, Len(@) - 1)]
  /\ UNCHANGED <<log, last, clients, closes, sent, joined, left, replay>>

\* Variant of TakeEvent: events are taken in batches.
TakeFull(c) ==
  /\ Len(queue[c]) = ClientBuffer
  /\ Move(c, "select", "writing")
  /\ hand' = [hand EXCEPT ![c] = Head(queue[c])]
  /\ queue' = [queue EXCEPT ![c] = Tail(@)]
  /\ UNCHANGED <<log, last, clients, closes, sent, joined, left, replay>>

TakeEvent(c) ==
  /\ queue[c] # <<>>
  /\ Move(c, "select", "writing")
  /\ hand' = [hand EXCEPT ![c] = Head(queue[c])]
  /\ queue' = [queue EXCEPT ![c] = Tail(@)]
  /\ UNCHANGED <<log, last, clients, closes, sent, joined, left, replay>>

Tick(c) ==
  /\ Move(c, "select", "writing")
  /\ hand' = [hand EXCEPT ![c] = Heartbeat]
  /\ UNCHANGED <<log, last, clients, queue, closes, sent, joined, left, replay>>

\* Variant of Written: heartbeats count as events.
WrittenAny(c) ==
  /\ Move(c, "writing", "select")
  /\ sent' = [sent EXCEPT ![c] = Append(@, hand[c])]
  /\ UNCHANGED <<log, last, clients, queue, closes, hand, joined, left, replay>>

Written(c) ==
  /\ Move(c, "writing", "select")
  /\ sent' = IF hand[c] = Heartbeat THEN sent
             ELSE [sent EXCEPT ![c] = Append(@, hand[c])]
  /\ UNCHANGED <<log, last, clients, queue, closes, hand, joined, left, replay>>

WriteFails(c) ==
  /\ Move(c, "writing", "leaving")
  /\ UNCHANGED <<log, last, clients, queue, closes, hand, sent, joined, left, replay>>

\* Variant of Unsubscribe: c.done is closed whether or not c is registered.
UnsubscribeAlways(c) ==
  /\ Move(c, "leaving", "gone")
  /\ clients' = clients \ {c}
  /\ closes' = [closes EXCEPT ![c] = @ + 1]
  /\ left' = IF c \in clients THEN [left EXCEPT ![c] = Len(log)] ELSE left
  /\ UNCHANGED <<log, last, queue, hand, sent, joined, replay>>

\* The deferred unsub: closes c.done only if Publish has not dropped c before.
Unsubscribe(c) ==
  /\ Move(c, "leaving", "gone")
  /\ clients' = clients \ {c}
  /\ IF c \in clients
     THEN /\ closes' = [closes EXCEPT ![c] = @ + 1]
          /\ left' = [left EXCEPT ![c] = Len(log)]
     ELSE UNCHANGED <<closes, left>>
  /\ UNCHANGED <<log, last, queue, hand, sent, joined, replay>>
-----------------------------------------------------------------------------
Serve(c) ==
  \/ Subscribe(c) \/ Hello(c) \/ ContextDone(c) \/ Dropped(c) \/ TakeEvent(c)
  \/ Tick(c) \/ Written(c) \/ WriteFails(c) \/ Unsubscribe(c)

Next ==
  \/ \E name \in Names : Publish(name)
  \/ \E c \in Clients : Serve(c)

Spec == Init /\ [][Next]_vars

(***************************************************************************)
(* A goroutine gets back from a write (the connection takes it or fails)   *)
(* and Go's select picks at random among what is ready, so that a branch   *)
(* that is ready again and again is taken: strong fairness for c.done and  *)
(* for the queue.  Clients need not connect and events need not come.      *)
(***************************************************************************)
ServeFairness(c) ==
  /\ WF_vars(Hello(c)) /\ WF_vars(Written(c) \/ WriteFails(c))
  /\ WF_vars(Unsubscribe(c))
  /\ SF_vars(Dropped(c)) /\ SF_vars(TakeEvent(c))

FairSpec == Spec /\ \A c \in Clients : ServeFairness(c)
-----------------------------------------------------------------------------
\* Queues and connections hold published events only; heartbeats are not events.
TypeOK ==
  /\ log \in Seq(Event)
  /\ last \in Event \cup {None}
  /\ clients \subseteq Clients
  /\ queue \in [Clients -> Seq(Event)]
  /\ closes \in [Clients -> Nat]
  /\ pc \in [Clients -> {"connecting", "hello", "select", "writing", "leaving",
                         "gone"}]
  /\ hand \in [Clients -> Event \cup {Heartbeat}]
  /\ sent \in [Clients -> Seq(Event)]
  /\ joined \in [Clients -> Nat]
  /\ left \in [Clients -> Nat]
  /\ replay \in [Clients -> Seq(Event)]

(***************************************************************************)
(* Publish and the deferred unsub both close c.done; closing it twice      *)
(* panics, never closing it leaves the goroutine of a dropped client       *)
(* streaming nothing.  It is closed exactly when the client is removed     *)
(* from the hub, once (broker.go:91-94, 110-119).                          *)
(***************************************************************************)
ClosedOnce ==
  \A c \in Clients :
    closes[c] = IF pc[c] # "connecting" /\ c \notin clients THEN 1 ELSE 0

\* What c is to receive: the replayed snapshot, then the log from there on.
Feed(c) ==
  replay[c] \o SubSeq(log, joined[c] + 1, IF c \in clients THEN Len(log) ELSE left[c])

Streaming(c) == pc[c] \in {"hello", "select", "writing"}
InHand(c) == IF pc[c] = "writing" /\ hand[c] # Heartbeat THEN <<hand[c]>> ELSE <<>>

(***************************************************************************)
(* While its goroutine streams, what a client has received, is receiving   *)
(* and has queued is exactly its feed: no event is skipped, repeated or    *)
(* reordered between Subscribe, concurrent Publish calls and the drop of a *)
(* slow client (broker.go:76-121, 175-191).                                *)
(***************************************************************************)
Gapless ==
  \A c \in Clients : Streaming(c) => sent[c] \o InHand(c) \o queue[c] = Feed(c)

Abstract == INSTANCE EventStream WITH
  got <- sent,
  state <- [c \in Clients |-> IF pc[c] = "connecting" THEN "away"
                              ELSE IF c \in clients THEN "on" ELSE "off"]

(***************************************************************************)
(* "it reconnects and receives the latest full snapshot, so nothing is     *)
(* lost" (broker.go:24-25): a subscribed client with nothing left to       *)
(* receive has the newest published snapshot as its newest.                *)
(***************************************************************************)
DrainedIsCurrent ==
  \A c \in clients :
    Streaming(c) /\ InHand(c) = <<>> /\ queue[c] = <<>> =>
      Abstract!LastSnapshot(sent[c]) = Remembered

(***************************************************************************)
(* The broker implements the abstract event stream: Publish, Subscribe,    *)
(* the deferred unsub and each write of ServeSSE are its Announce, Join,   *)
(* Leave and Receive, or none of its business (broker.go:76-192).          *)
(***************************************************************************)
ImplementsEventStream == Abstract!StreamSpec

(***************************************************************************)
(* Once publishers pause, a connection that is still subscribed has been   *)
(* sent its whole feed: nothing stays behind in a queue or in a hand       *)
(* (broker.go:175-190).                                                    *)
(***************************************************************************)
EventsArrive ==
  \A c \in Clients : <>[](c \in clients => sent[c] = Feed(c))

\* The goroutine of a dropped client ends (broker.go:179-180).
DroppedLeaves ==
  \A c \in Clients : (closes[c] > 0) ~> (pc[c] = "gone")
=============================================================================

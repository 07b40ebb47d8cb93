---------------------------- MODULE BrokerProofs ----------------------------
(***************************************************************************)
(* The broker's hub for any number of connections and events: c.done is    *)
(* closed exactly once, and a stream has no gap, duplicate or reordering.  *)
(***************************************************************************)
EXTENDS Broker, SequenceTheorems, TLAPS

USE BrokerAssumption

\* What Publish appends to the log is an event.
LEMMA ToEventType ==
  ASSUME NEW name \in Names, log \in Seq(Event)
  PROVE  ToEvent(name) \in Event
BY DEF ToEvent, Event

\* A remembered snapshot is a sequence of at most one event.
LEMMA RememberedType ==
  ASSUME last \in Event \cup {None}
  PROVE  Remembered \in Seq(Event)
BY DEF Remembered

\* Type correctness of the hub and of the streaming goroutines.
THEOREM TypeCorrect == Spec => []TypeOK
<1>1. Init => TypeOK
  BY DEF Init, TypeOK
<1>2. TypeOK /\ [Next]_vars => TypeOK'
  <2> SUFFICES ASSUME TypeOK, [Next]_vars PROVE TypeOK'
    OBVIOUS
  <2> USE DEF TypeOK
  <2>1. ASSUME NEW name \in Names, Publish(name) PROVE TypeOK'
    <3>1. ToEvent(name) \in Event
      BY ToEventType
    <3>2. log' \in Seq(Event) /\ last' \in Event \cup {None}
      BY <2>1, <3>1 DEF Publish
    <3>3. queue' \in [Clients -> Seq(Event)]
      BY <2>1, <3>1 DEF Publish
    <3>4. closes' \in [Clients -> Nat] /\ left' \in [Clients -> Nat]
      BY <2>1 DEF Publish
    <3> QED
      BY <2>1, <3>2, <3>3, <3>4 DEF Publish
  <2>2. ASSUME NEW c \in Clients, Subscribe(c) PROVE TypeOK'
    BY <2>2, RememberedType DEF Subscribe
  <2>3. ASSUME NEW c \in Clients, Hello(c) PROVE TypeOK'
    BY <2>3 DEF Hello, Move
  <2>4. ASSUME NEW c \in Clients, ContextDone(c) \/ Dropped(c) PROVE TypeOK'
    BY <2>4 DEF ContextDone, Dropped, Move
  <2>5. ASSUME NEW c \in Clients, TakeEvent(c) PROVE TypeOK'
    <3>1. Head(queue[c]) \in Event /\ Tail(queue[c]) \in Seq(Event)
      BY <2>5, HeadTailProperties DEF TakeEvent
    <3> QED
      BY <2>5, <3>1 DEF TakeEvent, Move
  <2>6. ASSUME NEW c \in Clients, Tick(c) PROVE TypeOK'
    BY <2>6 DEF Tick, Move
  <2>7. ASSUME NEW c \in Clients, Written(c) PROVE TypeOK'
    <3>1. hand[c] # Heartbeat => Append(sent[c], hand[c]) \in Seq(Event)
      OBVIOUS
    <3> QED
      BY <2>7, <3>1 DEF Written, Move
  <2>8. ASSUME NEW c \in Clients, WriteFails(c) PROVE TypeOK'
    BY <2>8 DEF WriteFails, Move
  <2>9. ASSUME NEW c \in Clients, Unsubscribe(c) PROVE TypeOK'
    <3>1. closes' \in [Clients -> Nat] /\ left' \in [Clients -> Nat]
      <4>1. Len(log) \in Nat
        BY LenProperties
      <4>2. CASE c \in clients
        <5>1. /\ closes' = [closes EXCEPT ![c] = @ + 1]
              /\ left' = [left EXCEPT ![c] = Len(log)]
          BY <2>9, <4>2 DEF Unsubscribe
        <5>2. closes \in [Clients -> Nat] /\ left \in [Clients -> Nat]
          OBVIOUS
        <5> HIDE DEF TypeOK
        <5>3. closes' \in [Clients -> Nat]
          BY <5>1, <5>2
        <5>4. left' \in [Clients -> Nat]
          BY <5>1, <5>2, <4>1
        <5> QED
          BY <5>3, <5>4
      <4>3. CASE c \notin clients
        BY <2>9, <4>3 DEF Unsubscribe
      <4> QED
        BY <4>2, <4>3
    <3> QED
      BY <2>9, <3>1 DEF Unsubscribe, Move
  <2>10. CASE UNCHANGED vars
    BY <2>10 DEF vars
  <2> QED
    BY <2>1, <2>2, <2>3, <2>4, <2>5, <2>6, <2>7, <2>8, <2>9, <2>10
    DEF Next, Serve
<1> QED
  BY <1>1, <1>2, PTL DEF Spec
-----------------------------------------------------------------------------
(***************************************************************************)
(* The hub holds exactly the subscribed clients whose c.done is open.      *)
(***************************************************************************)
Registered ==
  /\ ClosedOnce
  /\ \A c \in clients : pc[c] \in {"hello", "select", "writing", "leaving"}

\* Every step keeps Registered.
LEMMA RegisteredStep == TypeOK /\ Registered /\ [Next]_vars => Registered'
<1> SUFFICES ASSUME TypeOK, Registered, [Next]_vars PROVE Registered'
  OBVIOUS
<1> USE DEF TypeOK, Registered, ClosedOnce, Move
<1>1. ASSUME NEW name \in Names, Publish(name) PROVE Registered'
  <2>1. /\ pc' = pc /\ clients' = clients \ Slow /\ Slow \subseteq clients
        /\ closes' = [c \in Clients |-> IF c \in Slow THEN closes[c] + 1 ELSE closes[c]]
    BY <1>1 DEF Publish, Slow
  <2>2. \A c \in Clients :
          closes'[c] = IF pc'[c] # "connecting" /\ c \notin clients' THEN 1 ELSE 0
    <3> SUFFICES ASSUME NEW c \in Clients
                 PROVE  closes'[c] = IF pc'[c] # "connecting" /\ c \notin clients'
                                     THEN 1 ELSE 0
      OBVIOUS
    <3>0. closes[c] = IF pc[c] # "connecting" /\ c \notin clients THEN 1 ELSE 0
      BY DEF ClosedOnce
    <3>1. CASE c \in Slow
      <4>1. c \in clients /\ c \notin clients' /\ pc'[c] # "connecting"
        BY <2>1, <3>1
      <4>2. closes'[c] = closes[c] + 1 /\ closes[c] = 0
        BY <2>1, <3>0, <3>1, <4>1
      <4> QED
        BY <4>1, <4>2
    <3>2. CASE c \notin Slow
      BY <2>1, <3>2
    <3> QED
      BY <3>1, <3>2
  <2> QED
    BY <2>1, <2>2
<1>2. ASSUME NEW c \in Clients, Subscribe(c) PROVE Registered'
  BY <1>2 DEF Subscribe
<1>3. ASSUME NEW c \in Clients,
             Hello(c) \/ ContextDone(c) \/ Dropped(c) \/ Tick(c) \/ WriteFails(c)
      PROVE  Registered'
  BY <1>3 DEF Hello, ContextDone, Dropped, Tick, WriteFails
<1>4. ASSUME NEW c \in Clients, TakeEvent(c) \/ Written(c) PROVE Registered'
  BY <1>4 DEF TakeEvent, Written
<1>5. ASSUME NEW c \in Clients, Unsubscribe(c) PROVE Registered'
  <2>1. CASE c \in clients
    BY <1>5, <2>1 DEF Unsubscribe
  <2>2. CASE c \notin clients
    BY <1>5, <2>2 DEF Unsubscribe
  <2> QED
    BY <2>1, <2>2
<1>6. CASE UNCHANGED vars
  BY <1>6 DEF vars
<1> QED
  BY <1>1, <1>2, <1>3, <1>4, <1>5, <1>6 DEF Next, Serve

\* c.done is closed once, exactly when the client is removed from the hub, by
\* whichever of Publish and the deferred unsub comes first.
THEOREM DoneClosedOnce == Spec => []ClosedOnce
<1>1. Init => Registered
  BY DEF Init, Registered, ClosedOnce
<1>2. Registered => ClosedOnce
  BY DEF Registered
<1> QED
  BY <1>1, <1>2, RegisteredStep, TypeCorrect, PTL DEF Spec
-----------------------------------------------------------------------------
\* A window of a log does not change when the log grows behind it ...
LEMMA WindowKept ==
  ASSUME NEW S, NEW s \in Seq(S), NEW e \in S, NEW m \in Nat, NEW n \in Nat,
         n <= Len(s)
  PROVE  SubSeq(Append(s, e), m + 1, n) = SubSeq(s, m + 1, n)
<1>1. \A i \in (m + 1) .. n : s[i] \in S /\ Append(s, e)[i] = s[i]
  BY AppendProperties, ElementOfSeq
<1>2. /\ SubSeq(Append(s, e), m + 1, n) \in Seq(S)
      /\ SubSeq(s, m + 1, n) \in Seq(S)
      /\ Len(SubSeq(Append(s, e), m + 1, n)) = Len(SubSeq(s, m + 1, n))
      /\ \A i \in 1 .. n - (m + 1) + 1 :
           /\ SubSeq(Append(s, e), m + 1, n)[i] = Append(s, e)[m + 1 + i - 1]
           /\ SubSeq(s, m + 1, n)[i] = s[m + 1 + i - 1]
  BY <1>1, SubSeqProperties
<1>3. Len(SubSeq(s, m + 1, n)) = IF m + 1 <= n THEN n - (m + 1) + 1 ELSE 0
  BY <1>1, SubSeqProperties
<1>4. \A i \in 1 .. Len(SubSeq(s, m + 1, n)) :
        SubSeq(Append(s, e), m + 1, n)[i] = SubSeq(s, m + 1, n)[i]
  BY <1>1, <1>2, <1>3
<1> QED
  BY <1>2, <1>4, SeqEqual

\* ... and grows with it when it reaches to the end.
LEMMA WindowGrows ==
  ASSUME NEW S, NEW s \in Seq(S), NEW e \in S, NEW m \in Nat, m <= Len(s)
  PROVE  SubSeq(Append(s, e), m + 1, Len(s) + 1)
           = Append(SubSeq(s, m + 1, Len(s)), e)
<1> DEFINE t == Append(s, e)
<1>1. /\ t \in Seq(S) /\ Len(t) = Len(s) + 1 /\ t[Len(s) + 1] = e
  BY AppendProperties
<1>2. SubSeq(t, m + 1, Len(t)) = SubSeq(t, m + 1, Len(t) - 1) \o <<t[Len(t)]>>
  <2> HIDE DEF t
  <2>1. /\ m + 1 \in 1 .. Len(t) /\ Len(t) \in (m + 1) .. Len(t)
    BY <1>1, LenProperties
  <2> QED
    BY <1>1, <2>1, SubSeqRecursiveSecond
<1>3. SubSeq(t, m + 1, Len(s)) = SubSeq(s, m + 1, Len(s))
  BY WindowKept, LenProperties
<1>4. SubSeq(s, m + 1, Len(s)) \in Seq(S)
  BY SubSeqProperties, ElementOfSeq, LenProperties
<1>5. Len(t) - 1 = Len(s) /\ Len(t) = Len(s) + 1 /\ t[Len(t)] = e
  BY <1>1, LenProperties
<1>6. SubSeq(t, m + 1, Len(s) + 1) = SubSeq(s, m + 1, Len(s)) \o <<e>>
  <2> HIDE DEF t
  <2> QED
    BY <1>2, <1>3, <1>5
<1> QED
  BY <1>4, <1>6, AppendIsConcat

\* Queueing one more event puts it behind everything received and queued.
LEMMA QueueGrows ==
  ASSUME NEW S, NEW s \in Seq(S), NEW h \in Seq(S), NEW q \in Seq(S), NEW e \in S
  PROVE  (s \o h) \o Append(q, e) = Append((s \o h) \o q, e)
<1>1. s \o h \in Seq(S) /\ (s \o h) \o q \in Seq(S) /\ <<e>> \in Seq(S)
  BY ConcatProperties
<1>2. (s \o h) \o (q \o <<e>>) = ((s \o h) \o q) \o <<e>>
  BY <1>1, ConcatAssociative
<1> QED
  BY <1>1, <1>2, AppendIsConcat

\* Taking the head of the queue into the hand moves no event.
LEMMA TakeKeeps ==
  ASSUME NEW S, NEW s \in Seq(S), NEW q \in Seq(S), q # <<>>
  PROVE  (s \o <<Head(q)>>) \o Tail(q) = (s \o <<>>) \o q
<1>1. Head(q) \in S /\ Tail(q) \in Seq(S) /\ <<Head(q)>> \in Seq(S)
  BY HeadTailProperties
<1>2. <<Head(q)>> \o Tail(q) = q
  OBVIOUS
<1> QED
  BY <1>1, <1>2, ConcatAssociative, ConcatEmptySeq
-----------------------------------------------------------------------------
(***************************************************************************)
(* Gapless is inductive together with the bounds that keep the windows of  *)
(* the feeds inside the log.                                               *)
(***************************************************************************)
Windows ==
  \A c \in Clients :
    /\ c \in clients => joined[c] <= Len(log)
    /\ pc[c] # "connecting" /\ c \notin clients => left[c] <= Len(log)
    /\ pc[c] = "connecting" => sent[c] = <<>>

\* Every step keeps Windows.
LEMMA WindowsStep ==
  TypeOK /\ Registered /\ Windows /\ [Next]_vars => Windows'
<1> SUFFICES ASSUME TypeOK, Registered, Windows, [Next]_vars PROVE Windows'
  OBVIOUS
<1>0. Len(log) \in Nat
  BY LenProperties DEF TypeOK
<1> USE DEF Windows, Move
<1>1. ASSUME NEW name \in Names, Publish(name) PROVE Windows'
  <2>1. Len(log') = Len(log) + 1
    BY <1>1, ToEventType, AppendProperties DEF Publish, TypeOK
  <2>2. /\ pc' = pc /\ joined' = joined /\ sent' = sent
        /\ clients' = clients \ Slow
        /\ \A c \in Clients : left'[c] = IF c \in Slow THEN Len(log) ELSE left[c]
    BY <1>1 DEF Publish
  <2>3. joined \in [Clients -> Nat] /\ left \in [Clients -> Nat]
    BY DEF TypeOK
  <2> QED
    BY <1>0, <2>1, <2>2, <2>3
<1>2. ASSUME NEW c \in Clients, Subscribe(c) PROVE Windows'
  BY <1>0, <1>2 DEF Subscribe, TypeOK
<1>3. ASSUME NEW c \in Clients,
             \/ Hello(c) \/ ContextDone(c) \/ Dropped(c) \/ TakeEvent(c)
             \/ Tick(c) \/ WriteFails(c)
      PROVE  Windows'
  BY <1>3 DEF Hello, ContextDone, Dropped, TakeEvent, Tick, WriteFails, TypeOK
<1>4. ASSUME NEW c \in Clients, Written(c) PROVE Windows'
  BY <1>4 DEF Written, TypeOK
<1>5. ASSUME NEW c \in Clients, Unsubscribe(c) PROVE Windows'
  <2>1. CASE c \in clients
    BY <1>0, <1>5, <2>1 DEF Unsubscribe, TypeOK
  <2>2. CASE c \notin clients
    BY <1>5, <2>2 DEF Unsubscribe, TypeOK
  <2> QED
    BY <2>1, <2>2
<1>6. CASE UNCHANGED vars
  BY <1>6 DEF vars
<1> QED
  BY <1>1, <1>2, <1>3, <1>4, <1>5, <1>6 DEF Next, Serve

\* Publishing extends the feed of the clients it serves and keeps the others.
LEMMA PublishGapless ==
  ASSUME TypeOK, Windows, Gapless, NEW name \in Names, Publish(name)
  PROVE  Gapless'
<1> SUFFICES ASSUME NEW c \in Clients, Streaming(c)'
             PROVE  (sent[c] \o InHand(c) \o queue[c] = Feed(c))'
  BY DEF Gapless
<1> DEFINE e == ToEvent(name)
           W == SubSeq(log, joined[c] + 1, Len(log))
           got == sent[c] \o InHand(c)
<1>1. /\ e \in Event /\ log \in Seq(Event) /\ log' = Append(log, e)
      /\ Len(log) \in Nat /\ Len(log') = Len(log) + 1
  BY ToEventType, AppendProperties, LenProperties DEF Publish, TypeOK
<1>2. /\ pc' = pc /\ hand' = hand /\ sent' = sent /\ joined' = joined
      /\ replay' = replay /\ clients' = clients \ Slow
      /\ queue'[c] = IF c \in clients \ Slow THEN Append(queue[c], e) ELSE queue[c]
      /\ left'[c] = IF c \in Slow THEN Len(log) ELSE left[c]
  BY DEF Publish
<1>3. /\ Streaming(c) /\ pc[c] # "connecting" /\ InHand(c)' = InHand(c)
  BY <1>2 DEF Streaming, InHand
<1>4. got \o queue[c] = Feed(c)
  BY <1>3 DEF Gapless
<1>5. /\ sent[c] \in Seq(Event) /\ InHand(c) \in Seq(Event)
      /\ queue[c] \in Seq(Event) /\ replay[c] \in Seq(Event)
      /\ joined[c] \in Nat /\ left[c] \in Nat
  BY DEF TypeOK, InHand
<1>0. \A s \in Seq(Event) : \A x \in Event : \A m, n \in Nat :
        n <= Len(s) => SubSeq(Append(s, x), m + 1, n) = SubSeq(s, m + 1, n)
  BY WindowKept
<1>6. W \in Seq(Event)
  BY <1>1, <1>5, SubSeqProperties, ElementOfSeq
<1>7. CASE c \in clients \ Slow
  <2>1. joined[c] <= Len(log)
    BY <1>7 DEF Windows
  <2>2. Feed(c) = replay[c] \o W
    BY <1>7 DEF Feed
  <2>3. Feed(c)' = replay[c] \o SubSeq(Append(log, e), joined[c] + 1, Len(log) + 1)
    BY <1>1, <1>2, <1>7 DEF Feed
  <2>4. Feed(c)' = replay[c] \o Append(W, e)
    BY <1>1, <1>5, <2>1, <2>3, WindowGrows
  <2>5. replay[c] \o Append(W, e) = Append(replay[c] \o W, e)
    <3>1. <<e>> \in Seq(Event) /\ replay[c] \o W \in Seq(Event)
      BY <1>1, <1>5, <1>6, ConcatProperties
    <3> HIDE DEF W, e
    <3>2. replay[c] \o (W \o <<e>>) = (replay[c] \o W) \o <<e>>
      <4>1. \A r, w, x \in Seq(Event) : r \o (w \o x) = (r \o w) \o x
        BY ConcatAssociative
      <4> QED
        BY <1>5, <1>6, <3>1, <4>1
    <3> QED
      BY <1>1, <1>6, <3>1, <3>2, AppendIsConcat
  <2>6. got \o Append(queue[c], e) = Append(got \o queue[c], e)
    <3>1. \A r, h, q \in Seq(Event) : \A x \in Event :
             (r \o h) \o Append(q, x) = Append((r \o h) \o q, x)
      BY QueueGrows
    <3> HIDE DEF e
    <3> QED
      BY <1>1, <1>5, <3>1
  <2> HIDE DEF W, e
  <2> QED
    BY <1>2, <1>3, <1>4, <1>7, <2>2, <2>4, <2>5, <2>6
<1>8. CASE c \in Slow
  <2>1. Feed(c) = replay[c] \o W
    BY <1>8 DEF Feed, Slow
  <2>2. Feed(c)' = replay[c] \o SubSeq(Append(log, e), joined[c] + 1, Len(log))
    BY <1>1, <1>2, <1>8 DEF Feed
  <2>3. SubSeq(Append(log, e), joined[c] + 1, Len(log)) = W
    <3>1. Len(log) <= Len(log)
      BY <1>1
    <3> HIDE DEF e, W
    <3>2. SubSeq(Append(log, e), joined[c] + 1, Len(log))
            = SubSeq(log, joined[c] + 1, Len(log))
      BY <1>0, <1>1, <1>5, <3>1
    <3> QED
      BY <3>2 DEF W
  <2> QED
    BY <1>2, <1>3, <1>4, <1>8, <2>1, <2>2, <2>3
<1>9. CASE c \notin clients
  <2>1. left[c] <= Len(log)
    BY <1>3, <1>9 DEF Windows
  <2>2. Feed(c)' = replay[c] \o SubSeq(Append(log, e), joined[c] + 1, left[c])
    BY <1>1, <1>2, <1>9 DEF Feed, Slow
  <2>3. SubSeq(Append(log, e), joined[c] + 1, left[c])
          = SubSeq(log, joined[c] + 1, left[c])
    <3> HIDE DEF e
    <3> QED
      BY <1>0, <1>1, <1>5, <2>1
  <2> QED
    BY <1>2, <1>3, <1>4, <1>9, <2>2, <2>3 DEF Feed, Slow
<1> QED
  BY <1>7, <1>8, <1>9

\* A client's own steps move events from its queue to its hand to the wire.
LEMMA ServeGapless ==
  ASSUME TypeOK, Windows, Gapless, NEW c \in Clients, Serve(c)
  PROVE  Gapless'
<1> SUFFICES ASSUME NEW d \in Clients, Streaming(d)'
             PROVE  (sent[d] \o InHand(d) \o queue[d] = Feed(d))'
  BY DEF Gapless
<1> USE DEF Move
<1>1. /\ log \in Seq(Event) /\ Len(log) \in Nat
      /\ sent[d] \in Seq(Event) /\ queue[d] \in Seq(Event)
      /\ InHand(d) \in Seq(Event) /\ replay[d] \in Seq(Event)
      /\ joined[d] \in Nat /\ hand[d] \in Event \cup {Heartbeat}
  BY LenProperties DEF TypeOK, InHand
<1>2. CASE d # c
  <2>1. /\ pc'[d] = pc[d] /\ hand'[d] = hand[d] /\ sent'[d] = sent[d]
        /\ queue'[d] = queue[d] /\ replay'[d] = replay[d]
        /\ joined'[d] = joined[d] /\ log' = log /\ left'[d] = left[d]
        /\ d \in clients' <=> d \in clients
    <3>1. CASE Subscribe(c)
      BY <1>2, <3>1 DEF Subscribe, TypeOK
    <3>2. CASE Hello(c) \/ ContextDone(c) \/ Dropped(c) \/ WriteFails(c)
      BY <1>2, <3>2 DEF Hello, ContextDone, Dropped, WriteFails, TypeOK
    <3>3. CASE TakeEvent(c) \/ Tick(c) \/ Written(c)
      BY <1>2, <3>3 DEF TakeEvent, Tick, Written, TypeOK
    <3>4. CASE Unsubscribe(c)
      BY <1>2, <3>4 DEF Unsubscribe, TypeOK
    <3> QED
      BY <3>1, <3>2, <3>3, <3>4 DEF Serve
  <2> QED
    BY <2>1 DEF Gapless, Streaming, InHand, Feed
<1>3. CASE d = c /\ Subscribe(c)
  <2>1. /\ sent'[d] = <<>> /\ InHand(d)' = <<>>
        /\ queue'[d] = Remembered /\ replay'[d] = Remembered
        /\ joined'[d] = Len(log) /\ log' = log /\ d \in clients'
    BY <1>3 DEF Subscribe, TypeOK, InHand, Windows
  <2>2. Remembered \in Seq(Event)
    BY RememberedType DEF TypeOK
  <2>3. SubSeq(log, Len(log) + 1, Len(log)) = <<>>
    BY <1>1, SubSeqEmpty
  <2>4. Feed(d)' = Remembered \o <<>>
    BY <2>1, <2>3 DEF Feed
  <2>5. /\ <<>> \in Seq(Event) /\ <<>> \o <<>> = <<>>
        /\ <<>> \o Remembered = Remembered /\ Remembered \o <<>> = Remembered
    BY <2>2, ConcatEmptySeq, EmptySeq
  <2> HIDE DEF Remembered
  <2> QED
    BY <2>1, <2>4, <2>5
<1>4. CASE d = c /\ ~Subscribe(c)
  <2>0. Streaming(d) /\ UNCHANGED Feed(d)
    <3>1. ~Unsubscribe(c) /\ ~ContextDone(c) /\ ~Dropped(c) /\ ~WriteFails(c)
      BY <1>4 DEF Streaming, TypeOK, Unsubscribe, ContextDone, Dropped, WriteFails
    <3>2. CASE Hello(c)
      BY <1>4, <3>2 DEF Streaming, TypeOK, Feed, Hello
    <3>3. CASE TakeEvent(c) \/ Tick(c) \/ Written(c)
      BY <1>4, <3>3 DEF Streaming, TypeOK, Feed, TakeEvent, Tick, Written
    <3> QED
      BY <1>4, <3>1, <3>2, <3>3 DEF Serve
  <2>1. sent[d] \o InHand(d) \o queue[d] = Feed(d)
    BY <2>0 DEF Gapless
  <2>2. CASE Hello(c) \/ Tick(c)
    <3>1. /\ InHand(d) = <<>> /\ InHand(d)' = <<>>
          /\ sent' = sent /\ queue' = queue
      BY <1>4, <2>0, <2>2 DEF Hello, Tick, InHand, Streaming, TypeOK
    <3> QED
      BY <2>0, <2>1, <3>1
  <2>3. CASE TakeEvent(c)
    <3>1. /\ queue[d] # <<>> /\ InHand(d) = <<>> /\ sent'[d] = sent[d]
          /\ queue'[d] = Tail(queue[d])
          /\ hand'[d] = Head(queue[d]) /\ pc'[d] = "writing"
      BY <1>4, <2>3 DEF TakeEvent, InHand, TypeOK
    <3>2. Head(queue[d]) \in Event
      BY <1>1, <3>1, HeadTailProperties
    <3>3. Head(queue[d]) # Heartbeat
      BY <3>2 DEF Event, Heartbeat
    <3>4. InHand(d)' = <<Head(queue[d])>>
      BY <3>1, <3>3 DEF InHand, Heartbeat
    <3>5. (sent[d] \o <<Head(queue[d])>>) \o Tail(queue[d])
             = (sent[d] \o <<>>) \o queue[d]
      BY <1>1, <3>1, TakeKeeps
    <3> QED
      BY <2>0, <2>1, <3>1, <3>4, <3>5
  <2>4. CASE Written(c) /\ hand[c] = Heartbeat
    <3>1. /\ InHand(d) = <<>> /\ InHand(d)' = <<>>
          /\ sent' = sent /\ queue' = queue
      BY <1>4, <2>4 DEF Written, InHand, TypeOK
    <3> QED
      BY <2>0, <2>1, <3>1
  <2>5. CASE Written(c) /\ hand[c] # Heartbeat
    <3>1. /\ InHand(d) = <<hand[d]>> /\ InHand(d)' = <<>>
          /\ sent'[d] = Append(sent[d], hand[d]) /\ queue' = queue
      BY <1>4, <2>5 DEF Written, InHand, TypeOK
    <3>2. hand[d] \in Event
      BY <1>1, <1>4, <2>5
    <3>3. Append(sent[d], hand[d]) \in Seq(Event)
      BY <1>1, <3>2
    <3>4. Append(sent[d], hand[d]) \o <<>> = sent[d] \o <<hand[d]>>
      BY <1>1, <3>2, <3>3, ConcatEmptySeq, AppendIsConcat
    <3> QED
      BY <2>0, <2>1, <3>1, <3>4
  <2> QED
    BY <1>4, <2>0, <2>2, <2>3, <2>4, <2>5
    DEF Serve, Streaming, Unsubscribe, ContextDone, Dropped, WriteFails, TypeOK
<1> QED
  BY <1>2, <1>3, <1>4

\* Every step keeps Gapless.
LEMMA GaplessStep == TypeOK /\ Windows /\ Gapless /\ [Next]_vars => Gapless'
<1>1. ASSUME Gapless, UNCHANGED vars PROVE Gapless'
  BY <1>1 DEF vars, Gapless, Streaming, InHand, Feed
<1> QED
  BY <1>1, PublishGapless, ServeGapless DEF Next

\* A stream has no gap, duplicate or reordering, for every buffer capacity.
THEOREM StreamsAreGapless == Spec => []Gapless
<1>1. Init => Windows /\ Gapless /\ Registered
  BY DEF Init, Windows, Gapless, Streaming, Registered, ClosedOnce
<1> QED
  BY <1>1, GaplessStep, WindowsStep, RegisteredStep, TypeCorrect, PTL DEF Spec
-----------------------------------------------------------------------------
(***************************************************************************)
(* DrainedIsCurrent.  h.last is the newest snapshot of the log, and of     *)
(* what every registered client is to receive.                             *)
(***************************************************************************)
\* e is the newest snapshot of s; None when s has none.
Newest(s, e) ==
  IF e = None THEN \A i \in DOMAIN s : s[i].name # "snapshot"
  ELSE /\ e.name = "snapshot"
       /\ \E i \in DOMAIN s :
            s[i] = e /\ \A j \in DOMAIN s : s[j].name = "snapshot" => j <= i

NewestKnown ==
  /\ Newest(log, last)
  /\ \A c \in clients : Newest(Feed(c), last)

\* LastSnapshot finds the newest snapshot.
LEMMA NewestIsLast ==
  ASSUME NEW s \in Seq(Event), NEW e, Newest(s, e)
  PROVE  Abstract!LastSnapshot(s) = IF e = None THEN <<>> ELSE <<e>>
<1> DEFINE at == {i \in DOMAIN s : s[i].name = "snapshot"}
<1>1. CASE e = None
  <2>1. at = {}
    BY <1>1 DEF Newest
  <2> QED
    BY <1>1, <2>1 DEF Abstract!LastSnapshot
<1>2. CASE e # None
  <2>1. PICK i \in at : s[i] = e /\ \A j \in at : j <= i
    BY <1>2 DEF Newest
  <2>2. at \subseteq Int
    BY LenProperties
  <2> HIDE DEF at
  <2>3. (CHOOSE k \in at : \A j \in at : j <= k) = i
    <3> DEFINE m == CHOOSE k \in at : \A j \in at : j <= k
    <3>1. m \in at /\ \A j \in at : j <= m
      BY <2>1
    <3> HIDE DEF m
    <3>2. m = i
      BY <2>1, <2>2, <3>1
    <3> QED
      BY <3>2 DEF m
  <2> QED
    BY <1>2, <2>1, <2>3 DEF Abstract!LastSnapshot, at
<1> QED
  BY <1>1, <1>2

\* A new event is the newest snapshot if it is one, and else changes nothing.
LEMMA NewestGrows ==
  ASSUME NEW s \in Seq(Event), NEW e \in Event, NEW l, Newest(s, l)
  PROVE  Newest(Append(s, e), IF e.name = "snapshot" THEN e ELSE l)
<1> DEFINE t == Append(s, e)
           n == Len(s) + 1
<1>1. /\ Len(s) \in Nat /\ DOMAIN s = 1 .. Len(s) /\ DOMAIN t = 1 .. n
      /\ t[n] = e /\ \A i \in 1 .. Len(s) : t[i] = s[i]
  BY AppendProperties, LenProperties
<1>2. CASE e.name = "snapshot"
  <2>1. e # None
    BY NoneAssumption DEF Event
  <2>2. n \in DOMAIN t /\ \A j \in DOMAIN t : j <= n
    BY <1>1
  <2> HIDE DEF t, n
  <2>3. t[n] = e
    BY <1>1
  <2> QED
    BY <1>2, <2>1, <2>2, <2>3 DEF Newest, t
<1>3. CASE e.name # "snapshot"
  <2>1. \A j \in DOMAIN t :
          t[j].name = "snapshot" => j \in DOMAIN s /\ s[j].name = "snapshot"
    BY <1>1, <1>3
  <2>2. \A i \in DOMAIN s : i \in DOMAIN t /\ t[i] = s[i]
    BY <1>1
  <2> HIDE DEF t, n
  <2>3. Newest(t, l)
    <3>1. CASE l = None
      BY <2>1, <3>1 DEF Newest
    <3>2. CASE l # None
      BY <2>1, <2>2, <3>2 DEF Newest
    <3> QED
      BY <3>1, <3>2
  <2> QED
    BY <1>3, <2>3 DEF t
<1> QED
  BY <1>2, <1>3

\* The feed of a client that Publish serves grows by the event.
LEMMA FeedGrows ==
  ASSUME TypeOK, Windows, NEW name \in Names, Publish(name),
         NEW c \in clients \ Slow
  PROVE  Feed(c)' = Append(Feed(c), ToEvent(name)) /\ Feed(c) \in Seq(Event)
<1> DEFINE e == ToEvent(name)
           W == SubSeq(log, joined[c] + 1, Len(log))
<1>1. /\ c \in Clients /\ e \in Event /\ log \in Seq(Event) /\ log' = Append(log, e)
      /\ Len(log) \in Nat /\ Len(log') = Len(log) + 1
      /\ joined' = joined /\ replay' = replay /\ clients' = clients \ Slow
      /\ replay[c] \in Seq(Event) /\ joined[c] \in Nat /\ joined[c] <= Len(log)
  BY ToEventType, AppendProperties, LenProperties DEF Publish, TypeOK, Windows
<1>2. W \in Seq(Event)
  BY <1>1, SubSeqProperties, ElementOfSeq
<1>3. Feed(c) = replay[c] \o W
  BY DEF Feed
<1>4. Feed(c)' = replay[c] \o SubSeq(Append(log, e), joined[c] + 1, Len(log) + 1)
  BY <1>1 DEF Feed
<1>5. Feed(c)' = replay[c] \o Append(W, e)
  BY <1>1, <1>4, WindowGrows
<1>6. /\ <<e>> \in Seq(Event) /\ replay[c] \o W \in Seq(Event)
  BY <1>1, <1>2, ConcatProperties
<1> HIDE DEF W, e
<1>7. \A r, w, x \in Seq(Event) : r \o (w \o x) = (r \o w) \o x
  BY ConcatAssociative
<1>8. replay[c] \o (W \o <<e>>) = (replay[c] \o W) \o <<e>>
  BY <1>1, <1>2, <1>6, <1>7
<1>9. replay[c] \o Append(W, e) = Append(replay[c] \o W, e)
  BY <1>1, <1>2, <1>6, <1>8, AppendIsConcat
<1> QED
  BY <1>3, <1>5, <1>6, <1>9 DEF e

\* Every step keeps NewestKnown.
LEMMA NewestKnownStep ==
  TypeOK /\ Registered /\ Windows /\ NewestKnown /\ [Next]_vars => NewestKnown'
<1> SUFFICES ASSUME TypeOK, Registered, Windows, NewestKnown, [Next]_vars
             PROVE  NewestKnown'
  OBVIOUS
<1>1. ASSUME NEW name \in Names, Publish(name) PROVE NewestKnown'
  <2> DEFINE e == ToEvent(name)
             l == IF e.name = "snapshot" THEN e ELSE last
  <2>1. e \in Event /\ log \in Seq(Event) /\ log' = Append(log, e)
    BY <1>1, ToEventType DEF Publish, TypeOK
  <2>2. last' = l
    BY <1>1 DEF Publish, ToEvent
  <2>3. Newest(log, last) /\ \A c \in clients : Newest(Feed(c), last)
    BY DEF NewestKnown
  <2>4. clients' = clients \ Slow
    BY <1>1 DEF Publish
  <2>5. ASSUME NEW c \in clients \ Slow PROVE Newest(Feed(c)', l)
    <3>1. Feed(c)' = Append(Feed(c), e) /\ Feed(c) \in Seq(Event)
      BY <1>1, FeedGrows
    <3>2. Newest(Feed(c), last)
      BY <2>3
    <3> HIDE DEF e
    <3> QED
      BY <2>1, <3>1, <3>2, NewestGrows
  <2>6. Newest(log', l)
    <3> HIDE DEF e
    <3> QED
      BY <2>1, <2>3, NewestGrows
  <2> HIDE DEF l
  <2> QED
    BY <2>2, <2>4, <2>5, <2>6 DEF NewestKnown, Newest
<1>2. ASSUME NEW c \in Clients, Subscribe(c) PROVE NewestKnown'
  <2>1. /\ log' = log /\ last' = last /\ clients' = clients \cup {c}
        /\ left' = left /\ log \in Seq(Event)
        /\ replay' = [replay EXCEPT ![c] = Remembered]
        /\ joined' = [joined EXCEPT ![c] = Len(log)]
        /\ replay \in [Clients -> Seq(Event)] /\ joined \in [Clients -> Nat]
        /\ clients \subseteq Clients /\ pc[c] = "connecting"
    BY <1>2 DEF Subscribe, TypeOK
  <2>2. c \notin clients
    BY <2>1 DEF Registered
  <2>3. ASSUME NEW d \in clients PROVE Newest(Feed(d), last)'
    <3>1. Feed(d)' = Feed(d)
      BY <2>1, <2>2, <2>3 DEF Feed
    <3>2. Newest(Feed(d), last)
      BY <2>3 DEF NewestKnown
    <3> QED
      BY <2>1, <3>1, <3>2 DEF Newest
  <2>4. Newest(Feed(c), last)'
    <3>1. Remembered \in Seq(Event)
      BY RememberedType DEF TypeOK
    <3>2. SubSeq(log, Len(log) + 1, Len(log)) = <<>>
      BY <2>1, SubSeqEmpty, LenProperties
    <3>3. Feed(c)' = Remembered \o <<>>
      BY <2>1, <3>2 DEF Feed
    <3>4. Feed(c)' = Remembered
      BY <3>1, <3>3, ConcatEmptySeq
    <3>5. Newest(Remembered, last)
      <4>1. CASE last = None
        BY <4>1 DEF Newest, Remembered
      <4>2. CASE last # None
        <5>1. last.name = "snapshot"
          BY <4>2 DEF NewestKnown, Newest
        <5>2. /\ Remembered = <<last>> /\ 1 \in DOMAIN <<last>>
              /\ <<last>>[1] = last /\ \A j \in DOMAIN <<last>> : j <= 1
          BY <4>2 DEF Remembered
        <5> QED
          BY <4>2, <5>1, <5>2 DEF Newest
      <4> QED
        BY <4>1, <4>2
    <3> QED
      BY <2>1, <3>4, <3>5 DEF Newest
  <2> QED
    BY <2>1, <2>3, <2>4 DEF NewestKnown, Newest
<1>3. ASSUME NEW c \in Clients, Serve(c), ~Subscribe(c) PROVE NewestKnown'
  <2>1. /\ log' = log /\ last' = last /\ joined' = joined /\ replay' = replay
        /\ clients' \subseteq clients
    BY <1>3 DEF Serve, Hello, ContextDone, Dropped, TakeEvent, Tick, Written,
                WriteFails, Unsubscribe
  <2>2. \A d \in clients' : Feed(d)' = Feed(d)
    BY <2>1 DEF Feed
  <2> QED
    BY <2>1, <2>2 DEF NewestKnown, Newest
<1>4. CASE UNCHANGED vars
  BY <1>4 DEF vars, NewestKnown, Newest, Feed
<1> QED
  BY <1>1, <1>2, <1>3, <1>4 DEF Next

\* The facts of the two theorems that follow, in every reachable state.
BrokerInv == TypeOK /\ Registered /\ Windows /\ Gapless /\ NewestKnown

LEMMA BrokerInvariant == Spec => []BrokerInv
<1>1. Init => Windows /\ Gapless /\ Registered /\ NewestKnown
  BY DEF Init, Windows, Gapless, Streaming, Registered, ClosedOnce, NewestKnown,
         Newest
<1> QED
  BY <1>1, GaplessStep, WindowsStep, RegisteredStep, NewestKnownStep, TypeCorrect,
     PTL
  DEF Spec, BrokerInv

\* A client that has been sent all that was queued for it has the newest
\* published snapshot as its newest, whatever it missed before it connected.
THEOREM DrainedStreamsAreCurrent == Spec => []DrainedIsCurrent
<1>1. BrokerInv => DrainedIsCurrent
  <2> SUFFICES ASSUME BrokerInv, NEW c \in clients,
                      Streaming(c), InHand(c) = <<>>, queue[c] = <<>>
               PROVE  Abstract!LastSnapshot(sent[c]) = Remembered
    BY DEF DrainedIsCurrent
  <2>1. c \in Clients /\ sent[c] \in Seq(Event)
    BY DEF BrokerInv, TypeOK
  <2>2. (sent[c] \o InHand(c)) \o queue[c] = Feed(c)
    BY <2>1 DEF BrokerInv, Gapless
  <2>3. sent[c] = Feed(c)
    BY <2>1, <2>2, ConcatEmptySeq
  <2>4. Newest(sent[c], last)
    BY <2>3 DEF BrokerInv, NewestKnown
  <2> QED
    BY <2>1, <2>4, NewestIsLast DEF Remembered
<1> QED
  BY <1>1, BrokerInvariant, PTL
-----------------------------------------------------------------------------
(***************************************************************************)
(* The refinement.  A client is away before Subscribe, on while the hub    *)
(* holds it and off afterwards.                                            *)
(***************************************************************************)
State == [c \in Clients |-> IF pc[c] = "connecting" THEN "away"
                            ELSE IF c \in clients THEN "on" ELSE "off"]

\* Publish is Announce; it cuts off the slow clients.
LEMMA PublishAnnounces ==
  ASSUME BrokerInv, NEW name \in Names, Publish(name)
  PROVE  Abstract!Announce
<1>1. log' = Append(log, [name |-> name, n |-> Len(log) + 1])
  BY DEF Publish, ToEvent
<1>2. /\ Slow \subseteq clients /\ clients' = clients \ Slow /\ pc' = pc
      /\ left' = [c \in Clients |-> IF c \in Slow THEN Len(log) ELSE left[c]]
      /\ UNCHANGED <<joined, replay, sent>>
  BY DEF Publish, Slow
<1>3. clients \subseteq Clients /\ \A c \in clients : pc[c] # "connecting"
  BY DEF BrokerInv, TypeOK, Registered
<1>4. Slow \in SUBSET {c \in Clients : State[c] = "on"}
  BY <1>2, <1>3 DEF State
<1>5. State' = [c \in Clients |-> IF c \in Slow THEN "off" ELSE State[c]]
  BY <1>2, <1>3 DEF State
<1> QED
  BY <1>1, <1>2, <1>4, <1>5 DEF Abstract!Announce, State

\* Subscribe is Join: what it queues is the newest snapshot of the log.
LEMMA SubscribeJoins ==
  ASSUME BrokerInv, NEW c \in Clients, Subscribe(c)
  PROVE  Abstract!Join(c)
<1>1. /\ pc[c] = "connecting" /\ clients' = clients \cup {c}
      /\ pc' = [pc EXCEPT ![c] = "hello"]
      /\ joined' = [joined EXCEPT ![c] = Len(log)]
      /\ replay' = [replay EXCEPT ![c] = Remembered]
      /\ UNCHANGED <<log, left, sent>>
  BY DEF Subscribe
<1>2. DOMAIN pc = Clients /\ log \in Seq(Event)
  BY DEF BrokerInv, TypeOK
<1>3. State[c] = "away" /\ State' = [State EXCEPT ![c] = "on"]
  BY <1>1, <1>2 DEF State
<1>4. Remembered = Abstract!LastSnapshot(log)
  BY <1>2, NewestIsLast DEF BrokerInv, NewestKnown, Remembered
<1> QED
  BY <1>1, <1>3, <1>4 DEF Abstract!Join, State

\* An event written to the connection is the next one of the client's feed.
LEMMA WrittenReceives ==
  ASSUME BrokerInv, NEW c \in Clients, Written(c), hand[c] # Heartbeat
  PROVE  Abstract!Receive(c)
<1>1. /\ pc[c] = "writing" /\ pc' = [pc EXCEPT ![c] = "select"]
      /\ sent' = [sent EXCEPT ![c] = Append(@, hand[c])]
      /\ UNCHANGED <<log, joined, left, replay, clients>>
  BY DEF Written, Move
<1>2. /\ DOMAIN pc = Clients /\ DOMAIN sent = Clients
      /\ sent[c] \in Seq(Event) /\ queue[c] \in Seq(Event) /\ hand[c] \in Event
  BY DEF BrokerInv, TypeOK
<1>3. State' = State /\ State[c] = IF c \in clients THEN "on" ELSE "off"
  BY <1>1, <1>2 DEF State
<1>4. Abstract!Feed(c) = Feed(c)
  BY <1>3 DEF Abstract!Feed, Feed, State
<1>5. (sent[c] \o <<hand[c]>>) \o queue[c] = Feed(c)
  BY <1>1 DEF BrokerInv, Gapless, Streaming, InHand
<1>6. /\ <<hand[c]>> \in Seq(Event) /\ Len(<<hand[c]>>) = 1 /\ <<hand[c]>>[1] = hand[c]
      /\ Len(sent[c]) \in Nat /\ Len(queue[c]) \in Nat
  BY <1>2, LenProperties
<1>7. /\ sent[c] \o <<hand[c]>> \in Seq(Event)
      /\ Len(sent[c] \o <<hand[c]>>) = Len(sent[c]) + 1
      /\ (sent[c] \o <<hand[c]>>)[Len(sent[c]) + 1] = hand[c]
  BY <1>2, <1>6, ConcatProperties
<1>8. /\ Len(Feed(c)) = Len(sent[c]) + 1 + Len(queue[c])
      /\ Feed(c)[Len(sent[c]) + 1] = hand[c]
  <2> DEFINE got == sent[c] \o <<hand[c]>>
  <2> HIDE DEF got
  <2>1. /\ got \in Seq(Event) /\ Len(got) = Len(sent[c]) + 1
        /\ got[Len(sent[c]) + 1] = hand[c] /\ got \o queue[c] = Feed(c)
    BY <1>5, <1>7 DEF got
  <2>2. /\ Len(got \o queue[c]) = Len(got) + Len(queue[c])
        /\ \A i \in 1 .. Len(got) : (got \o queue[c])[i] = got[i]
    <3>1. \A s1, s2 \in Seq(Event) :
            /\ Len(s1 \o s2) = Len(s1) + Len(s2)
            /\ \A i \in 1 .. (Len(s1) + Len(s2)) :
                 (s1 \o s2)[i] = IF i <= Len(s1) THEN s1[i] ELSE s2[i - Len(s1)]
      BY ConcatProperties
    <3>2. Len(got) \in Nat
      BY <1>6, <2>1
    <3>3. \A m, n \in Nat : \A i \in 1 .. m : i \in 1 .. (m + n) /\ i <= m
      OBVIOUS
    <3>4. \A i \in 1 .. Len(got) : i \in 1 .. (Len(got) + Len(queue[c])) /\ i <= Len(got)
      BY <1>6, <3>2, <3>3
    <3> QED
      BY <1>2, <2>1, <3>1, <3>4
  <2>3. Len(sent[c]) + 1 \in 1 .. Len(got)
    BY <1>6, <2>1
  <2> QED
    BY <2>1, <2>2, <2>3
<1>9. Len(sent[c]) < Len(Feed(c))
  <2>1. \A m, n \in Nat : m < m + 1 + n
    OBVIOUS
  <2> QED
    BY <1>6, <1>8, <2>1
<1> QED
  BY <1>1, <1>2, <1>3, <1>4, <1>8, <1>9 DEF Abstract!Receive, State

\* The unsub of a registered client is Leave.
LEMMA UnsubscribeLeaves ==
  ASSUME BrokerInv, NEW c \in clients, Unsubscribe(c)
  PROVE  Abstract!Leave(c)
<1>1. /\ pc[c] = "leaving" /\ pc' = [pc EXCEPT ![c] = "gone"]
      /\ clients' = clients \ {c} /\ left' = [left EXCEPT ![c] = Len(log)]
      /\ UNCHANGED <<log, joined, replay, sent>>
  BY DEF Unsubscribe, Move
<1>2. c \in Clients /\ DOMAIN pc = Clients
  BY DEF BrokerInv, TypeOK
<1>3. State[c] = "on" /\ State' = [State EXCEPT ![c] = "off"]
  BY <1>1, <1>2 DEF State
<1> QED
  BY <1>1, <1>3 DEF Abstract!Leave, State

\* Every other step of a streaming goroutine is invisible in the event stream.
Invisible(c) ==
  \/ Hello(c) \/ ContextDone(c) \/ Dropped(c) \/ WriteFails(c)
  \/ TakeEvent(c) \/ Tick(c) \/ (Written(c) /\ hand[c] = Heartbeat)
  \/ (Unsubscribe(c) /\ c \notin clients)

LEMMA OthersStutter ==
  ASSUME BrokerInv, NEW c \in Clients, Invisible(c)
  PROVE  UNCHANGED Abstract!streamVars
<1> DEFINE Moved == /\ pc[c] # "connecting" /\ pc'[c] # "connecting"
                    /\ \A d \in Clients \ {c} : pc'[d] = pc[d]
                    /\ clients' = clients
                    /\ UNCHANGED <<log, joined, left, replay, sent>>
<1>1. /\ pc \in [Clients -> {"connecting", "hello", "select", "writing", "leaving",
                             "gone"}]
      /\ clients \subseteq Clients
  BY DEF BrokerInv, TypeOK
<1>2. CASE Hello(c) \/ ContextDone(c) \/ Dropped(c) \/ WriteFails(c)
  <2>1. Moved
    BY <1>1, <1>2 DEF Hello, ContextDone, Dropped, WriteFails, Move
  <2> QED
    BY <2>1 DEF Abstract!streamVars
<1>3. CASE TakeEvent(c) \/ Tick(c) \/ (Written(c) /\ hand[c] = Heartbeat)
  <2>1. Moved
    BY <1>1, <1>3 DEF TakeEvent, Tick, Written, Move
  <2> QED
    BY <2>1 DEF Abstract!streamVars
<1>4. CASE Unsubscribe(c) /\ c \notin clients
  <2>1. Moved
    BY <1>1, <1>4 DEF Unsubscribe, Move
  <2> QED
    BY <2>1 DEF Abstract!streamVars
<1> QED
  BY <1>2, <1>3, <1>4 DEF Invisible

\* The hub, its queues and its streaming goroutines implement the event stream
\* without queues, for every number of connections and every buffer capacity.
THEOREM BrokerImplementsEventStream == Spec => ImplementsEventStream
<1>1. Init => Abstract!StreamInit
  BY DEF Init, Abstract!StreamInit
<1>2. BrokerInv /\ [Next]_vars => [Abstract!StreamNext]_Abstract!streamVars
  <2> SUFFICES ASSUME BrokerInv, [Next]_vars
               PROVE  Abstract!StreamNext \/ UNCHANGED Abstract!streamVars
    OBVIOUS
  <2>1. ASSUME NEW name \in Names, Publish(name) PROVE Abstract!StreamNext
    BY <2>1, PublishAnnounces DEF Abstract!StreamNext
  <2>2. ASSUME NEW c \in Clients, Serve(c)
        PROVE  Abstract!StreamNext \/ UNCHANGED Abstract!streamVars
    <3>1. CASE Subscribe(c)
      BY <3>1, SubscribeJoins DEF Abstract!StreamNext
    <3>2. CASE Written(c) /\ hand[c] # Heartbeat
      BY <3>2, WrittenReceives DEF Abstract!StreamNext
    <3>3. CASE Unsubscribe(c) /\ c \in clients
      BY <3>3, UnsubscribeLeaves DEF Abstract!StreamNext
    <3> QED
      BY <2>2, <3>1, <3>2, <3>3, OthersStutter DEF Serve, Invisible
  <2>3. CASE UNCHANGED vars
    BY <2>3 DEF vars, Abstract!streamVars
  <2> QED
    BY <2>1, <2>2, <2>3 DEF Next
<1> QED
  BY <1>1, <1>2, BrokerInvariant, PTL
  DEF Spec, ImplementsEventStream, Abstract!StreamSpec
=============================================================================

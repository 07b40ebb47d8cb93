---------------------------- MODULE EventStream ----------------------------
(***************************************************************************)
(* What the realtime broker promises, without queues, locks or channels:   *)
(* events of a building form a log; a client that joins is shown the last  *)
(* snapshot of the log and then every later event, in order and without a  *)
(* gap, until it leaves or is cut off.                                     *)
(***************************************************************************)
EXTENDS Naturals, Sequences, FiniteSets

CONSTANTS Clients, Names

VARIABLES
  log,      \* every event published so far
  joined,   \* joined[c]: the length of the log when c joined
  left,     \* left[c]: the length of the log when c left or was cut off
  replay,   \* replay[c]: what c was shown on joining, <<>> or <<event>>
  got,      \* got[c]: what c has received
  state     \* state[c]: "away", "on" or "off"

streamVars == <<log, joined, left, replay, got, state>>

Event == [name : Names, n : Nat \ {0}]

\* The newest snapshot of a log, as a sequence of at most one event.
LastSnapshot(l) ==
  LET at == {i \in DOMAIN l : l[i].name = "snapshot"}
  IN  IF at = {} THEN <<>>
      ELSE <<l[CHOOSE i \in at : \A j \in at : j <= i]>>

\* What a client is entitled to by now.
Feed(c) ==
  replay[c] \o SubSeq(log, joined[c] + 1,
                      IF state[c] = "off" THEN left[c] ELSE Len(log))

StreamInit ==
  /\ log = <<>>
  /\ joined = [c \in Clients |-> 0]
  /\ left = [c \in Clients |-> 0]
  /\ replay = [c \in Clients |-> <<>>]
  /\ got = [c \in Clients |-> <<>>]
  /\ state = [c \in Clients |-> "away"]

\* Publishing may cut off any set of clients instead of serving them.
Announce ==
  /\ \E name \in Names : log' = Append(log, [name |-> name, n |-> Len(log) + 1])
  /\ \E cut \in SUBSET {c \in Clients : state[c] = "on"} :
       /\ state' = [c \in Clients |-> IF c \in cut THEN "off" ELSE state[c]]
       /\ left' = [c \in Clients |-> IF c \in cut THEN Len(log) ELSE left[c]]
  /\ UNCHANGED <<joined, replay, got>>

Join(c) ==
  /\ state[c] = "away"
  /\ state' = [state EXCEPT ![c] = "on"]
  /\ joined' = [joined EXCEPT ![c] = Len(log)]
  /\ replay' = [replay EXCEPT ![c] = LastSnapshot(log)]
  /\ UNCHANGED <<log, left, got>>

\* A client that was cut off may still receive what was queued for it.
Receive(c) ==
  /\ state[c] # "away"
  /\ Len(got[c]) < Len(Feed(c))
  /\ got' = [got EXCEPT ![c] = Append(@, Feed(c)[Len(@) + 1])]
  /\ UNCHANGED <<log, joined, left, replay, state>>

Leave(c) ==
  /\ state[c] = "on"
  /\ state' = [state EXCEPT ![c] = "off"]
  /\ left' = [left EXCEPT ![c] = Len(log)]
  /\ UNCHANGED <<log, joined, replay, got>>

StreamNext ==
  \/ Announce
  \/ \E c \in Clients : Join(c) \/ Receive(c) \/ Leave(c)

StreamSpec == StreamInit /\ [][StreamNext]_streamVars
=============================================================================

\* Two connections, a queue of two, three events: a connection may fall behind
\* with and without a replayed snapshot.
SPECIFICATION FairSpec
CONSTANTS
  c1 = c1  c2 = c2
  None = None
  Clients <- TwoClients
  Names <- BothNames
  ClientBuffer = 2
  MaxEvents = 3
INVARIANTS
  TypeOK
  ClosedOnce
  Gapless
  DrainedIsCurrent
PROPERTIES
  ImplementsEventStream
  EventsArrive
  DroppedLeaves
\* All connections may be gone and the bound on events reached.
CHECK_DEADLOCK FALSE

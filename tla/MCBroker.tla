----------------------------- MODULE MCBroker -----------------------------
(* Small instances of Broker. *)
EXTENDS Broker, TLC

CONSTANTS c1, c2

TwoClients == {c1, c2}
OneClient  == {c1}
BothNames  == {"snapshot", "announcement"}
Symmetry   == Permutations(Clients)
=============================================================================

---------------------------- MODULE MCWebSocketHub ----------------------------
(* Small instances of WebSocketHub for TLC. *)
EXTENDS WebSocketHub, TLC

CONSTANTS c1, c2, s1, s2, p1

OneClient == {c1}
TwoClients == {c1, c2}
OneSymbol == {s1}
TwoSymbols == {s1, s2}
NoPublisher == {}
OnePublisher == {p1}

Symmetric == Permutations(Clients)
=============================================================================

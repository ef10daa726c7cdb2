---------------------------- MODULE MCBackpressure ----------------------------
(* Small instances of BackpressureController for TLC. *)
EXTENDS BackpressureController, TLC

CONSTANTS p1, p2, c1, c2, m1, m2, m3, m4

TwoProducers == {p1, p2}
OneConsumer == {c1}
TwoConsumers == {c1, c2}
TwoMessages == {m1, m2}
ThreeMessages == {m1, m2, m3}
FourMessages == {m1, m2, m3, m4}

Symmetric == Permutations(Producers) \cup Permutations(Consumers) \cup Permutations(Messages)
=============================================================================

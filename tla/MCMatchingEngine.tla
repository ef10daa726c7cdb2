--------------------------- MODULE MCMatchingEngine ---------------------------
(* Small instances of MatchingEngine for TLC. *)
EXTENDS MatchingEngineProperties, TLC

CONSTANTS o1, o2, o3, o4, o5, c1

ThreeOrders == {o1, o2, o3}
FourOrders == {o1, o2, o3, o4}
FiveOrders == {o1, o2, o3, o4, o5}
TwoOrders == {o1, o2}
OneCaller == {c1}

\* orders are told apart by nothing but their role
OrderSymmetry == Permutations(Orders)
=============================================================================

----------------------------- MODULE PriceLevels -----------------------------
(***************************************************************************)
(* What a side of the order book needs of the structure that holds its     *)
(* price levels: a set of prices that grows and shrinks by one, and the    *)
(* best price of it at any time.                                           *)
(***************************************************************************)
EXTENDS Integers

CONSTANTS Prices, NoPrice

VARIABLES levels, lowest, highest

vars == <<levels, lowest, highest>>

Reports ==
    /\ lowest' = IF levels' = {} THEN NoPrice ELSE CHOOSE p \in levels' : \A q \in levels' : p <= q
    /\ highest' = IF levels' = {} THEN NoPrice ELSE CHOOSE p \in levels' : \A q \in levels' : p >= q

Init == levels = {} /\ lowest = NoPrice /\ highest = NoPrice

Insert(p) == p \notin levels /\ levels' = levels \cup {p} /\ Reports
Delete(p) == p \in levels /\ levels' = levels \ {p} /\ Reports

Next == \E p \in Prices : Insert(p) \/ Delete(p)
Spec == Init /\ [][Next]_vars
=============================================================================

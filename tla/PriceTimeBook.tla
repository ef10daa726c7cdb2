---------------------------- MODULE PriceTimeBook ----------------------------
(***************************************************************************)
(* What a limit order book promises its clients, without levels, trees or  *)
(* an index: an incoming order trades with the resting orders of the other *)
(* side, the best price first and the oldest first within a price; what is *)
(* left of a limit order rests behind the orders of its price; a canceled  *)
(* order is gone.  MatchingEngineProperties.tla shows that MatchingEngine  *)
(* implements this book.                                                   *)
(***************************************************************************)
EXTENDS Integers

CONSTANTS Orders, Prices, Quantities, None

VARIABLES
    request,   \* the side, type and price of an order that was placed
    open,      \* its quantity still to be traded
    resting,   \* the orders in the book
    ahead,     \* the older orders of its side and price, for a resting order
    incoming   \* the order that is trading now, or None

vars == <<request, open, resting, ahead, incoming>>

Requests == [side : {"Buy", "Sell"}, type : {"Market", "Limit"}, price : Prices]

Init ==
    /\ request = [o \in Orders |-> None]
    /\ open = [o \in Orders |-> 0]
    /\ resting = {}
    /\ ahead = [o \in Orders |-> {}]
    /\ incoming = None

Place(o, r, q) ==
    /\ incoming = None
    /\ request[o] = None
    /\ request' = [request EXCEPT ![o] = r]
    /\ open' = [open EXCEPT ![o] = q]
    /\ incoming' = o
    /\ UNCHANGED <<resting, ahead>>

\* a and b are on one side: a has a strictly better price
Better(a, b) == IF request[a].side = "Buy" THEN request[a].price > request[b].price
                ELSE request[a].price < request[b].price

Acceptable(o, maker) ==
    /\ request[maker].side # request[o].side
    /\ request[o].type = "Limit" =>
          IF request[o].side = "Buy" THEN request[o].price >= request[maker].price
          ELSE request[o].price <= request[maker].price

Candidates == {m \in resting : Acceptable(incoming, m)}

\* nobody has a better price, nobody at this price came earlier
HasPriority(m) ==
    /\ \A x \in Candidates : ~Better(x, m)
    /\ ahead[m] = {}

Leave(o) ==
    /\ resting' = resting \ {o}
    /\ ahead' = [x \in Orders |-> IF x = o THEN {} ELSE ahead[x] \ {o}]

Trade ==
    /\ incoming # None
    /\ open[incoming] > 0
    /\ \E m \in Candidates :
        LET fill == IF open[m] <= open[incoming] THEN open[m] ELSE open[incoming]
        IN  /\ HasPriority(m)
            /\ open' = [open EXCEPT ![m] = @ - fill, ![incoming] = @ - fill]
            /\ IF fill = open[m] THEN Leave(m) ELSE UNCHANGED <<resting, ahead>>
    /\ UNCHANGED <<request, incoming>>

\* nothing is left to trade, or nobody to trade with
Done == incoming # None /\ (open[incoming] = 0 \/ Candidates = {})

Rest ==
    /\ Done
    /\ request[incoming].type = "Limit"
    /\ open[incoming] > 0
    /\ resting' = resting \cup {incoming}
    /\ ahead' = [ahead EXCEPT ![incoming] =
                    {x \in resting : request[x].side = request[incoming].side
                                     /\ request[x].price = request[incoming].price}]
    /\ incoming' = None
    /\ UNCHANGED <<request, open>>

Discard ==
    /\ Done
    /\ request[incoming].type = "Market" \/ open[incoming] = 0
    /\ open' = [open EXCEPT ![incoming] = 0]
    /\ incoming' = None
    /\ UNCHANGED <<request, resting, ahead>>

Cancel(o) ==
    /\ incoming = None
    /\ o \in resting
    /\ Leave(o)
    /\ open' = [open EXCEPT ![o] = 0]
    /\ UNCHANGED <<request, incoming>>

Next ==
    \/ \E o \in Orders, r \in Requests, q \in Quantities : Place(o, r, q)
    \/ Trade
    \/ Rest
    \/ Discard
    \/ \E o \in Orders : Cancel(o)

Spec == Init /\ [][Next]_vars
=============================================================================

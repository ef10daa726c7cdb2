----------------------- MODULE MatchingEngineProperties -----------------------
(***************************************************************************)
(* What MatchingEngine.tla is checked against.  The first group holds      *)
(* whatever the callers do; the second holds as long as no cancel reaches  *)
(* a filled order and no OrderID is used twice; the last property states   *)
(* what the repository says of the engine and the engine does not do.      *)
(***************************************************************************)
EXTENDS MatchingEngine

\* the records of a call, and of a ModifyOrder between its critical sections
CallType == [pc : {"idle", "match", "emit"}, order : Orders \cup {None},
             remaining : Nat, pending : Seq(EventTypes), caller : Callers \cup {None}]
ModifyType == [pc : {"idle", "cancel", "add", "event"}, id : Orders \cup {None},
               original : Orders \cup {None}, price : Prices \cup {0},
               quantity : Quantities \cup {0}, new : Orders \cup {None}]

\* Every variable keeps its type: orders, levels, the index, the call in
\* progress and the event channel within its capacity.
TypeOK ==
    /\ order \in [Orders -> Order \cup {Blank}]
    /\ tree \in [Sides -> SUBSET Orders]
    /\ queue \in [Orders -> Seq(Orders)]
    /\ volume \in [Orders -> Int]
    /\ orderIndex \in [Orders -> Orders \cup {None}]
    /\ level \in [Orders -> Orders \cup {None}]
    /\ call \in CallType
    /\ modify \in [Callers -> ModifyType]
    /\ eventChannel \in Seq([type : EventTypes, order : Orders])
    /\ Len(eventChannel) <= EventCapacity
    /\ closed \in BOOLEAN
    /\ asked \in [Orders -> Nat]
    /\ traded \in [Orders -> Nat]

-----------------------------------------------------------------------------
(* Whatever the callers do.                                                 *)

InQueue(o, l) == \E i \in DOMAIN queue[l] : queue[l][i] = o
Incoming(o) == call.pc = "match" /\ call.order = o

\* No level of a tree is empty: both matching loops give up at an empty best
\* level (engine.go:140, 176), so one would hide all the liquidity behind it.
NoEmptyLevel == \A s \in Sides : \A l \in tree[s] : ~IsEmpty(l)

\* The book is never crossed: every bid is below every ask, between calls
\* and in the middle of one (engine.go:174-198, 200-203).
NotCrossed == \A b \in tree["Buy"], a \in tree["Sell"] : PriceOf(b) < PriceOf(a)

\* No quantity is created or lost: what an order has traded and what it still
\* offers add up to what was asked for, a filled order has traded all of it,
\* and no order ever trades more (engine.go:127-214, tree.go:86-130).
QuantityConserved ==
    \A o \in Orders :
        /\ traded[o] <= asked[o]
        /\ Incoming(o) => traded[o] + call.remaining = asked[o]
        /\ \A l \in Orders : InQueue(o, l) => traded[o] + order[o].quantity = asked[o]
        /\ order[o].status = "Filled" => traded[o] = asked[o]

\* A trade is between one buyer and one seller, moves the same quantity on
\* both sides, and breaks the limit of neither (engine.go:180-191).
FairTrade(b, s) ==
    /\ order[b].side = "Buy" /\ order[s].side = "Sell"
    /\ order[b].type = "Limit" /\ order[s].type = "Limit" =>
          order[b].price >= order[s].price
    /\ LET q == traded'[b] - traded[b]
       IN  q > 0 /\ traded' = [traded EXCEPT ![b] = @ + q, ![s] = @ + q]
TradesAreFair == [][traded' # traded => \E b, s \in Orders : FairTrade(b, s)]_vars

\* An order that was canceled never trades again, even when it was canceled
\* twice, modified, or taken out of the book by the cancel of another order.
CanceledNeverTrades ==
    [][\A o \in Orders : order[o].status = "Canceled" => traded'[o] = traded[o]]_vars

\* Calls end.  The mutex always comes free again, since the matching loops end
\* and a slow or absent reader of the event channel cannot hold a call up
\* (engine.go:418-424); and ModifyOrder, which takes the mutex again and again,
\* gets past its cancel whatever others do to its order (engine.go:274-287).
CallsEnd ==
    /\ []<>MutexFree
    /\ \A c \in Callers : modify[c].pc = "cancel" ~> modify[c].pc \in {"idle", "add"}

\* As long as OrderIDs are not reused, an order and its replacement are never
\* open together: what was looked up is gone before the replacement is placed,
\* whatever happens between the critical sections (engine.go:282-304).
ModifyReplaces ==
    \A c \in Callers :
        modify[c].pc \in {"add", "event"} =>
            \A l \in Orders : ~InQueue(modify[c].original, l)

-----------------------------------------------------------------------------
(* As long as no cancel reaches a filled order and no OrderID is reused.    *)

\* an order was canceled after all of it had traded
FilledCanceled ==
    \E o \in Orders : order[o].status = "Canceled" /\ traded[o] = asked[o]

\* what the orders of a level still offer
Total(l) ==
    LET upTo[n \in 0 .. Len(queue[l])] ==
            IF n = 0 THEN 0 ELSE upTo[n - 1] + order[queue[l][n]].quantity
    IN  upTo[Len(queue[l])]

\* every order at rest is in the queue of a level its tree holds
Resting == UNION {{queue[l][i] : i \in DOMAIN queue[l]} : l \in tree["Buy"] \cup tree["Sell"]}

\* What the outside sees of the book agrees with it: an order the client sees
\* as open is in the book, where it can trade, and under its OrderID in the
\* index, where it can be canceled (engine.go:216-272); and the volume that
\* GetSnapshot reports for a price is the sum of what the orders there still
\* offer ("Total volume at this price level", tree.go:15).
ViewsAgree ==
    FilledCanceled \/
    /\ \A o \in Orders :
          order[o].status \in {"New", "PartiallyFilled"} /\ level[o] # None =>
              o \in Resting /\ GetOrder(order[o].id) = o
    /\ \A s \in Sides : \A row \in GetSnapshot(s) :
          \E l \in Search(s, row.price) : row.quantity = Total(l)

\* what the engine's data structures say of an abstract book: the requests,
\* what is open of each, who came before whom, and who trades now
Request == [o \in Orders |->
              IF ~Born(o) THEN None
              ELSE [side |-> order[o].side, type |-> order[o].type, price |-> order[o].price]]
Open == [o \in Orders |-> IF Incoming(o) THEN call.remaining
                          ELSE IF o \in Resting THEN order[o].quantity ELSE 0]
Ahead == [o \in Orders |->
            IF o \notin Resting THEN {}
            ELSE LET q == queue[level[o]]
                     n == CHOOSE i \in DOMAIN q : q[i] = o
                 IN  {q[i] : i \in 1 .. n - 1}]
Trading == IF call.pc = "match" THEN call.order ELSE None

Book == INSTANCE PriceTimeBook WITH
    request <- Request, open <- Open, resting <- Resting, ahead <- Ahead, incoming <- Trading

\* The engine is a book with price-time priority ("Price-time priority queue
\* implementation", docs/architecture.md:106): every match is with the order
\* that has priority, and every other step keeps the queue of the others.
ImplementsBook ==
    Book!Init /\ [][FilledCanceled \/ FilledCanceled' \/ Book!Next]_(Book!vars)

-----------------------------------------------------------------------------
(* What the repository says and the engine does not do.                     *)

\* "Price-time priority" (docs/architecture.md:106): an order trades only if
\* no open order of its side has a better price.
PricePriority ==
    [][\A m, x \in Orders :
        /\ traded'[m] > traded[m] /\ ~Incoming(m)
        /\ order[x].status \in {"New", "PartiallyFilled"} /\ level[x] # None
        /\ order[x].side = order[m].side
        => NoWorse(order[m].side, order[m].price, order[x].price)]_vars
=============================================================================

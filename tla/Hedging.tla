------------------------------- MODULE Hedging -------------------------------
(***************************************************************************)
(* internal/risk/hedging.go and its two handlers in pkg/api/handlers.go:   *)
(* a client asks for a hedge of a stored portfolio, perhaps within a       *)
(* budget, gets a strategy, and sends it back to have its orders placed.   *)
(*                                                                         *)
(* Quantities and prices are integers; the Greeks of options are in        *)
(* hundredths, as are the risk offsets made with them.  The pricing model  *)
(* and the market are external: the Greeks and prices they come up with    *)
(* are any of a set.  Recommendations and the estimated risk reduction are *)
(* left out, nothing else depends on them.                                 *)
(***************************************************************************)
EXTENDS Integers, Sequences, PortfolioStore

CONSTANTS
    Exposures,      \* Greeks of a portfolio: records [delta, gamma]
    OptionGreeks,   \* of an at-the-money call and put: [cd, cg, pd, pg]
    Markets,        \* prices by instrument, of those that have market data
    Underlyings,    \* what a portfolio may be exposed to most
    Budgets         \* maxBudget of a request, 0 when there is none

Types == {"delta", "delta-gamma", "minimum-variance"}

ASSUME HedgingAssumption ==
    /\ Budgets \subseteq Nat
    /\ \A g \in Exposures : g.delta \in Int /\ g.gamma \in Int
    /\ \A o \in OptionGreeks : {o.cd, o.cg, o.pd, o.pg} \subseteq Int
    /\ \A md \in Markets : \A s \in DOMAIN md : md[s] \in Nat \ {0}

VARIABLES
    request,   \* the strategy asked for and what it was made from
    placed     \* what became of its orders, in their order

hedgeVars == <<request, placed>>

NoRequest == [pc |-> "idle"]

HedgeInit == request = NoRequest /\ placed = <<>>

-----------------------------------------------------------------------------
(* Lots                                                                     *)

Abs(x) == IF x < 0 THEN -x ELSE x

\* math.Round(a / b): to the nearest, halves away from zero
Round(a, b) ==
    LET n == (2 * Abs(a) + Abs(b)) \div (2 * Abs(b))
    IN  IF (a < 0) = (b < 0) THEN n ELSE -n

\* math.Round(q / 100) * 100 of the quantity q = a / b
Lots(a, b) == 100 * Round(a, 100 * b)

Sum(s) == LET upTo[n \in 0 .. Len(s)] == IF n = 0 THEN 0 ELSE upTo[n - 1] + s[n]
          IN  upTo[Len(s)]

-----------------------------------------------------------------------------
(* Strategies                                                               *)

Action(instrument, quantity, price, offset) ==
    [instrument |-> instrument, quantity |-> quantity, price |-> price, offset |-> offset]

Cost(a) == Abs(a.quantity * a.price)
TotalCost(actions) == Sum([i \in DOMAIN actions |-> Cost(actions[i])])

\* an action, if there is anything to do
NonZero(a) == IF a.quantity = 0 THEN <<>> ELSE <<a>>

generateDeltaHedge(g, md) ==
    IF g.delta = 0 \/ "SPY" \notin DOMAIN md THEN <<>>
    ELSE NonZero(Action("SPY", Lots(-g.delta, 1), md["SPY"], g.delta))

\* An at-the-money call and put of the main underlying, at the fixed price of
\* 5, in the quantities the code solves for; without a solution a delta hedge.
generateDeltaGammaHedge(g, md, main, opt) ==
    LET det == opt.cd * opt.pg - opt.cg * opt.pd
        q1  == Lots(100 * (opt.pg * g.delta - opt.pd * g.gamma), det)
        q2  == Lots(100 * (opt.cd * g.gamma - opt.cg * g.delta), det)
    IN  IF (g.delta = 0 /\ g.gamma = 0) \/ main \notin DOMAIN md THEN <<>>
        ELSE IF det = 0 THEN generateDeltaHedge(g, md)
        ELSE NonZero(Action("call", q1, 5, q1 * opt.cd)) \o NonZero(Action("put", q2, 5, q2 * opt.pd))

\* in tenths
Weight == [SPY |-> -6, QQQ |-> -3, TLT |-> -1]

Leg(symbol, g, md) ==
    LET quantity == Lots(-10 * g.delta * Weight[symbol], md[symbol])
    IN  IF symbol \notin DOMAIN md THEN <<>>
        ELSE NonZero(Action(symbol, quantity, md[symbol], quantity))

generateMinimumVarianceHedge(g, md) == Leg("SPY", g, md) \o Leg("QQQ", g, md) \o Leg("TLT", g, md)

GenerateHedgingStrategy(type, g, md, main, opt) ==
    CASE type = "delta"            -> generateDeltaHedge(g, md)
      [] type = "delta-gamma"      -> generateDeltaGammaHedge(g, md, main, opt)
      [] type = "minimum-variance" -> generateMinimumVarianceHedge(g, md)

-----------------------------------------------------------------------------
(* The budget                                                               *)

\* risk offset per dollar
LessEffective(a, b) == Abs(a.offset) * Cost(b) < Abs(b.offset) * Cost(a)

\* The exchange sort of the code: of equal actions the order may change.
Exchanged(s, i, j) == IF LessEffective(s[i], s[j]) THEN [s EXCEPT ![i] = s[j], ![j] = s[i]] ELSE s
Compared(s, i) ==
    LET upTo[j \in 0 .. Len(s)] == IF j <= i THEN s ELSE Exchanged(upTo[j - 1], i, j)
    IN  upTo[Len(s)]
ByEffectiveness(actions) ==
    LET upTo[i \in 0 .. Len(actions)] == IF i = 0 THEN actions ELSE Compared(upTo[i - 1], i)
    IN  upTo[Len(actions)]

\* the part of an action that the rest of the budget pays for, to the nearest
\* lot; nobody reads its risk offset any more
ScaledDown(a, rest) ==
    IF rest <= 0 THEN <<>>
    ELSE NonZero([a EXCEPT !.quantity = Lots(a.quantity * rest, Cost(a))])

\* how many of the actions the budget pays for
Fitting(actions, max) ==
    CHOOSE n \in 0 .. Len(actions) :
        /\ TotalCost(SubSeq(actions, 1, n)) <= max
        /\ n < Len(actions) => TotalCost(SubSeq(actions, 1, n + 1)) > max

\* (faulty variant: the whole budget for the action that is scaled down)
ForgetsSpent(actions, max) ==
    LET sorted == ByEffectiveness(actions)
        fit    == Fitting(sorted, max)
    IN  SubSeq(sorted, 1, fit) \o
        (IF fit = Len(sorted) THEN <<>> ELSE ScaledDown(sorted[fit + 1], max))

\* The most effective actions as long as the budget lasts, and what fits of the
\* first that does not fit.
OptimizeHedgingStrategy(actions, max) ==
    LET sorted == ByEffectiveness(actions)
        fit    == Fitting(sorted, max)
        rest   == max - TotalCost(SubSeq(sorted, 1, fit))
    IN  SubSeq(sorted, 1, fit) \o
        (IF fit = Len(sorted) THEN <<>> ELSE ScaledDown(sorted[fit + 1], rest))

-----------------------------------------------------------------------------
(* The handlers                                                             *)

\* A portfolio that is not found, or a market without data, is answered with an
\* error, and nothing changes.
GenerateHedgingStrategyHandler(id, type, max) ==
    \E g \in Exposures, md \in Markets, main \in Underlyings, opt \in OptionGreeks :
        LET strategy == GenerateHedgingStrategy(type, g, md, main, opt) IN
        /\ request.pc = "idle"
        /\ GetPortfolio(id) # None
        /\ request' = [pc |-> "answered", type |-> type, max |-> max, greeks |-> g,
                       whole |-> strategy,
                       actions |-> IF max > 0 /\ TotalCost(strategy) > max
                                   THEN OptimizeHedgingStrategy(strategy, max) ELSE strategy]
        /\ UNCHANGED placed

\* The client sends the strategy it was given; one without actions is refused,
\* and asks for another.
CreateHedgingStrategyHandler ==
    /\ request.pc = "answered"
    /\ request' = IF request.actions = <<>> THEN NoRequest ELSE [request EXCEPT !.pc = "placing"]
    /\ UNCHANGED placed

ImplementHedgingStrategy(a) ==
    [instrument |-> a.instrument, side |-> IF a.quantity > 0 THEN "Buy" ELSE "Sell",
     quantity |-> Abs(a.quantity)]

\* An order that fails is noted and the next one is placed.  (With the adapter
\* of cmd/api every order fails.)
PlaceOrder ==
    /\ request.pc = "placing" /\ Len(placed) < Len(request.actions)
    /\ \E ok \in BOOLEAN :
        placed' = Append(placed, [ok |-> ok,
                    order |-> ImplementHedgingStrategy(request.actions[Len(placed) + 1])])
    /\ UNCHANGED request

Answer ==
    /\ request.pc = "placing" /\ Len(placed) = Len(request.actions)
    /\ request' = NoRequest
    /\ placed' = <<>>

HedgeNext ==
    \/ \E id \in IDs, type \in Types, max \in Budgets :
            GenerateHedgingStrategyHandler(id, type, max)
    \/ CreateHedgingStrategyHandler \/ PlaceOrder \/ Answer

-----------------------------------------------------------------------------

\* what an order that was placed adds to the position
Bought(r) == IF ~r.ok THEN 0
             ELSE IF r.order.side = "Buy" THEN r.order.quantity ELSE -r.order.quantity

\* A hedge costs no more than its budget and half a lot, to which its last
\* action is rounded; and a delta hedge, whole or cut down, its one order placed
\* or refused, never leaves the portfolio with more delta than it had
\* (hedging.go:151-155, 461-497, 526-532; handlers.go:352-402).
HedgeHelps ==
    request.pc # "idle" =>
        LET as == request.actions IN
        /\ request.max > 0 /\ as # <<>> =>
              TotalCost(as) <= request.max + 50 * as[Len(as)].price
        /\ request.type = "delta" =>
              Abs(request.greeks.delta + Sum([i \in DOMAIN placed |-> Bought(placed[i])]))
                  <= Abs(request.greeks.delta)

\* "q1 * callDelta + q2 * putDelta = -netDelta" (hedging.go:261): up to half a
\* lot of each option, the two options of a delta-gamma hedge take away the net
\* delta.
SolvesTheSystem ==
    request.pc # "idle" /\ request.type = "delta-gamma" /\ Len(request.whole) = 2 =>
        LET call == request.whole[1]
            put  == request.whole[2]
        IN  Abs(call.offset + put.offset + 100 * request.greeks.delta)
                <= 50 * (Abs(call.offset \div call.quantity) + Abs(put.offset \div put.quantity))
=============================================================================

----------------------------- MODULE RiskEngine -----------------------------
(***************************************************************************)
(* cmd/risk-engine: one goroutine saves the portfolios that arrive and     *)
(* computes their metrics, another computes those of every portfolio at    *)
(* each tick.  Both send to the topic of risk metrics.                     *)
(*                                                                         *)
(* A message that is no portfolio, or one without an ID, changes nothing.  *)
(***************************************************************************)
EXTENDS RiskCalculator

CONSTANT MaxUpdates   \* bound: portfolios that arrive

Loops == {"updates", "ticks"}

ASSUME LoopsCall == Callers = Loops

VARIABLES
    todo,        \* per loop: the portfolios it has yet to compute
    arrived,     \* messages taken from the portfolio consumer
    main,        \* "running", or "stopping" after the signal
    published    \* the metrics sent last for a portfolio

engineVars == <<calc, todo, arrived, main, published>>

EngineInit ==
    /\ CalcInit
    /\ todo = [c \in Loops |-> {}]
    /\ arrived = 0
    /\ main = "running"
    /\ published = [id \in IDs |-> None]

Resting(c) == calc[c].pc = "idle" /\ todo[c] = {}

-----------------------------------------------------------------------------

\* ConsumeMessage, SavePortfolio
Update(p) ==
    /\ main = "running"
    /\ Resting("updates")
    /\ arrived < MaxUpdates
    /\ arrived' = arrived + 1
    /\ SavePortfolio(p)
    /\ todo' = [todo EXCEPT !["updates"] = {p.id}]
    /\ UNCHANGED <<calc, main, published>>

\* The list is what the store holds at the tick; the map gives it in any order.
Tick ==
    /\ Resting("ticks")
    /\ todo' = [todo EXCEPT !["ticks"] = GetAllPortfolios]
    /\ UNCHANGED <<portfolios, calc, arrived, main, published>>

\* Only the ID of the list is used: the portfolio is read again.
NextPortfolio(c) ==
    \E id \in todo[c] :
        /\ CalculateRiskMetrics(c, id)
        /\ todo' = [todo EXCEPT ![c] = @ \ {id}]
        /\ UNCHANGED <<portfolios, arrived, main, published>>

\* the metrics of a call that has returned
Metrics(c) == [of |-> calc[c].of, risks |-> calc[c].risks]

\* json.Marshal, ProduceMessage
Produce(c) ==
    /\ calc[c].pc = "done"
    /\ Encodable(calc[c].of)
    /\ published' = [published EXCEPT ![calc[c].of.id] = Metrics(c)]
    /\ calc' = [calc EXCEPT ![c] = NoCall]
    /\ UNCHANGED <<portfolios, todo, arrived, main>>

\* (faulty variant: an error ends the round instead of the portfolio's turn)
FailureEndsRound(c) ==
    /\ calc[c].pc = "done"
    /\ calc' = [calc EXCEPT ![c] = NoCall]
    /\ todo' = [todo EXCEPT ![c] = {}]
    /\ UNCHANGED <<portfolios, arrived, main, published>>
\* Marshal finds no JSON for the metrics, or the producer's queue is full: the
\* loop goes on with what comes next.
ProduceFails(c) ==
    /\ calc[c].pc = "done"
    /\ calc' = [calc EXCEPT ![c] = NoCall]
    /\ UNCHANGED <<portfolios, todo, arrived, main, published>>

Compute(c) == CalcStep(c) /\ UNCHANGED <<portfolios, todo, arrived, main, published>>

\* The signal: the consumer is closed, and Stop of the market processor waits
\* for goroutines that wait for a context nobody has canceled.  What comes
\* after it is not reached; the ticks go on.
Signal ==
    /\ main = "running"
    /\ main' = "stopping"
    /\ UNCHANGED <<portfolios, calc, todo, arrived, published>>

EngineNext ==
    \/ \E p \in Portfolios : Update(p)
    \/ Tick
    \/ Signal
    \/ \E c \in Loops : NextPortfolio(c) \/ Compute(c) \/ Produce(c) \/ ProduceFails(c)

\* Every goroutine runs on, and the queue of the producer has room time and
\* again: a portfolio that is tried at every tick is sent in the end.
EngineFairness ==
    LET v == <<portfolios, engineVars>> IN
    /\ WF_v(Tick)
    /\ \A c \in Loops :
        /\ WF_v(NextPortfolio(c))
        /\ WF_v(Compute(c))
        /\ WF_v(Produce(c) \/ ProduceFails(c))
    /\ \A id \in IDs : SF_v(Produce("ticks") /\ calc["ticks"].of.id = id)

-----------------------------------------------------------------------------

\* one risk for each symbol of p that counts, from a position of that symbol
Complete(p, risks) ==
    \A s \in Symbols :
        LET own == {i \in Counted(p) : p.positions[i].symbol = s}
        IN  IF own = {} THEN risks[s] = None
            ELSE \E i \in own : risks[s] = PositionRisk(p, i)

\* The metrics that leave the engine are those of one version of one portfolio,
\* with a risk for each of its symbols the calculator has data for and for no
\* other, each taken from a position of that symbol: no worker is missed, and
\* calls that run at the same time do not mix (calculator.go:211-280).
MetricsOfOnePortfolio ==
    \A id \in IDs : published[id] # None =>
        Complete(published[id].of, published[id].risks)

\* The two loops may send in the wrong order, an older version after a newer
\* one; the ticks see to it that the metrics sent last are again and again those
\* of the portfolio that is stored, if they can be sent at all (main.go:126-218).
MetricsCatchUp ==
    \A id \in IDs :
        []<>(\/ portfolios[id] = None
             \/ ~Encodable(portfolios[id])
             \/ published[id] # None /\ published[id].of = portfolios[id])
=============================================================================

--------------------------- MODULE RiskCalculator ---------------------------
(***************************************************************************)
(* CalculateRiskMetrics of internal/risk/calculator.go, called by several  *)
(* goroutines: each call starts its own workers, closes its own channels   *)
(* and collects the risks of the positions into a map by symbol.           *)
(*                                                                         *)
(* A position is [symbol, size, value]: its quantity, and that times the   *)
(* last price.  VaR and expected shortfall are left to the sign of what    *)
(* they are computed from, which decides whether a metric is a number.     *)
(***************************************************************************)
EXTENDS Integers, FiniteSets, SequencesExt, PortfolioStore

CONSTANTS
    Callers,       \* goroutines that call CalculateRiskMetrics
    Symbols,
    History,       \* symbols the historical data store answers for
    WorkerCount    \* workers of a call

ASSUME CalculatorAssumption ==
    /\ History \subseteq Symbols
    /\ WorkerCount \in Nat \ {0}
    /\ \A p \in Portfolios :
          p.positions \in Seq([symbol : Symbols, size : Int, value : Int])

VARIABLE calc      \* per caller: its call

NoRisks == [s \in Symbols |-> None]

NoCall == [pc |-> "idle", of |-> None, jobs |-> {}, workers |-> 0, busy |-> {},
           results |-> <<>>, closed |-> FALSE, risks |-> NoRisks]

CalcInit == calc = [c \in Callers |-> NoCall]

-----------------------------------------------------------------------------
(* A portfolio                                                              *)

\* Positions without returns or prices are skipped, everywhere.
Counted(p) == {i \in 1 .. Len(p.positions) : p.positions[i].symbol \in History}

\* the sum over the positions, also those that share a symbol
TotalValue(p) ==
    FoldLeft(LAMBDA sum, x : IF x.symbol \in History THEN sum + x.value ELSE sum,
             0, p.positions)

\* positionValues: the last position of a symbol overwrites the others
PositionValue(p, s) ==
    FoldLeft(LAMBDA v, x : IF x.symbol = s THEN x.value ELSE v, 0, p.positions)

\* Without a positive total there are no portfolio returns, the portfolio's
\* shortfall is 0, and ...
ShortfallIsZero(p) == TotalValue(p) <= 0

\* ... every contribution divides by it: the NaN or Inf that comes out has no
\* JSON, so the metrics of such a portfolio cannot be sent.
Encodable(p) == Counted(p) = {} \/ ~ShortfallIsZero(p)

\* what a worker makes of position i
PositionRisk(p, i) ==
    [size |-> p.positions[i].size, value |-> PositionValue(p, p.positions[i].symbol)]

-----------------------------------------------------------------------------
(* A call                                                                   *)

\* The portfolio is read once.  The jobs channel has room for every position:
\* the jobs are submitted and the channel closed without waiting for a worker.
\* (The callers ask for stored portfolios, so GetPortfolio does not fail.)
CalculateRiskMetrics(c, id) ==
    LET p == GetPortfolio(id) IN
    /\ calc[c].pc = "idle"
    /\ p # None
    /\ calc' = [calc EXCEPT ![c] = [NoCall EXCEPT
            !.pc = "collect", !.of = p, !.jobs = Counted(p),
            !.workers = IF Len(p.positions) < WorkerCount THEN Len(p.positions) ELSE WorkerCount]]

IdleWorker(c) == Cardinality(calc[c].busy) < calc[c].workers

\* the jobs come in the order of the positions
TakeJob(c) ==
    /\ IdleWorker(c)
    /\ \E i \in calc[c].jobs :
        /\ \A k \in calc[c].jobs : i <= k
        /\ calc' = [calc EXCEPT ![c] = [calc[c] EXCEPT
                        !.busy = calc[c].busy \cup {i}, !.jobs = calc[c].jobs \ {i}]]

FinishJob(c) ==
    \E i \in calc[c].busy :
        calc' = [calc EXCEPT ![c] = [calc[c] EXCEPT
                    !.busy = calc[c].busy \ {i}, !.results = Append(calc[c].results, i)]]

\* the jobs are closed and there is none left: wg.Done
WorkerEnds(c) ==
    /\ IdleWorker(c)
    /\ calc[c].jobs = {}
    /\ calc' = [calc EXCEPT ![c] = [calc[c] EXCEPT !.workers = calc[c].workers - 1]]

\* (faulty variant: the results are closed with the last job, not the last worker)
ClosesEarly(c) ==
    /\ calc[c].pc = "collect" /\ ~calc[c].closed
    /\ calc[c].jobs = {}
    /\ calc' = [calc EXCEPT ![c].closed = TRUE]
\* the goroutine that waits for the WaitGroup
CloseResults(c) ==
    /\ calc[c].pc = "collect" /\ ~calc[c].closed
    /\ calc[c].workers = 0
    /\ calc' = [calc EXCEPT ![c] = [calc[c] EXCEPT !.closed = TRUE]]

\* Of two positions of a symbol, the result that comes last stays.
Collect(c) ==
    LET p == calc[c].of
        i == Head(calc[c].results)
    IN
    /\ calc[c].results # <<>>
    /\ calc[c].pc = "collect"
    /\ calc' = [calc EXCEPT ![c] = [calc[c] EXCEPT
                    !.results = Tail(calc[c].results),
                    !.risks = [calc[c].risks EXCEPT
                                ![p.positions[i].symbol] = PositionRisk(p, i)]]]

\* the range over the results ends: CalculateRiskMetrics returns
Collected(c) ==
    /\ calc[c].pc = "collect"
    /\ calc[c].closed /\ calc[c].results = <<>>
    /\ calc' = [calc EXCEPT ![c] = [calc[c] EXCEPT !.pc = "done"]]

CalcStep(c) ==
    \/ TakeJob(c) \/ FinishJob(c) \/ WorkerEnds(c)
    \/ CloseResults(c) \/ Collect(c) \/ Collected(c)
=============================================================================

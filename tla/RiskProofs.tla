----------------------------- MODULE RiskProofs -----------------------------
(***************************************************************************)
(* Every call of CalculateRiskMetrics returns complete metrics, whatever   *)
(* the number of workers, positions, symbols and portfolios, and so does   *)
(* what the two loops send.  A hedge keeps to its budget, and a delta      *)
(* hedge never adds to the delta, for all prices and exposures.            *)
(***************************************************************************)
EXTENDS RiskService, FiniteSetTheorems, SequenceTheorems, WellFoundedInduction, TLAPS

\* the risks there may be
Risks == {None} \cup {PositionRisk(p, i) : p \in Portfolios, i \in Nat}

Calls == [pc : {"idle", "collect", "done"}, of : Portfolios \cup {None},
          jobs : SUBSET Nat, workers : Nat, busy : SUBSET Nat,
          results : Seq(Nat), closed : BOOLEAN, risks : [Symbols -> Risks]]

RiskTypeOK ==
    /\ portfolios \in [IDs -> Portfolios \cup {None}]
    /\ calc \in [Callers -> Calls]
    /\ todo \in [Loops -> SUBSET IDs]
    /\ published \in [IDs -> {None} \cup [of : Portfolios, risks : [Symbols -> Risks]]]

In(s) == {s[n] : n \in DOMAIN s}

\* the symbol of i has a risk, from a position of that symbol
HasRisk(k, i) ==
    \E j \in Counted(k.of) :
        /\ k.of.positions[j].symbol = k.of.positions[i].symbol
        /\ k.risks[k.of.positions[i].symbol] = PositionRisk(k.of, j)

\* Of a call k: a position is waiting, being worked on, on its way to the
\* collector, or its symbol has a risk; and the results are not closed while a
\* worker is left, nor are all workers gone while there are jobs.
Working(k) ==
    /\ k.of \in Portfolios
    /\ k.jobs \cup k.busy \cup In(k.results) \subseteq Counted(k.of)
    /\ k.workers = 0 => k.jobs = {}
    /\ k.closed => k.workers = 0
    /\ k.pc = "done" => k.closed /\ k.results = <<>>
    /\ \A i \in Counted(k.of) : i \in k.jobs \cup k.busy \cup In(k.results) \/ HasRisk(k, i)
    /\ \A s \in Symbols :
          (\A i \in Counted(k.of) : k.of.positions[i].symbol # s) => k.risks[s] = None

CallInv(k) ==
    /\ IsFiniteSet(k.busy)
    /\ Cardinality(k.busy) <= k.workers
    /\ k.pc = "idle" => k = NoCall
    /\ k.pc # "idle" => Working(k)

RiskInv ==
    /\ RiskTypeOK
    /\ \A c \in Callers : CallInv(calc[c])
    /\ MetricsOfOnePortfolio

-----------------------------------------------------------------------------
(* Sequences of results and positions                                       *)

LEMMA InAppend ==
    ASSUME NEW s \in Seq(Nat), NEW i \in Nat
    PROVE  /\ Append(s, i) \in Seq(Nat)
           /\ In(Append(s, i)) = In(s) \cup {i}
<1> DEFINE t == Append(s, i)
<1>1. /\ t \in Seq(Nat) /\ Len(s) \in Nat /\ Len(t) = Len(s) + 1
      /\ t[Len(s) + 1] = i /\ \A n \in 1 .. Len(s) : t[n] = s[n]
  OBVIOUS
<1>2. DOMAIN s = 1 .. Len(s) /\ DOMAIN t = 1 .. Len(t)
  BY <1>1
<1> HIDE DEF t
<1>3. In(t) \subseteq In(s) \cup {i}
  <2>1. ASSUME NEW n \in DOMAIN t PROVE n = Len(s) + 1 \/ (n \in DOMAIN s /\ t[n] = s[n])
    BY <1>1, <1>2
  <2> QED
    BY <1>1, <2>1 DEF In
<1>4. In(s) \cup {i} \subseteq In(t)
  BY <1>1, <1>2 DEF In
<1> QED BY <1>1, <1>3, <1>4 DEF t

LEMMA InTail ==
    ASSUME NEW s \in Seq(Nat), s # <<>>
    PROVE  /\ Head(s) \in Nat /\ Tail(s) \in Seq(Nat)
           /\ Head(s) \in In(s)
           /\ In(s) = {Head(s)} \cup In(Tail(s))
<1> DEFINE t == Tail(s)
<1>1. /\ t \in Seq(Nat) /\ Len(s) \in Nat \ {0} /\ Len(t) = Len(s) - 1
      /\ Head(s) = s[1] /\ Head(s) \in Nat /\ \A n \in 1 .. Len(t) : t[n] = s[n + 1]
  OBVIOUS
<1>2. DOMAIN s = 1 .. Len(s) /\ DOMAIN t = 1 .. Len(t)
  BY <1>1
<1> HIDE DEF t
<1>3. {Head(s)} \cup In(t) \subseteq In(s)
  <2>1. Head(s) \in In(s)
    <3>1. 1 \in DOMAIN s
      BY <1>1, <1>2
    <3>2. s[1] \in In(s)
      BY <3>1 DEF In
    <3> QED BY <1>1, <3>2
  <2>2. ASSUME NEW n \in DOMAIN t PROVE t[n] \in In(s)
    <3>1. n \in 1 .. Len(t) /\ Len(t) = Len(s) - 1 /\ Len(s) \in Nat
      BY <1>1, <1>2
    <3>2. n + 1 \in 1 .. Len(s)
      BY <3>1
    <3>3. n + 1 \in DOMAIN s /\ t[n] = s[n + 1]
      BY <1>1, <1>2, <3>1, <3>2
    <3> QED BY <3>3 DEF In
  <2> QED BY <2>1, <2>2 DEF In
<1>4. In(s) \subseteq {Head(s)} \cup In(t)
  <2> SUFFICES ASSUME NEW n \in DOMAIN s PROVE s[n] \in {Head(s)} \cup In(t)
    BY DEF In
  <2>1. CASE n = 1
    BY <1>1, <2>1
  <2>2. CASE n # 1
    <3> DEFINE m == n - 1
    <3>1. m \in 1 .. Len(t) /\ m + 1 = n
      BY <1>1, <1>2, <2>2
    <3> HIDE DEF m
    <3>2. t[m] = s[n]
      BY <1>1, <3>1
    <3> QED BY <1>2, <3>1, <3>2 DEF In
  <2> QED BY <2>1, <2>2
<1> QED BY <1>1, <1>3, <1>4 DEF t, In

LEMMA InEmpty == In(<<>>) = {}
BY DEF In

LEMMA CountedPositions ==
    ASSUME NEW p \in Portfolios, NEW i \in Counted(p)
    PROVE  i \in Nat /\ p.positions[i].symbol \in Symbols /\ PositionRisk(p, i) \in Risks
<1>1. p.positions \in Seq([symbol : Symbols, size : Int, value : Int])
  BY CalculatorAssumption
<1>2. i \in 1 .. Len(p.positions)
  BY DEF Counted
<1>3. i \in Nat /\ p.positions[i] \in [symbol : Symbols, size : Int, value : Int]
  <2> DEFINE q == p.positions
             R == [symbol : Symbols, size : Int, value : Int]
  <2>1. q \in Seq(R) /\ i \in 1 .. Len(q)
    BY <1>1, <1>2
  <2> HIDE DEF q, R
  <2>2. q[i] \in R
    BY <2>1
  <2> QED BY <1>2, <2>2 DEF q, R
<1>4. p.positions[i].symbol \in Symbols
  BY <1>3
<1> QED BY <1>3, <1>4 DEF Risks

-----------------------------------------------------------------------------
(* The steps of a call                                                      *)

LEMMA NoCallIsFine == NoCall \in Calls /\ CallInv(NoCall)
<1>1. NoRisks \in [Symbols -> Risks]
  BY DEF NoRisks, Risks
<1>2. IsFiniteSet({}) /\ Cardinality({}) = 0
  BY FS_EmptySet
<1> QED BY <1>1, <1>2 DEF NoCall, Calls, CallInv

\* Begun(p) is the call CalculateRiskMetrics starts for p.
Workers(p) == IF Len(p.positions) < WorkerCount THEN Len(p.positions) ELSE WorkerCount
Begun(p) ==
    [NoCall EXCEPT !.pc = "collect", !.of = p, !.jobs = Counted(p), !.workers = Workers(p)]

LEMMA BeginCall ==
    ASSUME NEW p \in Portfolios
    PROVE  Begun(p) \in Calls /\ CallInv(Begun(p))
<1> DEFINE k == Begun(p)
<1>1. /\ NoCall \in Calls /\ NoCall.busy = {} /\ NoCall.results = <<>>
      /\ NoCall.closed = FALSE /\ NoCall.risks = NoRisks
  BY NoCallIsFine DEF NoCall
<1>2. Len(p.positions) \in Nat /\ WorkerCount \in Nat \ {0}
  BY CalculatorAssumption
<1>3. Workers(p) \in Nat /\ (Workers(p) = 0 => Counted(p) = {}) /\ Counted(p) \subseteq Nat
  BY <1>2 DEF Counted, Workers
<1>4. \A s \in Symbols : NoRisks[s] = None
  BY DEF NoRisks
<1>5. IsFiniteSet({}) /\ Cardinality({}) = 0
  BY FS_EmptySet
<1>6. k \in Calls
  BY <1>1, <1>3 DEF Calls, Begun
<1>7. /\ k.pc = "collect" /\ k.of = p /\ k.jobs = Counted(p) /\ k.workers = Workers(p)
      /\ k.busy = NoCall.busy /\ k.results = NoCall.results /\ k.closed = NoCall.closed
      /\ k.risks = NoCall.risks
  BY <1>1 DEF Calls, Begun
<1> HIDE DEF k
<1>8. Working(k)
  BY <1>1, <1>3, <1>4, <1>7, InEmpty DEF Working
<1>9. CallInv(k)
  BY <1>1, <1>3, <1>5, <1>7, <1>8 DEF CallInv
<1> QED BY <1>6, <1>9 DEF k

\* What a step that keeps the portfolio and the risks of a running call must keep.
LEMMA SameRisks ==
    ASSUME NEW k, NEW l, Working(k), l.of = k.of, l.risks = k.risks, l.pc = k.pc,
           l.jobs \cup l.busy \cup In(l.results) = k.jobs \cup k.busy \cup In(k.results),
           l.workers = 0 => l.jobs = {}, l.closed => l.workers = 0,
           l.pc = "done" => l.closed /\ l.results = <<>>
    PROVE  Working(l)
BY DEF Working, HasRisk

LEMMA TakeJobCall ==
    ASSUME NEW k \in Calls, CallInv(k), Cardinality(k.busy) < k.workers, NEW i \in k.jobs
    PROVE  LET l == [k EXCEPT !.busy = k.busy \cup {i}, !.jobs = k.jobs \ {i}]
           IN  l \in Calls /\ CallInv(l)
<1> DEFINE l == [k EXCEPT !.busy = k.busy \cup {i}, !.jobs = k.jobs \ {i}]
<1>1. l \in Calls
  BY DEF Calls
<1>2. /\ l.busy = k.busy \cup {i} /\ l.jobs = k.jobs \ {i} /\ l.pc = k.pc /\ l.of = k.of
      /\ l.workers = k.workers /\ l.results = k.results /\ l.closed = k.closed
      /\ l.risks = k.risks
  BY DEF Calls
<1>3. k.pc # "idle"
  BY DEF CallInv, NoCall
<1>4. Working(k) /\ k.workers \in Nat /\ IsFiniteSet(k.busy)
  BY <1>3 DEF CallInv, Calls
<1>5. IsFiniteSet(l.busy) /\ Cardinality(l.busy) <= Cardinality(k.busy) + 1
  <2>1. /\ IsFiniteSet(k.busy \cup {i})
        /\ Cardinality(k.busy \cup {i}) =
              IF i \in k.busy THEN Cardinality(k.busy) ELSE Cardinality(k.busy) + 1
    BY <1>4, FS_AddElement
  <2>2. Cardinality(k.busy) \in Nat
    BY <1>4, FS_CardinalityType
  <2> QED BY <1>2, <2>1, <2>2
<1>6. Cardinality(l.busy) \in Nat /\ Cardinality(k.busy) \in Nat
  BY <1>4, <1>5, FS_CardinalityType
<1> HIDE DEF l
<1>7. l.jobs \cup l.busy \cup In(l.results) = k.jobs \cup k.busy \cup In(k.results)
  BY <1>2
<1>8. /\ l.workers = 0 => l.jobs = {}
      /\ l.closed => l.workers = 0
      /\ l.pc = "done" => l.closed /\ l.results = <<>>
  BY <1>2, <1>4 DEF Working
<1>9. Working(l)
  BY <1>2, <1>4, <1>7, <1>8, SameRisks
<1>10. Cardinality(l.busy) <= l.workers
  BY <1>2, <1>4, <1>5, <1>6
<1>11. CallInv(l)
  BY <1>2, <1>3, <1>5, <1>9, <1>10 DEF CallInv
<1> QED BY <1>1, <1>11 DEF l

LEMMA FinishJobCall ==
    ASSUME NEW k \in Calls, CallInv(k), NEW i \in k.busy
    PROVE  LET l == [k EXCEPT !.busy = k.busy \ {i}, !.results = Append(k.results, i)]
           IN  l \in Calls /\ CallInv(l)
<1> DEFINE l == [k EXCEPT !.busy = k.busy \ {i}, !.results = Append(k.results, i)]
<1>1. /\ k.results \in Seq(Nat) /\ i \in Nat /\ k.workers \in Nat
      /\ Append(k.results, i) \in Seq(Nat)
      /\ In(Append(k.results, i)) = In(k.results) \cup {i}
  BY InAppend DEF Calls
<1>2. l \in Calls
  BY <1>1 DEF Calls
<1>3. /\ l.busy = k.busy \ {i} /\ l.jobs = k.jobs /\ l.pc = k.pc /\ l.of = k.of
      /\ l.workers = k.workers /\ l.results = Append(k.results, i) /\ l.closed = k.closed
      /\ l.risks = k.risks
  BY DEF Calls
<1>4. k.pc # "idle"
  BY DEF CallInv, NoCall
<1>5. Working(k) /\ IsFiniteSet(k.busy) /\ Cardinality(k.busy) <= k.workers
  BY <1>4 DEF CallInv
<1>6. IsFiniteSet(l.busy) /\ Cardinality(l.busy) = Cardinality(k.busy) - 1
  BY <1>3, <1>5, FS_RemoveElement
<1>7. Cardinality(k.busy) \in Nat /\ k.busy # {}
  BY <1>5, FS_CardinalityType
<1>8. k.workers # 0
  BY <1>5, <1>7, FS_EmptySet
<1> HIDE DEF l
<1>9. l.jobs \cup l.busy \cup In(l.results) = k.jobs \cup k.busy \cup In(k.results)
  BY <1>1, <1>3
<1>10. /\ l.workers = 0 => l.jobs = {}
       /\ l.closed => l.workers = 0
       /\ l.pc = "done" => l.closed /\ l.results = <<>>
  BY <1>3, <1>5, <1>8 DEF Working
<1>11. Working(l)
  BY <1>3, <1>5, <1>9, <1>10, SameRisks
<1>12. Cardinality(l.busy) <= l.workers
  BY <1>1, <1>3, <1>5, <1>6, <1>7
<1>13. CallInv(l)
  BY <1>3, <1>4, <1>6, <1>11, <1>12 DEF CallInv
<1> QED BY <1>2, <1>13 DEF l

LEMMA WorkerEndsCall ==
    ASSUME NEW k \in Calls, CallInv(k), Cardinality(k.busy) < k.workers, k.jobs = {}
    PROVE  LET l == [k EXCEPT !.workers = k.workers - 1]
           IN  l \in Calls /\ CallInv(l)
<1> DEFINE l == [k EXCEPT !.workers = k.workers - 1]
<1>1. Cardinality(k.busy) \in Nat /\ k.workers \in Nat /\ IsFiniteSet(k.busy)
  BY FS_CardinalityType DEF CallInv, Calls
<1>2. k.workers # 0 /\ k.workers - 1 \in Nat
  BY <1>1
<1>3. l \in Calls
  BY <1>2 DEF Calls
<1>4. /\ l.busy = k.busy /\ l.jobs = k.jobs /\ l.pc = k.pc /\ l.of = k.of
      /\ l.workers = k.workers - 1 /\ l.results = k.results /\ l.closed = k.closed
      /\ l.risks = k.risks
  BY DEF Calls
<1>5. k.pc # "idle"
  BY <1>2 DEF CallInv, NoCall
<1>6. Working(k)
  BY <1>5 DEF CallInv
<1> HIDE DEF l
<1>7. /\ l.workers = 0 => l.jobs = {}
      /\ l.closed => l.workers = 0
      /\ l.pc = "done" => l.closed /\ l.results = <<>>
  BY <1>2, <1>4, <1>6 DEF Working
<1>8. l.jobs \cup l.busy \cup In(l.results) = k.jobs \cup k.busy \cup In(k.results)
  BY <1>4
<1>9. Working(l)
  BY <1>4, <1>6, <1>7, <1>8, SameRisks
<1>10. CallInv(l)
  BY <1>1, <1>4, <1>5, <1>9 DEF CallInv
<1> QED BY <1>3, <1>10 DEF l

LEMMA CloseResultsCall ==
    ASSUME NEW k \in Calls, CallInv(k), k.pc = "collect", k.workers = 0
    PROVE  LET l == [k EXCEPT !.closed = TRUE]
           IN  l \in Calls /\ CallInv(l)
<1> DEFINE l == [k EXCEPT !.closed = TRUE]
<1>1. l \in Calls
  BY DEF Calls
<1>2. /\ l.busy = k.busy /\ l.jobs = k.jobs /\ l.pc = k.pc /\ l.of = k.of
      /\ l.workers = k.workers /\ l.results = k.results /\ l.closed = TRUE
      /\ l.risks = k.risks
  BY DEF Calls
<1>3. Working(k)
  BY DEF CallInv
<1> HIDE DEF l
<1>4. l.pc # "done" /\ (l.workers = 0 => l.jobs = {})
  BY <1>2, <1>3 DEF Working
<1>5. l.jobs \cup l.busy \cup In(l.results) = k.jobs \cup k.busy \cup In(k.results)
  BY <1>2
<1>6. Working(l)
  BY <1>2, <1>3, <1>4, <1>5, SameRisks
<1>7. CallInv(l)
  BY <1>2, <1>6 DEF CallInv
<1> QED BY <1>1, <1>7 DEF l

LEMMA CollectCall ==
    ASSUME NEW k \in Calls, CallInv(k), k.pc = "collect", k.results # <<>>
    PROVE  LET i == Head(k.results)
               l == [k EXCEPT !.results = Tail(k.results),
                              !.risks = [k.risks EXCEPT
                                    ![k.of.positions[i].symbol] = PositionRisk(k.of, i)]]
           IN  l \in Calls /\ CallInv(l)
<1> DEFINE i == Head(k.results)
           s == k.of.positions[i].symbol
           r == [k.risks EXCEPT ![s] = PositionRisk(k.of, i)]
           l == [k EXCEPT !.results = Tail(k.results), !.risks = r]
<1>1. /\ k.results \in Seq(Nat) /\ i \in Nat /\ Tail(k.results) \in Seq(Nat)
      /\ i \in In(k.results) /\ In(k.results) = {i} \cup In(Tail(k.results))
  BY InTail DEF Calls
<1>2. Working(k)
  BY DEF CallInv
<1>3. k.of \in Portfolios /\ i \in Counted(k.of)
  BY <1>1, <1>2 DEF Working
<1>4. s \in Symbols /\ PositionRisk(k.of, i) \in Risks
  BY <1>3, CountedPositions
<1>5. k.risks \in [Symbols -> Risks]
  BY DEF Calls
<1>6. /\ r \in [Symbols -> Risks]
      /\ r[s] = PositionRisk(k.of, i)
      /\ \A t \in Symbols : t # s => r[t] = k.risks[t]
  BY <1>4, <1>5
<1> HIDE DEF r
<1>7. l \in Calls
  BY <1>1, <1>6 DEF Calls
<1>8. /\ l.busy = k.busy /\ l.jobs = k.jobs /\ l.pc = k.pc /\ l.of = k.of
      /\ l.workers = k.workers /\ l.results = Tail(k.results) /\ l.closed = k.closed
      /\ l.risks = r
  BY DEF Calls
<1> HIDE DEF l, i, s
<1>9. ASSUME NEW j \in Counted(k.of)
      PROVE  j \in l.jobs \cup l.busy \cup In(l.results) \/ HasRisk(l, j)
  <2> DEFINE t == k.of.positions[j].symbol
  <2>1. t \in Symbols
    BY <1>3, CountedPositions
  <2>2. CASE t = s
    BY <1>3, <1>6, <1>8, <2>2 DEF HasRisk, s
  <2>3. CASE t # s
    <3>1. j # i
      BY <2>3 DEF s
    <3>2. CASE HasRisk(k, j)
      BY <1>6, <1>8, <2>1, <2>3, <3>2 DEF HasRisk
    <3>3. CASE j \in k.jobs \cup k.busy \cup In(k.results)
      BY <1>1, <1>8, <3>1, <3>3
    <3> QED BY <1>2, <3>2, <3>3 DEF Working
  <2> QED BY <2>2, <2>3
<1>10. ASSUME NEW t \in Symbols, \A j \in Counted(k.of) : k.of.positions[j].symbol # t
       PROVE  l.risks[t] = None
  <2>1. t # s
    BY <1>3, <1>10 DEF s
  <2>2. k.risks[t] = None
    BY <1>2, <1>10 DEF Working
  <2> QED BY <1>6, <1>8, <2>1, <2>2
<1>11. l.jobs \cup l.busy \cup In(l.results) \subseteq Counted(k.of)
  BY <1>1, <1>2, <1>8 DEF Working
<1>12. /\ l.workers = 0 => l.jobs = {}
       /\ l.closed => l.workers = 0
       /\ l.pc # "done"
  BY <1>2, <1>8 DEF Working
<1>13. Working(l)
  BY <1>3, <1>8, <1>9, <1>10, <1>11, <1>12 DEF Working
<1>14. CallInv(l)
  BY <1>8, <1>13 DEF CallInv
<1> QED BY <1>7, <1>14 DEF l, r, s, i

LEMMA CollectedCall ==
    ASSUME NEW k \in Calls, CallInv(k), k.pc = "collect", k.closed, k.results = <<>>
    PROVE  LET l == [k EXCEPT !.pc = "done"]
           IN  l \in Calls /\ CallInv(l)
<1> DEFINE l == [k EXCEPT !.pc = "done"]
<1>1. l \in Calls
  BY DEF Calls
<1>2. /\ l.busy = k.busy /\ l.jobs = k.jobs /\ l.pc = "done" /\ l.of = k.of
      /\ l.workers = k.workers /\ l.results = k.results /\ l.closed = k.closed
      /\ l.risks = k.risks
  BY DEF Calls
<1>3. Working(k)
  BY DEF CallInv
<1> HIDE DEF l
<1>4. Working(l)
  BY <1>2, <1>3 DEF Working, HasRisk
<1>5. CallInv(l)
  BY <1>2, <1>4 DEF CallInv
<1> QED BY <1>1, <1>5 DEF l

\* The collector has everything when the results are closed and read.
LEMMA DoneIsComplete ==
    ASSUME NEW k \in Calls, CallInv(k), k.pc = "done"
    PROVE  k.of \in Portfolios /\ Complete(k.of, k.risks)
<1>1. Working(k) /\ IsFiniteSet(k.busy) /\ Cardinality(k.busy) <= k.workers
  BY DEF CallInv
<1>2. k.workers = 0 /\ k.jobs = {} /\ In(k.results) = {}
  BY <1>1, InEmpty DEF Working
<1>3. k.busy = {}
  <2>1. Cardinality(k.busy) \in Nat
    BY <1>1, FS_CardinalityType
  <2>2. Cardinality(k.busy) = 0
    BY <1>1, <1>2, <2>1
  <2> QED BY <1>1, <2>2, FS_EmptySet
<1>4. \A i \in Counted(k.of) : HasRisk(k, i)
  BY <1>1, <1>2, <1>3 DEF Working
<1>5. ASSUME NEW s \in Symbols
      PROVE  LET own == {i \in Counted(k.of) : k.of.positions[i].symbol = s}
             IN  IF own = {} THEN k.risks[s] = None
                 ELSE \E i \in own : k.risks[s] = PositionRisk(k.of, i)
  <2> DEFINE own == {i \in Counted(k.of) : k.of.positions[i].symbol = s}
  <2>1. CASE own = {}
    BY <1>1, <2>1 DEF Working
  <2>2. CASE own # {}
    <3>1. PICK i \in own : TRUE
      BY <2>2
    <3>2. HasRisk(k, i)
      BY <1>4
    <3> QED BY <2>2, <3>1, <3>2 DEF HasRisk
  <2> QED BY <2>1, <2>2
<1> QED BY <1>1, <1>5 DEF Working, Complete

-----------------------------------------------------------------------------
(* The steps of the service                                                 *)

LEMMA RiskInitially == Init => RiskInv
<1> SUFFICES ASSUME Init PROVE RiskInv
  OBVIOUS
<1> USE DEF Init, NewInMemoryPortfolioStore, EngineInit, CalcInit
<1>1. RiskTypeOK
  BY NoCallIsFine DEF RiskTypeOK
<1>2. \A c \in Callers : CallInv(calc[c])
  BY NoCallIsFine
<1>3. MetricsOfOnePortfolio
  BY DEF MetricsOfOnePortfolio
<1> QED BY <1>1, <1>2, <1>3 DEF RiskInv

\* A step that gives one caller another call, and nothing else, is as good as
\* the call.
LEMMA OneCall ==
    ASSUME RiskInv, NEW c \in Callers, NEW l \in Calls, CallInv(l),
           calc' = [calc EXCEPT ![c] = l], UNCHANGED <<portfolios, published>>,
           todo' \in [Loops -> SUBSET IDs]
    PROVE  RiskInv'
<1>1. calc' \in [Callers -> Calls] /\ \A b \in Callers : calc'[b] = IF b = c THEN l ELSE calc[b]
  BY DEF RiskInv, RiskTypeOK
<1>2. RiskTypeOK'
  BY <1>1 DEF RiskInv, RiskTypeOK
<1>3. \A b \in Callers : CallInv(calc'[b])
  BY <1>1 DEF RiskInv
<1>4. MetricsOfOnePortfolio'
  BY DEF RiskInv, MetricsOfOnePortfolio
<1> QED BY <1>2, <1>3, <1>4 DEF RiskInv

LEMMA ComputeStep ==
    ASSUME RiskInv, NEW c \in Callers, Compute(c)
    PROVE  RiskInv'
<1>1. /\ calc[c] \in Calls /\ CallInv(calc[c]) /\ UNCHANGED <<portfolios, published>>
      /\ todo' \in [Loops -> SUBSET IDs]
  BY DEF RiskInv, RiskTypeOK, Compute
<1>2. CASE TakeJob(c)
  <2>1. PICK i \in calc[c].jobs :
            calc' = [calc EXCEPT ![c] = [calc[c] EXCEPT
                        !.busy = calc[c].busy \cup {i}, !.jobs = calc[c].jobs \ {i}]]
    BY <1>2 DEF TakeJob
  <2>2. Cardinality(calc[c].busy) < calc[c].workers
    BY <1>2 DEF TakeJob, IdleWorker
  <2> QED BY <1>1, <2>1, <2>2, TakeJobCall, OneCall
<1>3. CASE FinishJob(c)
  <2>1. PICK i \in calc[c].busy :
            calc' = [calc EXCEPT ![c] = [calc[c] EXCEPT
                        !.busy = calc[c].busy \ {i}, !.results = Append(calc[c].results, i)]]
    BY <1>3 DEF FinishJob
  <2> QED BY <1>1, <2>1, FinishJobCall, OneCall
<1>4. CASE WorkerEnds(c)
  BY <1>1, <1>4, WorkerEndsCall, OneCall DEF WorkerEnds, IdleWorker
<1>5. CASE CloseResults(c)
  BY <1>1, <1>5, CloseResultsCall, OneCall DEF CloseResults
<1>6. CASE Collect(c)
  BY <1>1, <1>6, CollectCall, OneCall DEF Collect
<1>7. CASE Collected(c)
  BY <1>1, <1>7, CollectedCall, OneCall DEF Collected
<1> QED BY <1>2, <1>3, <1>4, <1>5, <1>6, <1>7 DEF Compute, CalcStep

LEMMA EngineKeepsInv ==
    ASSUME RiskInv, EngineNext
    PROVE  RiskInv'
<1>1. ASSUME NEW p \in Portfolios, Update(p) PROVE RiskInv'
  <2>1. p.id \in IDs
    BY PortfoliosHaveIDs
  <2>2. RiskTypeOK' /\ UNCHANGED <<calc, published>>
    BY <1>1, <2>1 DEF RiskInv, RiskTypeOK, Update, SavePortfolio
  <2> QED BY <2>2 DEF RiskInv, MetricsOfOnePortfolio
<1>2. CASE Tick \/ Signal
  <2>1. UNCHANGED <<portfolios, calc, published>> /\ todo' \in [Loops -> SUBSET IDs]
    BY <1>2 DEF Tick, Signal, GetAllPortfolios, RiskInv, RiskTypeOK
  <2> QED BY <2>1 DEF RiskInv, RiskTypeOK, MetricsOfOnePortfolio
<1>3. ASSUME NEW c \in Loops, NextPortfolio(c) PROVE RiskInv'
  <2>1. PICK id \in todo[c] : CalculateRiskMetrics(c, id)
    BY <1>3 DEF NextPortfolio
  <2>5. id \in IDs /\ todo' \in [Loops -> SUBSET IDs]
    BY <1>3 DEF NextPortfolio, RiskInv, RiskTypeOK
  <2> DEFINE p == GetPortfolio(id)
  <2>2. p # None /\ calc' = [calc EXCEPT ![c] = Begun(p)]
    BY <2>1 DEF CalculateRiskMetrics, Begun, Workers
  <2>3. UNCHANGED <<portfolios, published>>
    BY <1>3 DEF NextPortfolio
  <2>4. p \in Portfolios
    BY <2>2, <2>5 DEF GetPortfolio, RiskInv, RiskTypeOK
  <2> QED BY <2>2, <2>3, <2>4, <2>5, BeginCall, OneCall, LoopsCall
<1>4. ASSUME NEW c \in Loops, Compute(c) PROVE RiskInv'
  BY <1>4, ComputeStep, LoopsCall
<1>5. ASSUME NEW c \in Loops, Produce(c) PROVE RiskInv'
  <2> DEFINE k == calc[c]
  <2>1. k \in Calls /\ CallInv(k) /\ k.pc = "done"
    BY <1>5, LoopsCall DEF RiskInv, RiskTypeOK, Produce
  <2>2. k.of \in Portfolios /\ k.of.id \in IDs /\ Complete(k.of, k.risks)
    BY <2>1, DoneIsComplete, PortfoliosHaveIDs
  <2>3. Metrics(c) \in [of : Portfolios, risks : [Symbols -> Risks]]
    BY <2>1, <2>2 DEF Metrics, Calls
  <2>4. published' \in [IDs -> {None} \cup [of : Portfolios, risks : [Symbols -> Risks]]]
    BY <1>5, <2>2, <2>3 DEF Produce, RiskInv, RiskTypeOK
  <2>5. calc' \in [Callers -> Calls] /\ \A b \in Callers : CallInv(calc'[b])
    BY <1>5, NoCallIsFine, LoopsCall DEF Produce, RiskInv, RiskTypeOK
  <2>6. MetricsOfOnePortfolio'
    <3> SUFFICES ASSUME NEW id \in IDs, published'[id] # None
                 PROVE  Complete(published'[id].of, published'[id].risks)
      BY DEF MetricsOfOnePortfolio
    <3>1. CASE id = k.of.id
      <4>1. published'[id] = Metrics(c)
        BY <1>5, <3>1 DEF Produce, RiskInv, RiskTypeOK
      <4> QED BY <2>2, <4>1 DEF Metrics
    <3>2. CASE id # k.of.id
      <4>1. published'[id] = published[id]
        BY <1>5, <3>2 DEF Produce, RiskInv, RiskTypeOK
      <4> QED BY <4>1 DEF RiskInv, MetricsOfOnePortfolio
    <3> QED BY <3>1, <3>2
  <2>7. portfolios' = portfolios /\ todo' = todo
    BY <1>5 DEF Produce
  <2> QED BY <2>4, <2>5, <2>6, <2>7 DEF RiskInv, RiskTypeOK
<1>6. ASSUME NEW c \in Loops, ProduceFails(c) PROVE RiskInv'
  <2>1. /\ calc' = [calc EXCEPT ![c] = NoCall] /\ UNCHANGED <<portfolios, published>>
        /\ todo' \in [Loops -> SUBSET IDs]
    BY <1>6 DEF ProduceFails, RiskInv, RiskTypeOK
  <2> QED BY <2>1, NoCallIsFine, OneCall, LoopsCall
<1> QED BY <1>1, <1>2, <1>3, <1>4, <1>5, <1>6 DEF EngineNext

\* The metrics that are sent are complete and of one portfolio, for every number
\* of workers and every portfolio (calculator.go:193-281, main.go:150-165).
THEOREM MetricsAreComplete == Spec => []MetricsOfOnePortfolio
<1>1. ASSUME RiskInv, [Next]_vars PROVE RiskInv'
  <2>1. CASE EngineStep
    BY <1>1, <2>1, EngineKeepsInv DEF EngineStep
  <2>2. CASE HedgeStep \/ UNCHANGED vars
    <3>1. UNCHANGED <<portfolios, calc, todo, published>>
      BY <2>2 DEF HedgeStep, vars, engineVars
    <3> QED BY <1>1, <3>1 DEF RiskInv, RiskTypeOK, MetricsOfOnePortfolio
  <2> QED BY <1>1, <2>1, <2>2 DEF Next
<1>2. RiskInv => MetricsOfOnePortfolio
  BY DEF RiskInv
<1> QED BY RiskInitially, <1>1, <1>2, PTL DEF Spec
-----------------------------------------------------------------------------
(* Hedges: what is done over and over.                                      *)

\* A finite set of numbers has a least one.
LEMMA LeastOne ==
    ASSUME NEW S \in SUBSET Nat, IsFiniteSet(S), S # {}
    PROVE  \E m \in S : \A x \in S : m <= x
<1> DEFINE Below(x) == {y \in S : y < x}
           R == StrictSubsetOrdering(S)
<1>1. IsWellFoundedOn(R, SUBSET S)
  BY FS_StrictSubsetOrderingWellFounded, FS_FiniteSubsetsOfFinite
<1>2. PICK U \in {Below(x) : x \in S} : \A V \in {Below(x) : x \in S} : ~(<<V, U>> \in R)
  <2>1. {Below(x) : x \in S} \subseteq SUBSET S /\ {Below(x) : x \in S} # {}
    OBVIOUS
  <2> HIDE DEF R, Below
  <2> QED
    BY <1>1, <2>1, WFMin
<1>3. PICK m \in S : U = Below(m)
  BY <1>2
<1>4. ASSUME NEW x \in S, x < m
      PROVE  FALSE
  <2>1. \A y \in S : (y < x => y < m) /\ ~(x < x)
    BY <1>4
  <2>2. Below(x) \subseteq Below(m) /\ x \in Below(m) /\ x \notin Below(x)
    BY <1>4, <2>1
  <2>3. <<Below(x), Below(m)>> \in R
    BY <2>2 DEF StrictSubsetOrdering
  <2> QED
    BY <1>2, <1>3, <2>3
<1> QED
  BY <1>4

\* Induction from 0 to n, for a set.
LEMMA UpTo ==
    ASSUME NEW n \in Nat, NEW T, 0 \in T, \A k \in 1 .. n : k - 1 \in T => k \in T
    PROVE  0 .. n \subseteq T
<1> DEFINE S == (0 .. n) \ T
<1> SUFFICES ASSUME S # {} PROVE FALSE
  OBVIOUS
<1>1. S \in SUBSET Nat /\ IsFiniteSet(S)
  <2>1. IsFiniteSet(0 .. n) /\ S \in SUBSET (0 .. n)
    BY FS_Interval
  <2>2. S \in SUBSET Nat
    OBVIOUS
  <2> HIDE DEF S
  <2> QED
    BY <2>1, <2>2, FS_Subset
<1>2. PICK m \in S : \A x \in S : m <= x
  <2> HIDE DEF S
  <2> QED
    BY <1>1, LeastOne
<1>3. m \in 1 .. n /\ m - 1 \in 0 .. n
  BY <1>2
<1>4. m - 1 \in T
  BY <1>2, <1>3
<1> QED
  BY <1>2, <1>3, <1>4

\* what x becomes by n steps, by their number
Runs(X, n, x, step) ==
    {u \in [0 .. n -> X] : u[0] = x /\ \A k \in 1 .. n : u[k] = step[k][u[k - 1]]}

LEMMA RunsExist ==
    ASSUME NEW X, NEW n \in Nat, NEW x \in X, NEW step \in [1 .. n -> [X -> X]]
    PROVE  Runs(X, n, x, step) # {}
<1> DEFINE T == {j \in 0 .. n : Runs(X, j, x, step) # {}}
<1>1. 0 \in T
  <2> DEFINE u == [k \in 0 .. 0 |-> x]
  <2>1. u \in [0 .. 0 -> X] /\ u[0] = x /\ \A k \in 1 .. 0 : u[k] = step[k][u[k - 1]]
    OBVIOUS
  <2> HIDE DEF u
  <2>2. u \in Runs(X, 0, x, step)
    BY <2>1 DEF Runs
  <2> QED
    BY <2>2
<1>2. ASSUME NEW j \in 1 .. n, j - 1 \in T PROVE j \in T
  <2>1. PICK u \in Runs(X, j - 1, x, step) : TRUE
    BY <1>2
  <2>2. /\ j - 1 \in Nat /\ u \in [0 .. j - 1 -> X] /\ u[0] = x
        /\ \A k \in 1 .. j - 1 : u[k] = step[k][u[k - 1]]
    BY <2>1 DEF Runs
  <2> DEFINE y == step[j][u[j - 1]]
             w == [k \in 0 .. j |-> IF k = j THEN y ELSE u[k]]
  <2>3. y \in X
    BY <2>2
  <2>4. y = step[j][u[j - 1]]
    OBVIOUS
  <2> HIDE DEF y
  <2>5. w \in [0 .. j -> X]
    BY <2>2, <2>3
  <2>6. w[0] = x /\ \A k \in 1 .. j : w[k] = step[k][w[k - 1]]
    BY <2>2, <2>4
  <2> HIDE DEF w
  <2>7. w \in Runs(X, j, x, step)
    BY <2>5, <2>6 DEF Runs
  <2> QED
    BY <2>7
<1>3. 0 .. n \subseteq T
  <2> HIDE DEF T
  <2> QED
    BY <1>1, <1>2, UpTo
<1> QED
  BY <1>3
-----------------------------------------------------------------------------
(* Sums of costs.                                                           *)

\* u adds up the first numbers of s
AddsUp(u, s) ==
    /\ \A k \in 0 .. Len(s) : u[k] \in Int
    /\ u[0] = 0 /\ \A k \in 1 .. Len(s) : u[k] = u[k - 1] + s[k]

LEMMA TotalsExist ==
    ASSUME NEW s \in Seq(Int)
    PROVE  \E u \in [0 .. Len(s) -> Int] : AddsUp(u, s)
<1> DEFINE n == Len(s)
           step == [k \in 1 .. n |-> [x \in Int |-> x + s[k]]]
<1>1. n \in Nat /\ \A k \in 1 .. n : s[k] \in Int
  BY LenProperties, ElementOfSeq
<1> HIDE DEF n
<1>2. step \in [1 .. n -> [Int -> Int]] /\ \A k \in 1 .. n : \A x \in Int : step[k][x] = x + s[k]
  BY <1>1
<1> HIDE DEF step
<1>3. PICK u \in Runs(Int, n, 0, step) : TRUE
  <2> DEFINE X == Int
  <2>1. n \in Nat /\ 0 \in X /\ step \in [1 .. n -> [X -> X]]
    BY <1>1, <1>2
  <2> HIDE DEF X
  <2>2. Runs(X, n, 0, step) # {}
    BY <2>1, RunsExist
  <2> QED
    BY <2>2 DEF X
<1>4. u \in [0 .. n -> Int] /\ u[0] = 0 /\ \A k \in 1 .. n : u[k] = step[k][u[k - 1]]
  BY <1>3 DEF Runs
<1>5. ASSUME NEW k \in 1 .. n PROVE u[k] = u[k - 1] + s[k]
  <2>1. k - 1 \in 0 .. n
    BY <1>1
  <2>2. u[k - 1] \in Int
    BY <1>4, <2>1
  <2>3. step[k][u[k - 1]] = u[k - 1] + s[k]
    BY <1>2, <2>2
  <2> QED
    BY <1>4, <2>3
<1> QED
  BY <1>4, <1>5 DEF AddsUp, n

LEMMA SumIs ==
    ASSUME NEW s \in Seq(Int), NEW u, AddsUp(u, s)
    PROVE  Sum(s) = u[Len(s)]
<1> DEFINE n == Len(s)
           upTo == CHOOSE f : f = [k \in 0 .. n |-> IF k = 0 THEN 0 ELSE f[k - 1] + s[k]]
<1>1. n \in Nat
  BY LenProperties
<1>2. Sum(s) = upTo[n]
  BY DEF Sum
<1>3. PICK w \in [0 .. n -> Int] : AddsUp(w, s)
  BY TotalsExist
<1> HIDE DEF n
<1>4. w = [k \in 0 .. n |-> IF k = 0 THEN 0 ELSE w[k - 1] + s[k]]
  <2>1. \A k \in 0 .. n : w[k] = IF k = 0 THEN 0 ELSE w[k - 1] + s[k]
    BY <1>1, <1>3 DEF AddsUp, n
  <2> QED
    BY <1>3, <2>1
<1>5. upTo = [k \in 0 .. n |-> IF k = 0 THEN 0 ELSE upTo[k - 1] + s[k]]
  BY <1>4
<1> HIDE DEF upTo
<1>6. upTo[0] = 0 /\ \A k \in 1 .. n : upTo[k] = upTo[k - 1] + s[k]
  <2>1. 0 \in 0 .. n /\ \A k \in 1 .. n : k \in 0 .. n /\ k # 0
    BY <1>1
  <2> QED
    BY <1>5, <2>1
<1>7. u[0] = 0 /\ \A k \in 1 .. n : u[k] = u[k - 1] + s[k]
  BY DEF AddsUp, n
<1> DEFINE T == {k \in 0 .. n : upTo[k] = u[k]}
<1>8. 0 \in T /\ \A k \in 1 .. n : k - 1 \in T => k \in T
  BY <1>1, <1>6, <1>7
<1>9. 0 .. n \subseteq T
  <2> HIDE DEF T
  <2> QED
    BY <1>1, <1>8, UpTo
<1>10. n \in 0 .. n
  BY <1>1
<1> QED
  BY <1>2, <1>9, <1>10 DEF n

Legs == [instrument : {"SPY", "QQQ", "TLT", "call", "put"}, quantity : Int, price : Nat \ {0},
         offset : Int]

LEMMA CostType ==
    ASSUME NEW a \in Legs
    PROVE  Cost(a) \in Nat /\ Cost(a) = Abs(a.quantity) * a.price
<1> DEFINE q == a.quantity  p == a.price
<1>1. q \in Int /\ p \in Nat \ {0} /\ Cost(a) = Abs(q * p)
  BY DEF Legs, Cost
<1> HIDE DEF q, p
<1>2. CASE q < 0
  <2>1. q * p <= 0 /\ q * p \in Int
    BY <1>1, <1>2
  <2>2. -(q * p) = (-q) * p
    BY <1>1
  <2>3. q * p < 0 \/ q * p = 0
    BY <2>1
  <2>4. Abs(q * p) = -(q * p)
    BY <2>1, <2>3 DEF Abs
  <2>5. Abs(q) = -q
    BY <1>2 DEF Abs
  <2> QED
    BY <1>1, <2>1, <2>2, <2>4, <2>5 DEF q, p
<1>3. CASE ~(q < 0)
  <2>1. q * p >= 0 /\ q * p \in Int
    BY <1>1, <1>3
  <2>2. Abs(q * p) = q * p /\ Abs(q) = q
    BY <1>3, <2>1 DEF Abs
  <2> QED
    BY <1>1, <2>1, <2>2 DEF q, p
<1> QED
  BY <1>2, <1>3

\* u adds up the costs of the first actions
Pays(u, as) ==
    /\ \A k \in 0 .. Len(as) : u[k] \in Int
    /\ u[0] = 0 /\ \A k \in 1 .. Len(as) : u[k] = u[k - 1] + Cost(as[k])

LEMMA CostsType ==
    ASSUME NEW as \in Seq(Legs)
    PROVE  LET s == [i \in DOMAIN as |-> Cost(as[i])]
           IN  s \in Seq(Int) /\ Len(s) = Len(as) /\ \A k \in 1 .. Len(as) : s[k] = Cost(as[k])
<1> DEFINE n == Len(as)  s == [i \in DOMAIN as |-> Cost(as[i])]
<1>1. n \in Nat /\ DOMAIN as = 1 .. n /\ \A k \in 1 .. n : as[k] \in Legs
  BY LenProperties, ElementOfSeq
<1> HIDE DEF n
<1>2. ASSUME NEW k \in 1 .. n PROVE Cost(as[k]) \in Int
  <2> DEFINE a == as[k]
  <2>1. a \in Legs
    BY <1>1
  <2> HIDE DEF a
  <2>2. Cost(a) \in Int
    BY <2>1, CostType
  <2> QED
    BY <2>2, Zenon DEF a
<1>3. s \in [1 .. n -> Int] /\ \A k \in 1 .. n : s[k] = Cost(as[k])
  BY <1>1, <1>2
<1> HIDE DEF s
<1>4. s \in Seq(Int) /\ DOMAIN s = 1 .. n
  BY <1>1, <1>3, SeqDef
<1>5. Len(s) = n
  BY <1>1, <1>4, LenProperties
<1> QED
  BY <1>3, <1>4, <1>5 DEF s, n

LEMMA TotalCostIs ==
    ASSUME NEW as \in Seq(Legs), NEW u, Pays(u, as)
    PROVE  TotalCost(as) = u[Len(as)]
<1> DEFINE s == [i \in DOMAIN as |-> Cost(as[i])]
<1>1. s \in Seq(Int) /\ Len(s) = Len(as) /\ \A k \in 1 .. Len(as) : s[k] = Cost(as[k])
  BY CostsType
<1>2. TotalCost(as) = Sum(s)
  BY DEF TotalCost
<1> HIDE DEF s
<1>3. AddsUp(u, s)
  BY <1>1 DEF AddsUp, Pays
<1> QED
  BY <1>1, <1>2, <1>3, SumIs

LEMMA PaymentsExist ==
    ASSUME NEW as \in Seq(Legs)
    PROVE  \E u : Pays(u, as)
<1> DEFINE s == [i \in DOMAIN as |-> Cost(as[i])]
<1>1. s \in Seq(Int) /\ Len(s) = Len(as) /\ \A k \in 1 .. Len(as) : s[k] = Cost(as[k])
  BY CostsType
<1> HIDE DEF s
<1>2. PICK u \in [0 .. Len(s) -> Int] : AddsUp(u, s)
  BY <1>1, TotalsExist
<1>3. Pays(u, as)
  BY <1>1, <1>2 DEF AddsUp, Pays
<1> QED
  BY <1>3
-----------------------------------------------------------------------------
(* Lots, and what the budget leaves.                                        *)

\* A positive factor can be canceled.
LEMMA Cancels ==
    ASSUME NEW d \in Nat \ {0}, NEW p \in Int, NEW q \in Int, d * p <= d * q
    PROVE  p <= q
<1> SUFFICES ASSUME q < p PROVE FALSE
  OBVIOUS
<1>1. p - q \in Nat \ {0} /\ d * (p - q) = d * p - d * q
  OBVIOUS
<1>2. d * (p - q) > 0
  BY <1>1
<1> QED
  BY <1>1, <1>2

LEMMA Divided ==
    ASSUME NEW a \in Nat, NEW d \in Nat \ {0}
    PROVE  a \div d \in Nat /\ d * (a \div d) <= a
<1>1. a \div d \in Int /\ d * (a \div d) <= a /\ a < d * (a \div d) + d
  OBVIOUS
<1> DEFINE n == a \div d
<1>2. n \in Int /\ d * n <= a /\ a < d * n + d
  BY <1>1
<1> HIDE DEF n
<1>3. d * 0 <= d * n \/ n < 0
  <2> SUFFICES ASSUME n >= 0 PROVE d * 0 <= d * n
    BY <1>2
  <2> QED
    BY <1>2
<1>4. CASE n < 0
  <2>1. -n - 1 \in Nat /\ d * (-n - 1) >= 0
    BY <1>2, <1>4
  <2>2. d * (-n - 1) = -(d * n) - d
    BY <1>2
  <2> QED
    BY <1>2, <2>1, <2>2
<1>5. n \in Nat
  BY <1>2, <1>4
<1> QED
  BY <1>2, <1>5 DEF n

\* a / b is rounded to n lots, its sign kept
InLots(a, b, n) ==
    /\ 200 * b * n <= 2 * Abs(a) + 100 * b
    /\ Lots(a, b) = IF a < 0 THEN -(100 * n) ELSE 100 * n

LEMMA LotsAre ==
    ASSUME NEW a \in Int, NEW b \in Nat \ {0}
    PROVE  \E n \in Nat : InLots(a, b, n)
<1> DEFINE c == 100 * b
           m == Abs(a)
           n == (2 * m + c) \div (2 * c)
<1>1. c \in Nat \ {0} /\ 2 * c \in Nat \ {0} /\ 200 * b = 2 * c
  OBVIOUS
<1>2. Abs(c) = c /\ m \in Nat
  BY <1>1 DEF Abs
<1>3. Round(a, c) = IF a < 0 THEN -n ELSE n
  <2>1. ~(c < 0)
    BY <1>1
  <2>2. Round(a, c) = IF (a < 0) = (c < 0) THEN n ELSE -n
    BY <1>2 DEF Round
  <2> QED
    BY <2>1, <2>2
<1> HIDE DEF c, m
<1>4. 2 * m + c \in Nat
  BY <1>1, <1>2
<1>5. n \in Nat /\ (2 * c) * n <= 2 * m + c
  BY <1>1, <1>4, Divided
<1> HIDE DEF n
<1>6. Lots(a, b) = IF a < 0 THEN -(100 * n) ELSE 100 * n
  <2>1. Lots(a, b) = 100 * Round(a, c)
    BY DEF Lots, c
  <2> QED
    BY <1>3, <1>5, <2>1
<1>7. 200 * b * n <= 2 * Abs(a) + 100 * b
  BY <1>1, <1>5 DEF m, c
<1> QED
  BY <1>5, <1>6, <1>7 DEF InLots

LEMMA LotsType ==
    ASSUME NEW a \in Int, NEW b \in Int \ {0}
    PROVE  Lots(a, b) \in Int
<1> DEFINE c == 100 * b
           m == 2 * Abs(a) + Abs(c)
           d == 2 * Abs(c)
<1>1. m \in Int /\ d \in Nat \ {0}
  BY DEF Abs
<1>2. Round(a, c) = IF (a < 0) = (c < 0) THEN m \div d ELSE -(m \div d)
  BY DEF Round
<1>3. Lots(a, b) = 100 * Round(a, c)
  BY DEF Lots
<1> HIDE DEF c, m, d
<1>4. m \div d \in Int
  BY <1>1
<1> DEFINE n == m \div d
<1>5. n \in Int /\ (Round(a, c) = n \/ Round(a, c) = -n)
  BY <1>2, <1>4
<1> HIDE DEF n
<1> QED
  BY <1>3, <1>5

LEMMA AbsFacts ==
    ASSUME NEW x \in Int
    PROVE  Abs(x) \in Nat /\ (x # 0 => Abs(x) > 0) /\ (x >= 0 => Abs(x) = x) /\ (x < 0 => Abs(x) = -x)
BY DEF Abs

LEMMA AbsProduct ==
    ASSUME NEW q \in Int, NEW r \in Nat
    PROVE  q * r \in Int /\ Abs(q * r) = Abs(q) * r /\ (r > 0 => (q * r < 0 <=> q < 0))
<1>1. CASE q < 0
  <2>1. -q \in Nat /\ (-q) * r \in Nat /\ q * r = -((-q) * r) /\ q * r \in Int
    BY <1>1
  <2>2. r > 0 => (-q) * r > 0
    BY <1>1
  <2>3. Abs(q * r) = (-q) * r /\ Abs(q) = -q
    BY <1>1, <2>1 DEF Abs
  <2> QED
    BY <1>1, <2>1, <2>2, <2>3
<1>2. CASE ~(q < 0)
  <2>1. q \in Nat /\ q * r \in Nat
    BY <1>2
  <2>2. Abs(q * r) = q * r /\ Abs(q) = q
    BY <1>2, <2>1 DEF Abs
  <2> QED
    BY <1>2, <2>1, <2>2
<1> QED
  BY <1>1, <1>2

\* What is bought of an action costs the rest of the budget, and half a lot.
LEMMA ScaledCost ==
    ASSUME NEW a \in Legs, NEW rest \in Nat, Cost(a) > 0
    PROVE  \/ ScaledDown(a, rest) = <<>>
           \/ \E x \in Legs :
                 /\ ScaledDown(a, rest) = <<x>> /\ rest > 0
                 /\ x.quantity = Lots(a.quantity * rest, Cost(a))
                 /\ Cost(x) <= rest + 50 * x.price
<1> DEFINE q == a.quantity  p == a.price  c == Cost(a)  offered == q * rest  l == Lots(offered, c)
           x == [a EXCEPT !.quantity = l]
<1>1. q \in Int /\ p \in Nat \ {0} /\ c \in Nat \ {0} /\ c = Abs(q) * p
  BY CostType DEF Legs
<1>2. ScaledDown(a, rest) = IF rest <= 0 THEN <<>> ELSE IF x.quantity = 0 THEN <<>> ELSE <<x>>
  BY DEF ScaledDown, NonZero
<1> HIDE DEF q, p, c
<1> DEFINE m == Abs(q)
<1>3. m \in Nat /\ offered \in Int /\ Abs(offered) = m * rest
  BY <1>1, AbsFacts, AbsProduct
<1> HIDE DEF offered
<1>4. PICK n \in Nat : InLots(offered, c, n)
  BY <1>1, <1>3, LotsAre
<1>5. l \in Int /\ Abs(l) = 100 * n
  BY <1>4 DEF Abs, InLots
<1> HIDE DEF l, m
<1>6. x \in Legs /\ x.quantity = l /\ x.price = p
  BY <1>5 DEF Legs, p
<1> HIDE DEF x
<1>7. Cost(x) = 100 * n * p
  BY <1>5, <1>6, CostType
<1>8. m # 0
  <2>1. m * p = c /\ c # 0
    BY <1>1 DEF m
  <2> QED
    BY <1>1, <2>1
<1>9. 100 * n * p <= rest + 50 * p
  <2> DEFINE y == n * p
  <2>1. y \in Nat /\ 200 * c * n = m * (200 * y) /\ 2 * (m * rest) + 100 * c = m * (2 * rest + 100 * p)
    <3>1. c = m * p
      BY <1>1 DEF m
    <3>2. 200 * (m * p) * n = m * (200 * (n * p))
      BY <1>1, <1>3
    <3>3. 2 * (m * rest) + 100 * (m * p) = m * (2 * rest + 100 * p)
      BY <1>1, <1>3
    <3> QED
      BY <1>1, <3>1, <3>2, <3>3
  <2> HIDE DEF y
  <2>2. m * (200 * y) <= m * (2 * rest + 100 * p)
    BY <1>3, <1>4, <2>1 DEF InLots
  <2>3. 200 * y <= 2 * rest + 100 * p
    BY <1>1, <1>3, <1>8, <2>1, <2>2, Cancels
  <2>4. 100 * y <= rest + 50 * p
    BY <1>1, <2>1, <2>3
  <2>5. 100 * n * p = 100 * y
    BY <1>1 DEF y
  <2> QED
    BY <2>4, <2>5
<1>10. Cost(x) <= rest + 50 * x.price
  BY <1>6, <1>7, <1>9
<1>11. x.quantity = Lots(a.quantity * rest, Cost(a))
  BY <1>6 DEF l, offered, q, c
<1>12. ScaledDown(a, rest) = <<>> \/ (rest > 0 /\ ScaledDown(a, rest) = <<x>>)
  BY <1>2
<1> QED
  BY <1>6, <1>10, <1>11, <1>12

-----------------------------------------------------------------------------
(* The sort, and what the budget pays for.                                  *)

\* the sequences as long as s, of what is in S
Arranged(S, s) == {t \in Seq(S) : Len(t) = Len(s)}

LEMMA ExchangedType ==
    ASSUME NEW S, NEW s, NEW t \in Arranged(S, s), NEW i \in 1 .. Len(s), NEW j \in 1 .. Len(s)
    PROVE  Exchanged(t, i, j) \in Arranged(S, s)
<1> DEFINE n == Len(t)
           v == [k \in 1 .. n |-> IF k = j THEN t[i] ELSE IF k = i THEN t[j] ELSE t[k]]
<1>1. t \in Seq(S) /\ n = Len(s) /\ n \in Nat /\ DOMAIN t = 1 .. n /\ \A k \in 1 .. n : t[k] \in S
  BY LenProperties, ElementOfSeq DEF Arranged
<1>2. [t EXCEPT ![i] = t[j], ![j] = t[i]] = v
  BY <1>1
<1>3. Exchanged(t, i, j) = v \/ Exchanged(t, i, j) = t
  BY <1>2 DEF Exchanged
<1> HIDE DEF n
<1>4. v \in [1 .. n -> S]
  BY <1>1
<1> HIDE DEF v
<1>5. v \in Seq(S) /\ DOMAIN v = 1 .. n
  BY <1>1, <1>4, SeqDef
<1>6. Len(v) = n
  BY <1>1, <1>5, LenProperties
<1> QED
  BY <1>1, <1>3, <1>5, <1>6 DEF Arranged

LEMMA ComparedType ==
    ASSUME NEW S, NEW s, NEW t \in Arranged(S, s), NEW i \in 1 .. Len(s), Len(s) \in Nat
    PROVE  Compared(t, i) \in Arranged(S, s)
<1> DEFINE n == Len(s)  X == Arranged(S, s)
           step == [j \in 1 .. n |-> [z \in X |-> IF j <= i THEN t ELSE Exchanged(z, i, j)]]
           upTo == CHOOSE f : f = [j \in 0 .. n |-> IF j <= i THEN t ELSE Exchanged(f[j - 1], i, j)]
<1>1. n \in Nat /\ i \in 1 .. n /\ t \in X /\ Len(t) = n
  BY DEF Arranged
<1>2. Compared(t, i) = upTo[n]
  BY <1>1 DEF Compared
<1>3. \A z \in X, j \in 1 .. n : Exchanged(z, i, j) \in X
  BY ExchangedType
<1> HIDE DEF n, X
<1>4. /\ step \in [1 .. n -> [X -> X]]
      /\ \A j \in 1 .. n : \A z \in X : step[j][z] = IF j <= i THEN t ELSE Exchanged(z, i, j)
  BY <1>1, <1>3
<1> HIDE DEF step
<1>5. PICK u \in Runs(X, n, t, step) : TRUE
  BY <1>1, <1>4, RunsExist
<1>6. u \in [0 .. n -> X] /\ u[0] = t /\ \A k \in 1 .. n : u[k] = step[k][u[k - 1]]
  BY <1>5 DEF Runs
<1>7. \A j \in 0 .. n : u[j] = IF j <= i THEN t ELSE Exchanged(u[j - 1], i, j)
  <2> SUFFICES ASSUME NEW j \in 0 .. n PROVE u[j] = IF j <= i THEN t ELSE Exchanged(u[j - 1], i, j)
    OBVIOUS
  <2>1. CASE j = 0
    BY <1>1, <1>6, <2>1
  <2>2. CASE j # 0
    <3>1. j \in 1 .. n /\ j - 1 \in 0 .. n
      BY <1>1, <2>2
    <3>2. u[j - 1] \in X
      BY <1>6, <3>1
    <3> QED
      BY <1>4, <1>6, <3>1, <3>2
  <2> QED
    BY <2>1, <2>2
<1>8. u = [j \in 0 .. n |-> IF j <= i THEN t ELSE Exchanged(u[j - 1], i, j)]
  BY <1>6, <1>7
<1>9. upTo = [j \in 0 .. n |-> IF j <= i THEN t ELSE Exchanged(upTo[j - 1], i, j)]
  BY <1>8
<1> HIDE DEF upTo
<1> DEFINE T == {j \in 0 .. n : upTo[j] \in X}
<1>10. 0 \in T
  BY <1>1, <1>9
<1>11. ASSUME NEW k \in 1 .. n, k - 1 \in T PROVE k \in T
  <2>1. k \in 0 .. n /\ upTo[k - 1] \in X
    BY <1>1, <1>11
  <2>2. upTo[k] = t \/ upTo[k] = Exchanged(upTo[k - 1], i, k)
    BY <1>9, <2>1
  <2>3. Exchanged(upTo[k - 1], i, k) \in X
    BY <1>3, <2>1
  <2> QED
    BY <1>1, <2>1, <2>2, <2>3
<1>12. 0 .. n \subseteq T
  <2> HIDE DEF T
  <2> QED
    BY <1>1, <1>10, <1>11, UpTo
<1>13. n \in T
  BY <1>1, <1>12
<1>14. upTo[n] \in X
  BY <1>13
<1> QED
  BY <1>2, <1>14 DEF X

\* Sorted, the actions are as many as before and of the same set.
LEMMA SortedType ==
    ASSUME NEW S, NEW s \in Seq(S)
    PROVE  ByEffectiveness(s) \in Seq(S) /\ Len(ByEffectiveness(s)) = Len(s)
<1> DEFINE n == Len(s)  X == Arranged(S, s)
           step == [i \in 1 .. n |-> [z \in X |-> Compared(z, i)]]
           upTo == CHOOSE f : f = [i \in 0 .. n |-> IF i = 0 THEN s ELSE Compared(f[i - 1], i)]
<1>0. \A z \in X : z \in Seq(S) /\ Len(z) = Len(s)
  BY DEF Arranged
<1>1. n \in Nat /\ s \in X
  BY LenProperties DEF Arranged
<1>2. ByEffectiveness(s) = upTo[n]
  BY DEF ByEffectiveness
<1>3. \A z \in X, i \in 1 .. n : Compared(z, i) \in X
  BY <1>1, ComparedType
<1> HIDE DEF n, X
<1>4. /\ step \in [1 .. n -> [X -> X]]
      /\ \A i \in 1 .. n : \A z \in X : step[i][z] = Compared(z, i)
  BY <1>1, <1>3
<1> HIDE DEF step
<1>5. PICK u \in Runs(X, n, s, step) : TRUE
  BY <1>1, <1>4, RunsExist
<1>6. u \in [0 .. n -> X] /\ u[0] = s /\ \A k \in 1 .. n : u[k] = step[k][u[k - 1]]
  BY <1>5 DEF Runs
<1>7. \A i \in 0 .. n : u[i] = IF i = 0 THEN s ELSE Compared(u[i - 1], i)
  <2> SUFFICES ASSUME NEW i \in 0 .. n, i # 0 PROVE u[i] = Compared(u[i - 1], i)
    BY <1>6
  <2>1. i \in 1 .. n /\ i - 1 \in 0 .. n
    BY <1>1
  <2>2. u[i - 1] \in X
    BY <1>6, <2>1
  <2> QED
    BY <1>4, <1>6, <2>1, <2>2
<1>8. u = [i \in 0 .. n |-> IF i = 0 THEN s ELSE Compared(u[i - 1], i)]
  BY <1>6, <1>7
<1>9. upTo = [i \in 0 .. n |-> IF i = 0 THEN s ELSE Compared(upTo[i - 1], i)]
  BY <1>8
<1> HIDE DEF upTo
<1> DEFINE T == {i \in 0 .. n : upTo[i] \in X}
<1>10. 0 \in T
  BY <1>1, <1>9
<1>11. ASSUME NEW k \in 1 .. n, k - 1 \in T PROVE k \in T
  <2>1. k \in 0 .. n /\ k # 0 /\ upTo[k - 1] \in X
    BY <1>1, <1>11
  <2>2. upTo[k] = Compared(upTo[k - 1], k)
    BY <1>9, <2>1
  <2>3. Compared(upTo[k - 1], k) \in X
    BY <1>3, <2>1
  <2> QED
    BY <1>1, <2>1, <2>2, <2>3
<1>12. 0 .. n \subseteq T
  <2> HIDE DEF T
  <2> QED
    BY <1>1, <1>10, <1>11, UpTo
<1>13. n \in T
  BY <1>1, <1>12
<1>14. upTo[n] \in X
  BY <1>13
<1> QED
  BY <1>0, <1>2, <1>14

LEMMA FirstOf ==
    ASSUME NEW S, NEW s \in Seq(S), NEW k \in 0 .. Len(s)
    PROVE  /\ SubSeq(s, 1, k) \in Seq(S) /\ Len(SubSeq(s, 1, k)) = k
           /\ \A i \in 1 .. k : SubSeq(s, 1, k)[i] = s[i]
<1> DEFINE n == Len(s)  t == SubSeq(s, 1, k)
<1>1. n \in Nat /\ k \in 0 .. n /\ \A i \in 1 .. n : s[i] \in S
  BY LenProperties, ElementOfSeq
<1> HIDE DEF n
<1>2. k \in Int /\ k - 1 + 1 = k /\ (1 <= k <=> k # 0) /\ \A i \in 1 .. k : i \in 1 .. n /\ 1 + i - 1 = i
  BY <1>1
<1>3. \A i \in 1 .. k : s[i] \in S
  BY <1>1, <1>2
<1>4. Len(t) = IF 1 <= k THEN k - 1 + 1 ELSE 0
  BY <1>2, <1>3, SubSeqProperties
<1>5. \A i \in 1 .. k - 1 + 1 : t[i] = s[1 + i - 1]
  BY <1>2, <1>3, SubSeqProperties
<1>6. t \in Seq(S)
  BY <1>2, <1>3, SubSeqProperties
<1> HIDE DEF t
<1>7. Len(t) = k /\ \A i \in 1 .. k : t[i] = s[i]
  BY <1>2, <1>4, <1>5
<1> QED
  BY <1>6, <1>7 DEF t

LEMMA FirstAre ==
    ASSUME NEW as \in Seq(Legs), NEW u, Pays(u, as), NEW k \in 0 .. Len(as)
    PROVE  TotalCost(SubSeq(as, 1, k)) = u[k]
<1> DEFINE n == Len(as)  t == SubSeq(as, 1, k)
<1>1. n \in Nat /\ k \in 0 .. n
  BY LenProperties
<1> HIDE DEF n
<1>2. k \in Int /\ \A i \in 1 .. k : i \in 1 .. n
  BY <1>1
<1>4. t \in Seq(Legs)
  BY FirstOf
<1>5. Len(t) = k /\ \A i \in 1 .. k : t[i] = as[i]
  BY FirstOf
<1> HIDE DEF t
<1>6. Pays(u, t)
  <2>1. \A i \in 0 .. k : i \in 0 .. n
    BY <1>1
  <2>2. \A i \in 0 .. k : u[i] \in Int
    BY <2>1 DEF Pays, n
  <2>3. u[0] = 0 /\ \A i \in 1 .. k : u[i] = u[i - 1] + Cost(t[i])
    BY <1>2, <1>5 DEF Pays, n
  <2> QED
    BY <1>5, <2>2, <2>3 DEF Pays
<1>7. TotalCost(t) = u[k]
  BY <1>4, <1>5, <1>6, TotalCostIs
<1> QED
  BY <1>7 DEF t

\* The budget pays for the first actions and not for one more.
LEMMA Fits ==
    ASSUME NEW as \in Seq(Legs), NEW max \in Nat, NEW u, Pays(u, as)
    PROVE  /\ Fitting(as, max) \in 0 .. Len(as)
           /\ u[Fitting(as, max)] <= max
           /\ Fitting(as, max) < Len(as) => u[Fitting(as, max) + 1] > max
<1> DEFINE n == Len(as)
           Good(k) == /\ TotalCost(SubSeq(as, 1, k)) <= max
                      /\ k < n => TotalCost(SubSeq(as, 1, k + 1)) > max
           m == CHOOSE k \in 0 .. n : Good(k)
<1>1. n \in Nat /\ u[0] = 0 /\ \A k \in 0 .. n : u[k] \in Int
  BY LenProperties DEF Pays
<1>2. \A k \in 0 .. n : TotalCost(SubSeq(as, 1, k)) = u[k]
  BY FirstAre
<1>3. Fitting(as, max) = m
  BY DEF Fitting
<1> HIDE DEF n
<1>4. \A k \in 0 .. n : Good(k) <=> u[k] <= max /\ (k < n => u[k + 1] > max)
  <2> SUFFICES ASSUME NEW k \in 0 .. n
               PROVE  Good(k) <=> u[k] <= max /\ (k < n => u[k + 1] > max)
    OBVIOUS
  <2>1. TotalCost(SubSeq(as, 1, k)) = u[k]
    BY <1>2
  <2>2. k < n => TotalCost(SubSeq(as, 1, k + 1)) = u[k + 1]
    <3>1. k < n => k + 1 \in 0 .. n
      BY <1>1
    <3> QED
      BY <1>2, <3>1
  <2> QED
    BY <2>1, <2>2
<1>5. \E k \in 0 .. n : u[k] <= max /\ (k < n => u[k + 1] > max)
  <2> DEFINE S == {k \in 1 .. n : u[k] > max}
  <2>1. CASE S = {}
    <3>1. u[n] <= max
      <4>1. n = 0 \/ n \in 1 .. n
        BY <1>1
      <4> QED
        BY <1>1, <2>1, <4>1
    <3> QED
      BY <1>1, <3>1
  <2>2. CASE S # {}
    <3>1. S \in SUBSET Nat /\ IsFiniteSet(S)
      <4>1. IsFiniteSet(1 .. n)
        <5>1. 1 \in Int /\ n \in Int
          BY <1>1
        <5> QED
          BY <5>1, FS_Interval
      <4>2. S \in SUBSET (1 .. n) /\ S \in SUBSET Nat
        BY <1>1
      <4> HIDE DEF S
      <4> QED
        BY <4>1, <4>2, FS_Subset
    <3>2. PICK l \in S : \A x \in S : l <= x
      <4> HIDE DEF S
      <4> QED
        BY <2>2, <3>1, LeastOne
    <3>3. l \in 1 .. n /\ u[l] > max /\ l - 1 \in 0 .. n /\ l - 1 < n /\ (l - 1) + 1 = l
      BY <1>1, <3>2
    <3>4. u[l - 1] <= max
      <4>1. CASE l = 1
        BY <1>1, <4>1
      <4>2. CASE l # 1
        <5>1. l - 1 \in 1 .. n /\ ~(l <= l - 1)
          BY <3>3, <4>2
        <5>2. l - 1 \notin S
          BY <3>2, <5>1
        <5> QED
          BY <1>1, <5>1, <5>2, <3>3
      <4> QED
        BY <4>1, <4>2
    <3> QED
      BY <3>3, <3>4
  <2> QED
    BY <2>1, <2>2
<1> HIDE DEF Good
<1>6. m \in 0 .. n /\ Good(m)
  BY <1>4, <1>5
<1> HIDE DEF m
<1>7. m \in 0 .. n /\ u[m] <= max /\ (m < n => u[m + 1] > max)
  BY <1>4, <1>6
<1> QED
  BY <1>3, <1>7 DEF n

\* The strategy is the first n actions of s, sorted, for which the budget pays,
\* and what the rest of it pays for of the next, which it does not pay for whole.
CutAt(actions, max, s, n, rest) ==
    /\ TotalCost(SubSeq(s, 1, n)) = max - rest
    /\ \/ n = Len(s) /\ OptimizeHedgingStrategy(actions, max) = s
       \/ /\ n < Len(s) /\ Cost(s[n + 1]) > rest
          /\ OptimizeHedgingStrategy(actions, max) = SubSeq(s, 1, n) \o ScaledDown(s[n + 1], rest)

LEMMA Optimized ==
    ASSUME NEW actions \in Seq(Legs), NEW max \in Nat, NEW s, s = ByEffectiveness(actions)
    PROVE  /\ s \in Seq(Legs) /\ Len(s) = Len(actions)
           /\ \E n \in 0 .. Len(s), rest \in Nat : CutAt(actions, max, s, n, rest)
<1>1. s \in Seq(Legs) /\ Len(s) = Len(actions) /\ Len(s) \in Nat
  BY SortedType, LenProperties
<1>2. PICK u : Pays(u, s)
  BY <1>1, PaymentsExist
<1> DEFINE n == Fitting(s, max)
           rest == max - TotalCost(SubSeq(s, 1, n))
<1>3. n \in 0 .. Len(s) /\ u[n] <= max /\ (n < Len(s) => u[n + 1] > max)
  BY <1>1, <1>2, Fits
<1>4. OptimizeHedgingStrategy(actions, max)
        = SubSeq(s, 1, n) \o (IF n = Len(s) THEN <<>> ELSE ScaledDown(s[n + 1], rest))
  BY DEF OptimizeHedgingStrategy
<1> HIDE DEF n
<1>5. u[n] \in Int /\ (n < Len(s) => u[n + 1] = u[n] + Cost(s[n + 1]))
  <2>1. n < Len(s) => n + 1 \in 1 .. Len(s) /\ (n + 1) - 1 = n
    BY <1>1, <1>3
  <2> QED
    BY <1>2, <1>3, <2>1 DEF Pays
<1>6. TotalCost(SubSeq(s, 1, n)) = u[n]
  BY <1>1, <1>2, <1>3, FirstAre
<1>7. rest \in Nat /\ u[n] + rest = max /\ TotalCost(SubSeq(s, 1, n)) = max - rest
  BY <1>3, <1>5, <1>6
<1> HIDE DEF rest
<1>8. CASE n = Len(s)
  <2>1. SubSeq(s, 1, n) = s
    BY <1>1, <1>8, SubSeqFull
  <2>2. OptimizeHedgingStrategy(actions, max) = s
    BY <1>1, <1>4, <1>8, <2>1, ConcatEmptySeq
  <2> QED
    BY <1>1, <1>3, <1>7, <1>8, <2>2 DEF CutAt
<1>9. CASE n # Len(s)
  <2>1. n < Len(s) /\ n + 1 \in 1 .. Len(s)
    BY <1>1, <1>3, <1>9
  <2>2. s[n + 1] \in Legs
    BY <1>1, <2>1, ElementOfSeq
  <2> DEFINE a == s[n + 1]
  <2>3. Cost(a) \in Nat
    BY <2>2, CostType
  <2>4. u[n + 1] = u[n] + Cost(a) /\ u[n + 1] > max
    BY <1>3, <1>5, <2>1
  <2> HIDE DEF a
  <2>5. Cost(a) > rest
    BY <1>5, <1>7, <2>3, <2>4
  <2>6. OptimizeHedgingStrategy(actions, max) = SubSeq(s, 1, n) \o ScaledDown(a, rest)
    BY <1>4, <1>9 DEF a
  <2>7. CutAt(actions, max, s, n, rest)
    BY <1>7, <2>1, <2>5, <2>6 DEF a, CutAt
  <2> QED
    BY <1>1, <1>3, <1>7, <2>7
<1> QED
  BY <1>8, <1>9

LEMMA TotalCostType ==
    ASSUME NEW as \in Seq(Legs)
    PROVE  TotalCost(as) \in Int
<1>1. PICK u : Pays(u, as)
  BY PaymentsExist
<1>2. TotalCost(as) = u[Len(as)] /\ Len(as) \in Nat
  BY <1>1, TotalCostIs, LenProperties
<1> DEFINE n == Len(as)
<1>3. n \in Nat /\ \A k \in 0 .. n : u[k] \in Int
  BY <1>1, <1>2 DEF Pays
<1> HIDE DEF n
<1>4. u[n] \in Int
  BY <1>3
<1> QED
  BY <1>2, <1>4 DEF n

\* the actions cost the budget and half a lot of the last of them
InBudget(as, max) == as # <<>> => TotalCost(as) <= max + 50 * as[Len(as)].price

LEMMA PaidWhole ==
    ASSUME NEW as \in Seq(Legs), NEW max \in Nat, TotalCost(as) <= max
    PROVE  InBudget(as, max)
<1> SUFFICES ASSUME as # <<>> PROVE TotalCost(as) <= max + 50 * as[Len(as)].price
  BY DEF InBudget
<1> DEFINE l == Len(as)  c == TotalCost(as)  p == as[l].price
<1>1. l \in Nat \ {0}
  BY EmptySeq
<1>2. as[l] \in Legs
  <2> HIDE DEF l
  <2>1. l \in 1 .. l
    BY <1>1
  <2> QED
    BY <2>1, ElementOfSeq DEF l
<1>3. p \in Nat
  BY <1>2 DEF Legs
<1>4. c \in Int /\ c <= max
  BY TotalCostType
<1> HIDE DEF c, p
<1>5. c <= max + 50 * p
  BY <1>3, <1>4
<1> QED
  BY <1>5, Zenon DEF c, p, l

\* An optimized strategy costs the budget and half a lot of its last action.
LEMMA OptimizedCost ==
    ASSUME NEW actions \in Seq(Legs), NEW max \in Nat
    PROVE  LET as == OptimizeHedgingStrategy(actions, max)
           IN  as \in Seq(Legs) /\ InBudget(as, max)
<1> DEFINE as == OptimizeHedgingStrategy(actions, max)
           s == ByEffectiveness(actions)
<1>0. s = ByEffectiveness(actions) /\ as = OptimizeHedgingStrategy(actions, max)
  OBVIOUS
<1>1. s \in Seq(Legs) /\ Len(s) \in Nat
  BY Optimized, LenProperties
<1> HIDE DEF as, s
<1>2. PICK n \in 0 .. Len(s), rest \in Nat : CutAt(actions, max, s, n, rest)
  BY <1>0, Optimized
<1> DEFINE t == SubSeq(s, 1, n)  c == TotalCost(t)
<1>3. t \in Seq(Legs) /\ Len(t) = n /\ n \in Nat
  BY <1>1, FirstOf
<1>4. TotalCost(t) = c
  OBVIOUS
<1>5. c \in Int /\ c <= max /\ c + rest = max
  BY <1>2 DEF CutAt
<1> HIDE DEF c
<1>6. SUFFICES as \in Seq(Legs) /\ InBudget(as, max)
  BY <1>0
<1>7. ASSUME as = t PROVE as \in Seq(Legs) /\ InBudget(as, max)
  BY <1>3, <1>4, <1>5, <1>7, PaidWhole
<1>8. CASE n = Len(s) /\ as = s
  <2>1. t = s
    BY <1>1, <1>8, SubSeqFull
  <2> QED
    BY <1>7, <1>8, <2>1
<1>9. CASE n < Len(s) /\ Cost(s[n + 1]) > rest /\ as = t \o ScaledDown(s[n + 1], rest)
  <2> DEFINE a == s[n + 1]
  <2>1. n + 1 \in 1 .. Len(s)
    BY <1>1, <1>3, <1>9
  <2>2. a \in Legs
    BY <1>1, <2>1, ElementOfSeq
  <2>3. as = t \o ScaledDown(a, rest) /\ Cost(a) > rest
    BY <1>9
  <2> HIDE DEF a
  <2>4. Cost(a) > 0
    BY <2>2, <2>3, CostType
  <2>5. CASE ScaledDown(a, rest) = <<>>
    <3>1. as = t
      BY <1>3, <2>3, <2>5, ConcatEmptySeq
    <3> QED
      BY <1>7, <3>1
  <2>6. CASE \E x \in Legs : /\ ScaledDown(a, rest) = <<x>>
                             /\ Cost(x) <= rest + 50 * x.price
    <3>1. PICK x \in Legs : ScaledDown(a, rest) = <<x>> /\ Cost(x) <= rest + 50 * x.price
      BY <2>6
    <3>2. <<x>> \in Seq(Legs) /\ Len(<<x>>) = 1 /\ <<x>>[1] = x
      OBVIOUS
    <3> DEFINE z == <<x>>
    <3>3. z \in Seq(Legs) /\ Len(z) = 1 /\ z[1] = x /\ as = t \o z
      BY <2>3, <3>1, <3>2
    <3> HIDE DEF z, t
    <3>4. /\ as \in Seq(Legs) /\ Len(as) = n + 1
          /\ \A i \in 1 .. n + 1 : as[i] = IF i <= n THEN t[i] ELSE z[i - n]
      <4>1. /\ t \o z \in Seq(Legs) /\ Len(t \o z) = Len(t) + Len(z)
            /\ \A i \in 1 .. Len(t) + Len(z) :
                  (t \o z)[i] = IF i <= Len(t) THEN t[i] ELSE z[i - Len(t)]
        BY <1>3, <3>3, ConcatProperties, Zenon
      <4> QED
        BY <1>3, <3>3, <4>1
    <3>5. as[n + 1] = x /\ \A i \in 1 .. n : as[i] = t[i]
      BY <1>3, <3>3, <3>4
    <3>6. PICK w : Pays(w, as)
      BY <3>4, PaymentsExist
    <3>7. Pays(w, t)
      <4>1. \A i \in 0 .. n : i \in 0 .. n + 1
        BY <1>3
      <4>2. \A i \in 0 .. n : w[i] \in Int
        BY <3>4, <3>6, <4>1 DEF Pays
      <4>3. \A i \in 1 .. n : i \in 1 .. n + 1
        BY <1>3
      <4>4. \A i \in 1 .. n : w[i] = w[i - 1] + Cost(as[i])
        BY <3>4, <3>6, <4>3 DEF Pays
      <4> QED
        BY <1>3, <3>5, <3>6, <4>2, <4>4 DEF Pays
    <3>8. w[n] = c
      BY <1>3, <1>4, <3>7, TotalCostIs DEF c
    <3>9. TotalCost(as) = w[n + 1]
      BY <3>4, <3>6, TotalCostIs
    <3>10. w[n + 1] = w[n] + Cost(x)
      <4>1. n + 1 \in 1 .. n + 1 /\ (n + 1) - 1 = n
        BY <1>3
      <4>2. w[n + 1] = w[(n + 1) - 1] + Cost(as[n + 1])
        BY <3>4, <3>6, <4>1 DEF Pays
      <4> QED
        BY <3>5, <4>1, <4>2
    <3> DEFINE p == x.price  k == Cost(x)
    <3>11. p \in Nat /\ k \in Nat /\ k <= rest + 50 * p /\ TotalCost(as) = c + k
      BY <3>1, <3>8, <3>9, <3>10, CostType DEF Legs
    <3> HIDE DEF p, k
    <3>12. TotalCost(as) <= max + 50 * p
      BY <1>5, <3>11
    <3>13. as[Len(as)].price = p
      BY <3>4, <3>5 DEF p
    <3> QED
      BY <3>4, <3>12, <3>13 DEF InBudget
  <2> QED
    BY <2>2, <2>4, <2>5, <2>6, ScaledCost
<1> QED
  BY <1>0, <1>2, <1>8, <1>9 DEF CutAt

\* Of one action an optimized strategy is that action, nothing or a part of it.
LEMMA OptimizedOne ==
    ASSUME NEW a \in Legs, NEW max \in Nat
    PROVE  \/ OptimizeHedgingStrategy(<<a>>, max) \in {<<a>>, <<>>}
           \/ \E rest \in Nat, x \in Legs :
                 /\ OptimizeHedgingStrategy(<<a>>, max) = <<x>>
                 /\ 0 < rest /\ rest < Cost(a)
                 /\ x.quantity = Lots(a.quantity * rest, Cost(a))
<1> DEFINE as == OptimizeHedgingStrategy(<<a>>, max)
           s == ByEffectiveness(<<a>>)
<1>1. <<a>> \in Seq(Legs) /\ <<a>> \in Seq({a}) /\ Len(<<a>>) = 1
  OBVIOUS
<1>2. s \in Seq({a}) /\ s \in Seq(Legs) /\ Len(s) = 1
  BY <1>1, SortedType
<1>0. s = ByEffectiveness(<<a>>) /\ as = OptimizeHedgingStrategy(<<a>>, max)
  OBVIOUS
<1> HIDE DEF as, s
<1>3. PICK n \in 0 .. Len(s), rest \in Nat : CutAt(<<a>>, max, s, n, rest)
  BY <1>0, <1>1, Optimized
<1>4. s[1] = a
  <2>1. 1 \in 1 .. Len(s)
    BY <1>2
  <2>2. s[1] \in {a}
    BY <1>2, <2>1, ElementOfSeq
  <2> QED
    BY <2>2
<1>5. CASE as = s
  <2>1. s = <<a>>
    <3> DEFINE one == <<a>>
    <3>1. DOMAIN s = 1 .. 1 /\ DOMAIN one = 1 .. 1 /\ one[1] = a
      BY <1>2, LenProperties
    <3>2. \A i \in 1 .. 1 : s[i] = one[i]
      BY <1>4, <3>1
    <3>3. one \in Seq(Legs) /\ Len(one) = 1
      BY <1>1
    <3> HIDE DEF one
    <3>4. s = one
      BY <1>2, <3>2, <3>3, SeqEqual
    <3> QED
      BY <3>4 DEF one
  <2> QED
    BY <1>5, <2>1 DEF as
<1>6. CASE n < 1 /\ Cost(s[n + 1]) > rest /\ as = SubSeq(s, 1, n) \o ScaledDown(s[n + 1], rest)
  <2>1. n = 0 /\ n + 1 = 1
    BY <1>2, <1>6
  <2>2. SubSeq(s, 1, 0) = <<>>
    <3>1. 1 \in Int /\ 0 \in Int /\ 0 < 1
      OBVIOUS
    <3> QED
      BY <3>1, SubSeqEmpty
  <2>3. Cost(a) > rest /\ as = <<>> \o ScaledDown(a, rest)
    BY <1>4, <1>6, <2>1, <2>2
  <2>4. Cost(a) > 0
    BY <2>3, CostType
  <2>5. CASE ScaledDown(a, rest) = <<>>
    <3>1. as = <<>>
      BY <2>3, <2>5
    <3> QED
      BY <3>1 DEF as
  <2>6. CASE \E x \in Legs : /\ ScaledDown(a, rest) = <<x>> /\ rest > 0
                             /\ x.quantity = Lots(a.quantity * rest, Cost(a))
    <3>1. PICK x \in Legs : /\ ScaledDown(a, rest) = <<x>> /\ rest > 0
                            /\ x.quantity = Lots(a.quantity * rest, Cost(a))
      BY <2>6
    <3> DEFINE z == <<x>>
    <3>2. z \in Seq(Legs)
      OBVIOUS
    <3>3. as = <<>> \o z
      BY <2>3, <3>1
    <3> HIDE DEF z
    <3>4. as = z
      BY <3>2, <3>3, ConcatEmptySeq
    <3>5. as = <<x>> /\ 0 < rest /\ rest < Cost(a)
      BY <2>3, <3>1, <3>4, CostType DEF z
    <3> QED
      BY <3>1, <3>5 DEF as
  <2> QED
    BY <2>4, <2>5, <2>6, ScaledCost
<1> QED
  BY <1>0, <1>2, <1>3, <1>5, <1>6 DEF CutAt

-----------------------------------------------------------------------------
(* The strategies.                                                          *)

LEMMA NonZeroType ==
    ASSUME NEW a \in Legs
    PROVE  NonZero(a) \in Seq(Legs) /\ (NonZero(a) = <<>> \/ NonZero(a) = <<a>>)
<1>1. <<a>> \in Seq(Legs) /\ <<>> \in Seq(Legs)
  OBVIOUS
<1> QED
  BY <1>1 DEF NonZero

\* A delta hedge is at most one action, in as many lots as there is delta.
LEMMA DeltaHedge ==
    ASSUME NEW g \in Exposures, NEW md \in Markets
    PROVE  /\ generateDeltaHedge(g, md) \in Seq(Legs)
           /\ \/ generateDeltaHedge(g, md) = <<>>
              \/ \E a \in Legs : generateDeltaHedge(g, md) = <<a>> /\ a.quantity = Lots(-g.delta, 1)
<1> DEFINE d == g.delta  l == Lots(-d, 1)  p == md["SPY"]  a == Action("SPY", l, p, d)
<1>1. d \in Int /\ -d \in Int
  BY HedgingAssumption
<1>2. l \in Int
  <2>1. 1 \in Int \ {0}
    OBVIOUS
  <2> HIDE DEF d
  <2> QED
    BY <1>1, <2>1, LotsType
<1>3. generateDeltaHedge(g, md) = IF d = 0 \/ "SPY" \notin DOMAIN md THEN <<>> ELSE NonZero(a)
  BY DEF generateDeltaHedge
<1>4. <<>> \in Seq(Legs)
  OBVIOUS
<1>5. CASE "SPY" \notin DOMAIN md
  BY <1>3, <1>4, <1>5
<1>6. CASE "SPY" \in DOMAIN md
  <2>1. p \in Nat \ {0}
    BY <1>6, HedgingAssumption
  <2> HIDE DEF p, l, d
  <2>2. a \in Legs /\ a.quantity = l
    BY <1>1, <1>2, <2>1 DEF Action, Legs
  <2> HIDE DEF a
  <2>3. NonZero(a) \in Seq(Legs) /\ (NonZero(a) = <<>> \/ NonZero(a) = <<a>>)
    BY <2>2, NonZeroType
  <2>4. /\ generateDeltaHedge(g, md) \in Seq(Legs)
        /\ generateDeltaHedge(g, md) = <<>> \/ generateDeltaHedge(g, md) = <<a>>
    BY <1>3, <1>4, <2>3
  <2> QED
    BY <2>2, <2>4 DEF l, d
<1> QED
  BY <1>5, <1>6

LEMMA TwoParts ==
    ASSUME NEW a, NEW b, a \in Seq(Legs), b \in Seq(Legs)
    PROVE  a \o b \in Seq(Legs)
BY ConcatProperties

LEMMA DeltaGammaHedge ==
    ASSUME NEW g \in Exposures, NEW md \in Markets, NEW opt \in OptionGreeks, NEW u
    PROVE  generateDeltaGammaHedge(g, md, u, opt) \in Seq(Legs)
<1> DEFINE det == opt.cd * opt.pg - opt.cg * opt.pd
           a1  == 100 * (opt.pg * g.delta - opt.pd * g.gamma)
           a2  == 100 * (opt.cd * g.gamma - opt.cg * g.delta)
           q1  == Lots(a1, det)
           q2  == Lots(a2, det)
           o1  == q1 * opt.cd
           o2  == q2 * opt.pd
           c   == Action("call", q1, 5, o1)
           p   == Action("put", q2, 5, o2)
<1>1. /\ opt.cd \in Int /\ opt.cg \in Int /\ opt.pd \in Int /\ opt.pg \in Int
      /\ g.delta \in Int /\ g.gamma \in Int
  BY HedgingAssumption
<1>2. det \in Int /\ a1 \in Int /\ a2 \in Int
  BY <1>1
<1>3. generateDeltaGammaHedge(g, md, u, opt) =
        IF (g.delta = 0 /\ g.gamma = 0) \/ u \notin DOMAIN md THEN <<>>
        ELSE IF det = 0 THEN generateDeltaHedge(g, md)
        ELSE NonZero(c) \o NonZero(p)
  BY DEF generateDeltaGammaHedge
<1>4. <<>> \in Seq(Legs) /\ generateDeltaHedge(g, md) \in Seq(Legs)
  BY DeltaHedge
<1>5. CASE det = 0
  BY <1>3, <1>4, <1>5
<1>6. CASE det # 0
  <2> HIDE DEF det, a1, a2
  <2>1. q1 \in Int /\ q2 \in Int
    BY <1>2, <1>6, LotsType
  <2> HIDE DEF q1, q2
  <2>2. o1 \in Int /\ o2 \in Int
    BY <1>1, <2>1
  <2> HIDE DEF o1, o2
  <2>3. c \in Legs /\ p \in Legs
    BY <2>1, <2>2 DEF Action, Legs
  <2> HIDE DEF c, p
  <2>4. NonZero(c) \o NonZero(p) \in Seq(Legs)
    BY <2>3, NonZeroType, TwoParts
  <2> HIDE DEF c, p
  <2> QED
    BY <1>3, <1>4, <2>4
<1> QED
  BY <1>5, <1>6

LEMMA LegType ==
    ASSUME NEW g \in Exposures, NEW md \in Markets, NEW symbol \in {"SPY", "QQQ", "TLT"}
    PROVE  Leg(symbol, g, md) \in Seq(Legs)
<1> DEFINE x == -10 * g.delta * Weight[symbol]  p == md[symbol]  q == Lots(x, p)
           a == Action(symbol, q, p, q)
<1>1. Leg(symbol, g, md) = IF symbol \notin DOMAIN md THEN <<>> ELSE NonZero(a)
  BY DEF Leg
<1>2. CASE symbol \notin DOMAIN md
  <2>1. <<>> \in Seq(Legs)
    OBVIOUS
  <2> QED
    BY <1>1, <1>2, <2>1
<1>3. CASE symbol \in DOMAIN md
  <2>1. p \in Nat \ {0}
    BY <1>3, HedgingAssumption
  <2>2. x \in Int
    <3>1. g.delta \in Int
      BY HedgingAssumption
    <3>2. Weight[symbol] \in Int
      BY DEF Weight
    <3> QED
      BY <3>1, <3>2
  <2> HIDE DEF x, p
  <2>3. q \in Int
    BY <2>1, <2>2, LotsType
  <2> HIDE DEF q
  <2>4. a \in Legs
    BY <2>1, <2>3 DEF Action, Legs
  <2> HIDE DEF a
  <2>5. NonZero(a) \in Seq(Legs)
    BY <2>4, NonZeroType
  <2> QED
    BY <1>1, <1>3, <2>5
<1> QED
  BY <1>2, <1>3

LEMMA StrategyType ==
    ASSUME NEW g \in Exposures, NEW md \in Markets, NEW opt \in OptionGreeks, NEW u, NEW type \in Types
    PROVE  GenerateHedgingStrategy(type, g, md, u, opt) \in Seq(Legs)
<1>1. CASE type = "delta"
  BY <1>1, DeltaHedge DEF GenerateHedgingStrategy
<1>2. CASE type = "delta-gamma"
  BY <1>2, DeltaGammaHedge DEF GenerateHedgingStrategy
<1>3. CASE type = "minimum-variance"
  <2>1. generateMinimumVarianceHedge(g, md) \in Seq(Legs)
    BY LegType, TwoParts DEF generateMinimumVarianceHedge
  <2> QED
    BY <1>3, <2>1 DEF GenerateHedgingStrategy
<1> QED
  BY <1>1, <1>2, <1>3 DEF Types

-----------------------------------------------------------------------------
(* What a delta hedge leaves of the delta.                                  *)

\* q is bought against a delta of d, and no more than twice of it
Against(d, q) == IF d > 0 THEN -2 * d <= q /\ q <= 0 ELSE 0 <= q /\ q <= -2 * d

LEMMA AgainstHelps ==
    ASSUME NEW d \in Int, NEW q \in Int, Against(d, q)
    PROVE  Abs(d + q) <= Abs(d)
<1> DEFINE e == d + q
<1>1. CASE d > 0
  <2>1. e \in Int /\ -d <= e /\ e <= d
    BY <1>1 DEF Against
  <2> HIDE DEF e
  <2>2. Abs(e) <= d /\ Abs(d) = d
    BY <1>1, <2>1 DEF Abs
  <2> QED
    BY <2>2 DEF e
<1>2. CASE ~(d > 0)
  <2>1. e \in Int /\ d <= e /\ e <= -d
    BY <1>2 DEF Against
  <2> HIDE DEF e
  <2>2. Abs(e) <= -d /\ Abs(d) = -d
    BY <1>2, <2>1 DEF Abs
  <2> QED
    BY <2>2 DEF e
<1> QED
  BY <1>1, <1>2

LEMMA WholeIsAgainst ==
    ASSUME NEW d \in Int
    PROVE  /\ Lots(-d, 1) \in Int /\ Against(d, Lots(-d, 1))
           /\ \E m \in Nat : Abs(Lots(-d, 1)) = 100 * m
<1> DEFINE e == -d  b == 1  q == Lots(e, b)
<1>1. e \in Int /\ b \in Nat \ {0} /\ b = 1
  OBVIOUS
<1> HIDE DEF e, b
<1>2. PICK n \in Nat : InLots(e, b, n)
  BY <1>1, LotsAre
<1> HIDE DEF q
<1>3. 200 * n <= 2 * Abs(e) + 100 /\ Abs(e) \in Nat
  BY <1>1, <1>2, AbsFacts DEF InLots
<1>4. n = 0 \/ Abs(e) >= 50
  BY <1>3
<1>5. 100 * n <= 2 * Abs(e)
  BY <1>3, <1>4
<1>6. q \in Int /\ Abs(q) = 100 * n /\ q = IF e < 0 THEN -(100 * n) ELSE 100 * n
  BY <1>2 DEF Abs, InLots, q
<1>7. Against(d, q)
  <2>1. CASE d > 0
    <3>1. Abs(e) = d /\ e < 0
      BY <2>1 DEF e, Abs
    <3> QED
      BY <1>5, <1>6, <2>1, <3>1 DEF Against
  <2>2. CASE ~(d > 0)
    <3>1. Abs(e) = -d /\ ~(e < 0)
      BY <2>2 DEF e, Abs
    <3> QED
      BY <1>5, <1>6, <2>2, <3>1 DEF Against
  <2> QED
    BY <2>1, <2>2
<1> QED
  BY <1>6, <1>7 DEF q, e, b

\* A part of an action is no more than the whole, and bought or sold as it is.
LEMMA PartIsLess ==
    ASSUME NEW q \in Int, NEW m \in Nat, Abs(q) = 100 * m, NEW c \in Nat \ {0},
           NEW rest \in Nat \ {0}, rest <= c
    PROVE  LET y == Lots(q * rest, c)
           IN  y \in Int /\ (IF q < 0 THEN q <= y /\ y <= 0 ELSE 0 <= y /\ y <= q)
<1> DEFINE x == q * rest  y == Lots(x, c)
<1>1. x \in Int /\ Abs(x) = Abs(q) * rest /\ (x < 0 <=> q < 0)
  <2>1. rest \in Nat /\ rest > 0
    OBVIOUS
  <2> QED
    BY <2>1, AbsProduct
<1> HIDE DEF x
<1>2. PICK n \in Nat : InLots(x, c, n)
  BY <1>1, LotsAre
<1> HIDE DEF y
<1>3. m * rest <= m * c
  <2>1. c - rest \in Nat /\ m * (c - rest) \in Nat
    OBVIOUS
  <2>2. m * (c - rest) = m * c - m * rest
    OBVIOUS
  <2> DEFINE i == m * rest  j == m * c
  <2>3. i \in Int /\ j \in Int /\ j - i \in Nat
    BY <2>1, <2>2
  <2> HIDE DEF i, j
  <2>4. i <= j
    BY <2>3
  <2> QED
    BY <2>4 DEF i, j
<1>4. 2 * n <= 2 * m + 1
  <2> DEFINE d == 100 * c
  <2>1. d \in Nat \ {0}
    OBVIOUS
  <2>2. 200 * c * n = d * (2 * n) /\ 200 * (m * c) + 100 * c = d * (2 * m + 1)
    OBVIOUS
  <2>3. 2 * Abs(x) = 200 * (m * rest)
    BY <1>1
  <2>4. d * (2 * n) <= d * (2 * m + 1)
    BY <1>2, <1>3, <2>2, <2>3 DEF InLots
  <2> HIDE DEF d
  <2> QED
    BY <2>1, <2>4, Cancels
<1>5. n <= m
  BY <1>4
<1>6. q = IF q < 0 THEN -(100 * m) ELSE 100 * m
  BY DEF Abs
<1>7. y \in Int /\ (IF q < 0 THEN q <= y /\ y <= 0 ELSE 0 <= y /\ y <= q)
  BY <1>1, <1>2, <1>5, <1>6 DEF InLots, y
<1> QED
  BY <1>7 DEF y, x

\* at most one action, against a delta of d
OneAgainst(d, as) == as = <<>> \/ \E x \in Legs : as = <<x>> /\ Against(d, x.quantity)

\* A delta hedge with a budget, or without.
LEMMA DeltaHedgeHelps ==
    ASSUME NEW g \in Exposures, NEW md \in Markets, NEW max \in Nat, NEW s, NEW as,
           s = generateDeltaHedge(g, md),
           as = s \/ (as = OptimizeHedgingStrategy(s, max) /\ TotalCost(s) > max)
    PROVE  OneAgainst(g.delta, as)
<1> DEFINE d == g.delta
<1>1. d \in Int
  BY HedgingAssumption
<1>2. CASE s = <<>>
  <2>1. <<>> \in Seq(Legs) /\ Len(<<>>) = 0
    BY EmptySeq
  <2>2. PICK u : Pays(u, <<>>)
    BY <2>1, PaymentsExist
  <2>3. TotalCost(<<>>) = u[Len(<<>>)] /\ u[0] = 0
    BY <2>1, <2>2, TotalCostIs DEF Pays
  <2>4. ~(TotalCost(s) > max)
    BY <1>2, <2>1, <2>3
  <2> QED
    BY <1>2, <2>4 DEF OneAgainst
<1>3. CASE \E a \in Legs : s = <<a>> /\ a.quantity = Lots(-d, 1)
  <2>1. PICK a \in Legs : s = <<a>> /\ a.quantity = Lots(-d, 1)
    BY <1>3
  <2> DEFINE q == a.quantity  c == Cost(a)
  <2> HIDE DEF d
  <2>2. PICK m \in Nat : Abs(q) = 100 * m
    BY <1>1, <2>1, WholeIsAgainst
  <2>3. q \in Int /\ Against(d, q)
    BY <1>1, <2>1, WholeIsAgainst
  <2>4. CASE as \in {<<a>>, <<>>}
    BY <2>3, <2>4 DEF d, OneAgainst
  <2>5. CASE as = OptimizeHedgingStrategy(s, max) /\ as \notin {<<a>>, <<>>}
    <3>1. as = OptimizeHedgingStrategy(<<a>>, max)
      BY <2>1, <2>5
    <3>2. PICK rest \in Nat, x \in Legs :
                 /\ as = <<x>>
                 /\ 0 < rest /\ rest < Cost(a)
                 /\ x.quantity = Lots(a.quantity * rest, Cost(a))
      BY <2>5, <3>1, OptimizedOne
    <3>3. c \in Nat \ {0} /\ rest \in Nat \ {0} /\ rest <= c
      BY <3>2, CostType
    <3> DEFINE y == x.quantity
    <3>4. y = Lots(q * rest, c)
      BY <3>2
    <3> HIDE DEF q, c, y
    <3>5. y \in Int /\ (IF q < 0 THEN q <= y /\ y <= 0 ELSE 0 <= y /\ y <= q)
      BY <2>2, <2>3, <3>3, <3>4, PartIsLess
    <3>6. Against(d, y)
      BY <1>1, <2>3, <3>5 DEF Against
    <3> QED
      BY <3>2, <3>6 DEF d, y, OneAgainst
  <2>6. as = s \/ as = OptimizeHedgingStrategy(s, max)
    OBVIOUS
  <2>7. as \in {<<a>>, <<>>} \/ as = OptimizeHedgingStrategy(s, max)
    BY <2>1, <2>6, Zenon
  <2> QED
    BY <2>4, <2>5, <2>7, Zenon
<1> QED
  BY <1>2, <1>3, DeltaHedge

-----------------------------------------------------------------------------
(* The requests.                                                            *)

Requests == [pc : {"answered", "placing"}, type : Types, max : Budgets, greeks : Exposures,
             whole : Seq(Legs), actions : Seq(Legs)]

Receipts == [ok : BOOLEAN,
             order : [instrument : {"SPY", "QQQ", "TLT", "call", "put"},
                      side : {"Buy", "Sell"}, quantity : Nat]]

\* The strategy of a request is in its budget, and that of a delta hedge is at
\* most one action against the delta; the orders placed are the first of its
\* actions, or were refused.
Answered(r) ==
    /\ r.max > 0 => InBudget(r.actions, r.max)
    /\ r.type = "delta" => OneAgainst(r.greeks.delta, r.actions)

PlacedFor(as, orders) ==
    /\ orders \in Seq(Receipts) /\ Len(orders) <= Len(as)
    /\ \A i \in 1 .. Len(orders) : Bought(orders[i]) \in {0, as[i].quantity}

HedgeInv ==
    \/ request = NoRequest /\ placed = <<>>
    \/ /\ request \in Requests /\ Answered(request) /\ PlacedFor(request.actions, placed)
       /\ request.pc = "answered" => placed = <<>>

LEMMA NonePlaced == ASSUME NEW as \in Seq(Legs) PROVE PlacedFor(as, <<>>)
<1> DEFINE e == <<>>
<1>1. e \in Seq(Receipts) /\ Len(e) = 0 /\ Len(as) \in Nat
  BY EmptySeq, LenProperties, Zenon
<1> DEFINE l == Len(as)
<1>2. l \in Nat /\ Len(e) = 0
  BY <1>1
<1> HIDE DEF e, l
<1>3. 0 <= l /\ \A i \in 1 .. 0 : FALSE
  BY <1>2
<1>4. PlacedFor(as, e)
  BY <1>1, <1>2, <1>3 DEF PlacedFor, l
<1> QED
  BY <1>4 DEF e

LEMMA AnswerKeeps ==
    ASSUME NEW id \in IDs, NEW type \in Types, NEW max \in Budgets, HedgeInv,
           GenerateHedgingStrategyHandler(id, type, max)
    PROVE  HedgeInv'
<1>1. PICK g \in Exposures, md \in Markets, main_ \in Underlyings, opt \in OptionGreeks :
        LET strategy == GenerateHedgingStrategy(type, g, md, main_, opt) IN
        /\ request.pc = "idle"
        /\ request' = [pc |-> "answered", type |-> type, max |-> max, greeks |-> g,
                       whole |-> strategy,
                       actions |-> IF max > 0 /\ TotalCost(strategy) > max
                                   THEN OptimizeHedgingStrategy(strategy, max) ELSE strategy]
        /\ UNCHANGED placed
  BY DEF GenerateHedgingStrategyHandler
<1> DEFINE s == GenerateHedgingStrategy(type, g, md, main_, opt)
           as == IF max > 0 /\ TotalCost(s) > max THEN OptimizeHedgingStrategy(s, max) ELSE s
<1>2. s \in Seq(Legs) /\ max \in Nat
  BY StrategyType, HedgingAssumption
<1>3. type = "delta" => s = generateDeltaHedge(g, md)
  BY DEF GenerateHedgingStrategy
<1>4. /\ request.pc = "idle" /\ placed' = placed
      /\ request' = [pc |-> "answered", type |-> type, max |-> max, greeks |-> g,
                     whole |-> s, actions |-> as]
  BY <1>1
<1> HIDE DEF s
<1>5. as = s \/ (as = OptimizeHedgingStrategy(s, max) /\ TotalCost(s) > max)
  BY Zenon
<1>6. as \in Seq(Legs) /\ (max > 0 => InBudget(as, max))
  <2>1. CASE max > 0 /\ TotalCost(s) > max
    <3>1. as = OptimizeHedgingStrategy(s, max)
      BY <2>1
    <3> QED
      BY <1>2, <3>1, OptimizedCost
  <2>2. CASE ~(max > 0)
    BY <1>2, <2>2
  <2>3. CASE max > 0 /\ ~(TotalCost(s) > max)
    <3>1. TotalCost(s) <= max
      BY <1>2, <2>3, TotalCostType
    <3>2. as = s
      BY <2>3
    <3> QED
      BY <1>2, <3>1, <3>2, PaidWhole
  <2> QED
    BY <2>1, <2>2, <2>3
<1> HIDE DEF as
<1>7. type = "delta" => OneAgainst(g.delta, as)
  BY <1>2, <1>3, <1>5, DeltaHedgeHelps
<1>8. placed = <<>>
  BY <1>4 DEF HedgeInv, Requests
<1> DEFINE r == [pc |-> "answered", type |-> type, max |-> max, greeks |-> g,
                 whole |-> s, actions |-> as]
<1>9. /\ r \in Requests /\ r.type = type /\ r.max = max /\ r.greeks = g /\ r.actions = as
      /\ request' = r
  BY <1>2, <1>4, <1>6 DEF Requests
<1> HIDE DEF r
<1>10. Answered(r)
  BY <1>6, <1>7, <1>9 DEF Answered
<1>11. PlacedFor(r.actions, <<>>)
  BY <1>6, <1>9, NonePlaced
<1>12. HedgeInv' <=>
         \/ r = NoRequest /\ placed' = <<>>
         \/ /\ r \in Requests /\ Answered(r) /\ PlacedFor(r.actions, placed')
            /\ r.pc = "answered" => placed' = <<>>
  BY <1>9 DEF HedgeInv
<1> QED
  BY <1>4, <1>8, <1>9, <1>10, <1>11, <1>12

LEMMA ReceiptType ==
    ASSUME NEW a \in Legs, NEW ok \in BOOLEAN
    PROVE  LET r == [ok |-> ok, order |-> ImplementHedgingStrategy(a)]
           IN  r \in Receipts /\ Bought(r) \in {0, a.quantity}
<1> DEFINE q == a.quantity  o == ImplementHedgingStrategy(a)  r == [ok |-> ok, order |-> o]
<1>1. q \in Int /\ a.instrument \in {"SPY", "QQQ", "TLT", "call", "put"}
  BY DEF Legs
<1>2. /\ o.instrument = a.instrument /\ o.side = IF q > 0 THEN "Buy" ELSE "Sell"
      /\ o.quantity = Abs(q)
  BY DEF ImplementHedgingStrategy
<1>3. o \in [instrument : {"SPY", "QQQ", "TLT", "call", "put"}, side : {"Buy", "Sell"}, quantity : Nat]
  BY <1>1, AbsFacts DEF ImplementHedgingStrategy
<1> HIDE DEF q, o
<1>4. r \in Receipts /\ r.ok = ok /\ r.order = o
  BY <1>3 DEF Receipts
<1> HIDE DEF r
<1>5. Bought(r) = IF ~ok THEN 0 ELSE IF q > 0 THEN Abs(q) ELSE -Abs(q)
  <2>1. CASE q > 0
    BY <1>2, <1>4, <2>1 DEF Bought
  <2>2. CASE ~(q > 0)
    <3>1. o.side # "Buy"
      BY <1>2, <2>2
    <3> QED
      BY <1>2, <1>4, <2>2, <3>1 DEF Bought
  <2> QED
    BY <2>1, <2>2
<1>6. (q > 0 => Abs(q) = q) /\ (~(q > 0) => -Abs(q) = q)
  BY <1>1 DEF Abs
<1>7. Bought(r) \in {0, q}
  BY <1>5, <1>6
<1> QED
  BY <1>4, <1>7 DEF q, r, o

LEMMA OrderKeeps ==
    ASSUME HedgeInv, PlaceOrder
    PROVE  HedgeInv'
<1> DEFINE as == request.actions  n == Len(placed)
<1>1. request.pc = "placing" /\ n < Len(as) /\ UNCHANGED request
  BY DEF PlaceOrder
<1>2. PICK ok \in BOOLEAN :
        placed' = Append(placed, [ok |-> ok, order |-> ImplementHedgingStrategy(as[n + 1])])
  BY DEF PlaceOrder
<1>3. request \in Requests /\ Answered(request) /\ PlacedFor(as, placed)
  BY <1>1 DEF HedgeInv, NoRequest
<1>4. as \in Seq(Legs) /\ Len(as) \in Nat
  <2>1. as \in Seq(Legs)
    BY <1>3 DEF Requests
  <2> HIDE DEF as
  <2> QED
    BY <2>1, LenProperties
<1>5. placed \in Seq(Receipts) /\ n \in Nat /\ \A i \in 1 .. n : Bought(placed[i]) \in {0, as[i].quantity}
  BY <1>3, LenProperties DEF PlacedFor
<1> HIDE DEF as, n
<1>6. n + 1 \in 1 .. Len(as) /\ n + 1 <= Len(as)
  <2> DEFINE l == Len(as)
  <2>1. l \in Nat /\ n \in Nat /\ n < l
    BY <1>1, <1>4, <1>5
  <2> HIDE DEF l
  <2>2. n + 1 \in 1 .. l /\ n + 1 <= l
    BY <2>1
  <2> QED
    BY <2>2 DEF l
<1> DEFINE a == as[n + 1]  r == [ok |-> ok, order |-> ImplementHedgingStrategy(a)]
<1>7. a \in Legs
  BY <1>4, <1>6, ElementOfSeq
<1> HIDE DEF a
<1>8. r \in Receipts /\ Bought(r) \in {0, a.quantity}
  BY <1>7, ReceiptType
<1>9. placed' = Append(placed, r)
  BY <1>2 DEF a
<1> HIDE DEF r
<1> DEFINE p == Append(placed, r)
<1>10. /\ p \in Seq(Receipts) /\ Len(p) = n + 1
       /\ \A i \in 1 .. n : p[i] = placed[i]
       /\ p[n + 1] = r
  BY <1>5, <1>8, AppendProperties DEF n
<1> HIDE DEF p
<1>11. \A i \in 1 .. n + 1 : Bought(p[i]) \in {0, as[i].quantity}
  <2>1. \A i \in 1 .. n + 1 : i \in 1 .. n \/ i = n + 1
    BY <1>5
  <2> QED
    BY <1>5, <1>8, <1>10, <2>1 DEF a
<1>12. PlacedFor(as, p)
  BY <1>6, <1>10, <1>11 DEF PlacedFor
<1>13. placed' = p
  BY <1>9 DEF p
<1> QED
  BY <1>1, <1>3, <1>12, <1>13 DEF HedgeInv, as

LEMMA OthersKeep ==
    ASSUME HedgeInv, CreateHedgingStrategyHandler \/ Answer \/ UNCHANGED hedgeVars
    PROVE  HedgeInv'
<1>1. CASE UNCHANGED hedgeVars
  BY <1>1 DEF HedgeInv, hedgeVars
<1>2. CASE Answer
  BY <1>2 DEF HedgeInv, Answer
<1>3. CASE CreateHedgingStrategyHandler
  <2>1. request.pc = "answered" /\ placed' = placed
    BY <1>3 DEF CreateHedgingStrategyHandler
  <2>2. /\ request \in Requests /\ Answered(request) /\ PlacedFor(request.actions, placed)
        /\ placed = <<>>
    BY <2>1 DEF HedgeInv, NoRequest
  <2>3. CASE request.actions = <<>>
    <3>1. request' = NoRequest
      BY <1>3, <2>3 DEF CreateHedgingStrategyHandler
    <3> QED
      BY <2>1, <2>2, <3>1 DEF HedgeInv
  <2>4. CASE request.actions # <<>>
    <3> DEFINE r == [request EXCEPT !.pc = "placing"]
    <3>1. request' = r
      BY <1>3, <2>4 DEF CreateHedgingStrategyHandler
    <3>2. /\ r \in Requests /\ r.pc = "placing" /\ r.type = request.type /\ r.max = request.max
          /\ r.greeks = request.greeks /\ r.actions = request.actions
      BY <2>2 DEF Requests
    <3> HIDE DEF r
    <3>3. Answered(r) /\ PlacedFor(r.actions, placed)
      BY <2>2, <3>2 DEF Answered
    <3> QED
      BY <2>1, <3>1, <3>2, <3>3 DEF HedgeInv
  <2> QED
    BY <2>3, <2>4
<1> QED
  BY <1>1, <1>2, <1>3

\* What the orders of a delta hedge add up to: nothing, or its one action.
LEMMA BoughtInAll ==
    ASSUME NEW as, NEW orders, PlacedFor(as, orders),
           as = <<>> \/ \E x \in Legs : as = <<x>>
    PROVE  LET all == Sum([i \in DOMAIN orders |-> Bought(orders[i])])
           IN  all = 0 \/ \E x \in Legs : as = <<x>> /\ all = x.quantity
<1> DEFINE n == Len(orders)  s == [i \in DOMAIN orders |-> Bought(orders[i])]
<1>1. /\ orders \in Seq(Receipts) /\ n \in Nat /\ DOMAIN orders = 1 .. n /\ n <= Len(as)
      /\ \A i \in 1 .. n : Bought(orders[i]) \in {0, as[i].quantity}
  BY LenProperties DEF PlacedFor
<1> HIDE DEF n
<1>2. as = <<>> \/ \E x \in Legs : Len(as) = 1 /\ as[1] = x /\ as = <<x>>
  <2>1. \A x \in Legs : Len(<<x>>) = 1 /\ <<x>>[1] = x
    OBVIOUS
  <2> QED
    BY <2>1
<1> DEFINE l == Len(as)
<1>3. (as = <<>> => l = 0) /\ (as # <<>> => l = 1) /\ n <= l
  BY <1>1, <1>2, EmptySeq
<1> HIDE DEF l
<1>4. n = 0 \/ (n = 1 /\ as # <<>>)
  <2>1. n \in Nat
    BY <1>1
  <2>2. CASE as = <<>>
    <3>1. l = 0 /\ n <= l
      BY <1>3, <2>2
    <3>2. n = 0
      BY <2>1, <3>1
    <3> QED
      BY <3>2
  <2>3. CASE as # <<>>
    <3>1. l = 1 /\ n <= l
      BY <1>3, <2>3
    <3>2. n = 0 \/ n = 1
      BY <2>1, <3>1
    <3> QED
      BY <2>3, <3>2
  <2> QED
    BY <2>2, <2>3
<1>5. \A i \in 1 .. n : Bought(orders[i]) \in Int
  <2> SUFFICES ASSUME NEW i \in 1 .. n PROVE Bought(orders[i]) \in Int
    OBVIOUS
  <2> DEFINE r == orders[i]
  <2>1. r \in Receipts
    BY <1>1, ElementOfSeq DEF n
  <2> HIDE DEF r
  <2>2. r.order.quantity \in Nat
    BY <2>1 DEF Receipts
  <2>3. Bought(r) \in Int
    BY <2>2 DEF Bought
  <2> QED
    BY <2>3, Zenon DEF r
<1>6. s \in [1 .. n -> Int] /\ \A i \in 1 .. n : s[i] = Bought(orders[i])
  BY <1>1, <1>5
<1>7. SUFFICES Sum(s) = 0 \/ \E x \in Legs : as = <<x>> /\ Sum(s) = x.quantity
  OBVIOUS
<1> HIDE DEF s
<1>8. s \in Seq(Int) /\ DOMAIN s = 1 .. n
  BY <1>1, <1>6, SeqDef
<1>9. Len(s) = n
  BY <1>1, <1>8, LenProperties
<1>10. PICK u \in [0 .. n -> Int] : AddsUp(u, s)
  BY <1>8, <1>9, TotalsExist
<1>11. Sum(s) = u[n] /\ u[0] = 0
  BY <1>8, <1>9, <1>10, SumIs DEF AddsUp
<1>12. CASE n = 0
  BY <1>11, <1>12
<1>13. CASE n = 1
  <2>1. as # <<>>
    <3>1. n # 0
      BY <1>13
    <3> QED
      BY <1>4, <3>1, Zenon
  <2>2. PICK x \in Legs : Len(as) = 1 /\ as[1] = x /\ as = <<x>>
    BY <1>2, <2>1
  <2>3. u[1] = u[0] + s[1] /\ s[1] \in Int
    <3>1. 1 \in 1 .. n /\ 1 - 1 = 0
      BY <1>13
    <3> QED
      BY <1>6, <1>9, <1>10, <3>1 DEF AddsUp
  <2>4. s[1] \in {0, x.quantity}
    <3>1. 1 \in 1 .. n
      BY <1>13
    <3> QED
      BY <1>1, <1>6, <2>2, <3>1
  <2>5. Sum(s) = s[1]
    BY <1>11, <1>13, <2>3
  <2> QED
    BY <2>2, <2>4, <2>5
<1> QED
  BY <1>12, <1>13, <1>4

LEMMA HedgeInvHelps == HedgeInv => HedgeHelps
<1> SUFFICES ASSUME HedgeInv, request.pc # "idle" PROVE HedgeHelps
  BY DEF HedgeHelps
<1>1. request \in Requests /\ Answered(request) /\ PlacedFor(request.actions, placed)
  BY DEF HedgeInv, NoRequest
<1> DEFINE as == request.actions  d == request.greeks.delta
           all == Sum([i \in DOMAIN placed |-> Bought(placed[i])])
<1>2. request.max > 0 /\ as # <<>> => TotalCost(as) <= request.max + 50 * as[Len(as)].price
  BY <1>1 DEF Answered, InBudget
<1>3. d \in Int
  <2>1. request.greeks \in Exposures
    BY <1>1 DEF Requests
  <2> QED
    BY <2>1, HedgingAssumption
<1>4. ASSUME request.type = "delta" PROVE Abs(d + all) <= Abs(d)
  <2>1. as = <<>> \/ \E x \in Legs : as = <<x>> /\ Against(d, x.quantity)
    BY <1>1, <1>4 DEF Answered, OneAgainst
  <2>2. all = 0 \/ \E x \in Legs : as = <<x>> /\ all = x.quantity
    BY <1>1, <2>1, BoughtInAll
  <2> HIDE DEF as, all, d
  <2>3. CASE all = 0
    BY <1>3, <2>3, AbsFacts
  <2>4. CASE \E x \in Legs : as = <<x>> /\ all = x.quantity
    <3>1. PICK x \in Legs : as = <<x>> /\ all = x.quantity
      BY <2>4
    <3>2. PICK y \in Legs : as = <<y>> /\ Against(d, y.quantity)
      BY <2>1, <3>1
    <3>3. x = y
      <4>1. <<x>>[1] = x /\ <<y>>[1] = y /\ <<x>> = <<y>>
        BY <3>1, <3>2
      <4> QED
        BY <4>1
    <3>4. all \in Int /\ Against(d, all)
      BY <3>1, <3>2, <3>3 DEF Legs
    <3> QED
      BY <1>3, <3>4, AgainstHelps
  <2> QED
    BY <2>2, <2>3, <2>4
<1> QED
  BY <1>2, <1>4 DEF HedgeHelps

\* A hedge, of any portfolio at any prices, costs no more than its budget and
\* half a lot; and a delta hedge, whole or cut down, placed in full or in part,
\* never leaves more delta than there was: the rounding to lots goes against it
\* by at most twice of it, and what is cut down is no larger than the whole
\* (hedging.go:151-155, 461-497, 526-532; handlers.go:352-402).
THEOREM HedgesHelp == Spec => []HedgeHelps
<1>1. Init => HedgeInv
  BY DEF Init, HedgeInit, HedgeInv
<1>2. ASSUME HedgeInv, [Next]_vars PROVE HedgeInv'
  <2>1. CASE EngineStep \/ UNCHANGED vars
    <3>1. UNCHANGED hedgeVars
      BY <2>1 DEF EngineStep, vars, hedgeVars
    <3> QED
      BY <1>2, <3>1, OthersKeep
  <2>2. CASE HedgeStep
    <3>1. ASSUME NEW id \in IDs, NEW type \in Types, NEW max \in Budgets,
                 GenerateHedgingStrategyHandler(id, type, max)
          PROVE  HedgeInv'
      BY <1>2, <3>1, AnswerKeeps
    <3>2. CASE CreateHedgingStrategyHandler \/ Answer
      BY <1>2, <3>2, OthersKeep
    <3>3. CASE PlaceOrder
      BY <1>2, <3>3, OrderKeeps
    <3> QED
      BY <2>2, <3>1, <3>2, <3>3 DEF HedgeStep, HedgeNext
  <2> QED
    BY <1>2, <2>1, <2>2 DEF Next
<1> QED
  BY <1>1, <1>2, HedgeInvHelps, PTL DEF Spec
=============================================================================

---------------------------- MODULE MCRiskService ----------------------------
EXTENDS RiskService

CONSTANTS a, b, x, y, z

TwoIDs == {a, b}
ThreeSymbols == {x, y, z}
KnownSymbols == {x, z}

Position(s, size, value) == [symbol |-> s, size |-> size, value |-> value]

\* a symbol twice; one without data; nothing but a short position
Versions == {
    [id |-> a, positions |-> <<Position(x, 1, 2), Position(x, 2, 1)>>],
    [id |-> a, positions |-> <<Position(y, 1, 1), Position(x, 3, 3), Position(z, 1, 1)>>],
    [id |-> b, positions |-> <<Position(z, -1, -2)>>]}

PortfolioGreeks == {[delta |-> d, gamma |-> c] : d \in {-460, -49, 0, 50, 260}, c \in {-3, 0}}

\* a pair that can be solved for, and one without gamma
Pairs == {[cd |-> 60, cg |-> 2, pd |-> -40, pg |-> 2],
          [cd |-> 50, cg |-> 0, pd |-> -50, pg |-> 0]}

AllQuoted == [SPY |-> 40, QQQ |-> 30, TLT |-> 9]
SomeQuoted == [QQQ |-> 7, TLT |-> 3]
TwoMarkets == {AllQuoted, SomeQuoted}

\* A request comes while the loops rest and one portfolio is stored: it changes
\* nothing the engine sees, and needs no more than a portfolio to be found.
Quiet == arrived = 1 /\ main = "running" /\ \A c \in Loops : Resting(c)
MCNext ==
    \/ request.pc = "idle" /\ EngineStep
    \/ Quiet /\ HedgeStep

MCSpec == Init /\ [][MCNext]_vars /\ Fairness
==============================================================================

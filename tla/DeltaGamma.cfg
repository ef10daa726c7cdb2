SPECIFICATION MCSpec
CONSTANTS
    a = a
    b = b
    x = x
    y = y
    z = z
    None = None
    IDs <- TwoIDs
    Portfolios <- Versions
    Callers = {"updates", "ticks"}
    Symbols <- ThreeSymbols
    History <- KnownSymbols
    WorkerCount = 2
    MaxUpdates = 3
    Exposures <- PortfolioGreeks
    OptionGreeks <- Pairs
    Markets <- TwoMarkets
    Underlyings = {"SPY", "QQQ"}
    Budgets = {0, 3000, 7000}
INVARIANTS SolvesTheSystem

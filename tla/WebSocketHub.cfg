SPECIFICATION FairSpec
CONSTANTS
    c1 = c1
    c2 = c2
    s1 = s1
    s2 = s2
    p1 = p1
    None = None
    Clients <- OneClient
    Symbols <- TwoSymbols
    Books <- OneSymbol
    Publishers <- OnePublisher
    BufferSize = 2
INVARIANTS TypeOK SubscriptionsAgree ClientsAreOpen PanicsOnlyAfterDrop
PROPERTIES HubReturns HandlersEnd
CHECK_DEADLOCK FALSE

SPECIFICATION FairSpec
CONSTANTS
    p1 = p1
    p2 = p2
    c1 = c1
    c2 = c2
    m1 = m1
    m2 = m2
    m3 = m3
    m4 = m4
    None = None
    Producers <- TwoProducers
    Consumers <- OneConsumer
    Messages <- ThreeMessages
    Strategies = {"DropOldest", "DropNewest", "Block", "Reject"}
    MaxQueueSize = 1
    HighWaterPct = 80
INVARIANTS LoadAccounts OneFate
PROPERTIES DeliveredUnlessBlock CallsReturn
CHECK_DEADLOCK FALSE

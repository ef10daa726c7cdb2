SPECIFICATION MCSpec
CONSTANTS
    a = a
    b = b
    None = None
    Keys <- TwoSymbols
    Partitions = {1, 2}
    PartitionOf <- APartitionEach
    BatchSize = 2
    QueueLimit = 2
    ChannelSize = 2
    MaxEvents = 3
INVARIANTS CommittedWereOffered
PROPERTIES EventsInOrder EventsArrive
CHECK_DEADLOCK FALSE

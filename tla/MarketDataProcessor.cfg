SPECIFICATION MCSpec
CONSTANTS
    share = share
    option = option
    s1 = s1
    s2 = s2
    id1 = id1
    c1 = c1
    c2 = c2
    None = None
    NoInfo = NoInfo
    NoName = NoName
    Symbols <- ShareAndOption
    Messages <- Documents
    BlankType = "TRADE"
    BookTypes = {"DEPTH", "QUOTE"}
    Requests <- Interests
    Subs <- TwoSubs
    Ids <- OneId
    Callers <- TwoCallers
    FeedCapacity = 1
    MaxUpdates = 3
INVARIANTS IndexIsExact
PROPERTIES ServedOrTold StopsEnd
CHECK_DEADLOCK FALSE

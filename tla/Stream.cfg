SPECIFICATION FairSpec
CONSTANTS
    t1 = t1
    t2 = t2
    Subscriptions = {t1, t2}
    Channels <- TickersOrBooks
    symbol <- SymbolOf
    cap = 2
    MaxSeq = 3
INVARIANTS
    NewestKept
    InOrderPerSubscription
PROPERTIES
    BufferDrains
    TasksEnd
CHECK_DEADLOCK FALSE

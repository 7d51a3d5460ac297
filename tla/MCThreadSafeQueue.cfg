CONSTANTS
    Threads = {t1, t2, t3}
    Item = {x, y}
    NoItem = NoItem
    MaxSize = 2
    Watched = t1
SPECIFICATION FairSpec
INVARIANTS TypeOK NoLostWakeup
PROPERTIES WatchedCloseReleases WatchedTryPopReturns ItemReachesConsumer ImplementsFifo

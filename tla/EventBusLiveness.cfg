CONSTANTS
    EventType = {t1}
    Handler = {h1, h2}
    Publisher = {p1}
    MaxHistory = 1
    MaxEvents = 2
    MaxThreads = 2
    MaxSubscriptions = 2
SPECIFICATION FairSpec
PROPERTIES EveryEventReachesItsSubscribers

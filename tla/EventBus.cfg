CONSTANTS
    EventType = {t1}
    Handler = {h1}
    Publisher = {p1, p2}
    MaxHistory = 1
    MaxEvents = 3
    MaxThreads = 2
    MaxSubscriptions = 1
SYMMETRY Symmetry
SPECIFICATION Spec
INVARIANTS TypeOK OneConsumer InOrder OnePlace HistoryBounded
PROPERTIES EventsOnlyMoveOn

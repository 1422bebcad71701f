CONSTANTS
    Tasks = {t1, t2, t3}
    Threads = {w1, w2}
    None = None
SPECIFICATION HistorySpec
INVARIANTS
    OneOwner
    NoLostNotification
    NoLostSignal
    NothingAbandoned
    StatementsInOrder
PROPERTIES
    ImplementsJobService

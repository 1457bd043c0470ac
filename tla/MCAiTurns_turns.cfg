SPECIFICATION FairSpec
CONSTANTS
    None = None
    MaxWorkers = 1
    MaxConcurrent = 1
    Calls = {t1, t2}
    Turns = {t1, t2}
    Threads = {h1}
    Streams = {s1}
    MaxThreads = 1
    MaxBoots = 1
INVARIANTS AnswersOwnQuestion ThreadsWhole
PROPERTIES TurnsSettleOnce TasksSettle StreamsEnd
CHECK_DEADLOCK FALSE

\* Three feeds, two worker slots, the periodic loop and one triggered sync.
SPECIFICATION PollerSpec
CONSTANTS
    Feed = {f1, f2, f3}
    Guid = {g1}
    NoDoc = NoDoc
    Fetcher = {w1, w2}
    NoFetcher = NoFetcher
    NoFeed = NoFeed
    MaxFailures = 1
    Worker = {w1, w2}
    MaxWorkers = 2
    Loop = loop
    Trigger = {t1}
    MaxPolls = 2
SYMMETRY WorkerSymmetry
INVARIANTS OneCycle WorkersInsideCycle NoDoubleFetch
PROPERTY SnapshotServed
CHECK_DEADLOCK FALSE

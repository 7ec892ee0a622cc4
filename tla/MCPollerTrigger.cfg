\* The comment of TriggerSync, against the code.
SPECIFICATION PollerSpec
CONSTANTS
    Feed = {f1, f2}
    Guid = {g1}
    NoDoc = NoDoc
    Fetcher = {w1, w2}
    NoFetcher = NoFetcher
    NoFeed = NoFeed
    MaxFailures = 1
    Worker = {w1, w2}
    MaxWorkers = 2
    Loop = loop
    Trigger = {t1}
    MaxPolls = 2
PROPERTY TriggerStartsSync
CHECK_DEADLOCK FALSE

\* One feed, one worker and an initial fetch of the same feed.
SPECIFICATION FairPollerSpec
CONSTANTS
    Feed = {f1}
    Guid = {g1}
    NoDoc = NoDoc
    Fetcher = {w1, i1}
    NoFetcher = NoFetcher
    NoFeed = NoFeed
    MaxFailures = 1
    Worker = {w1}
    MaxWorkers = 1
    Loop = loop
    Trigger = {t1}
    MaxPolls = 2
PROPERTIES FetchReturns CycleEnds ShutdownReached
CHECK_DEADLOCK FALSE

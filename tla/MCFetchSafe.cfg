\* Two goroutines, two feeds, documents over two guids.
\* Ids are finite here: once all are used and deleted nothing is left to do.
SPECIFICATION Spec
CONSTANTS
    Feed = {f1, f2}
    Guid = {g1, g2}
    NoDoc = NoDoc
    Fetcher = {w1, w2}
    NoFetcher = NoFetcher
    NoFeed = NoFeed
    MaxFailures = 1
SYMMETRY FetchSymmetry
INVARIANTS Inv BatchIsWhole
PROPERTY StoreRefined
CHECK_DEADLOCK FALSE

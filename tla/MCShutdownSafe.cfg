\* Three requests in flight when the signal comes, which may never answer; the
\* process ends.
SPECIFICATION FairSpec
CONSTANT Handler = {h1, h2, h3}
INVARIANTS LoopHasDb DrainedShutdownIsClean
PROPERTIES WaitIsFinal ShutdownCompletes
CHECK_DEADLOCK FALSE

CONSTANTS
    PairCount = 4
    Slugs = {1, 2, 3, 4}
    MaxWorkers = 2
    DryRun = FALSE
    MarkStale = TRUE
    Heartbeat = TRUE
SPECIFICATION Spec
INVARIANTS EverySiteAttempted

CONSTANTS
    a = a
    b = b
    None = None
    Instances = {a, b}
    SharedLock = TRUE
    Interval = 2
    Slack = 1
    MaxRun = 3
    Budget = 2
SPECIFICATION FairSpec
INVARIANTS TypeOK HealthIsEarned SteadyStaysHealthy LockCoversRun
PROPERTIES StopHonoured KeepsSyncing

CONSTANTS
    A = A
    B = B
    X = X
    sw = sw
    c = c
    None = None
    Sites <- OneSite
    Macs <- Both
    Ids = {1, 2, 3}
    Inventory = {}
    AdoptableAt <- AdoptedAtA
    ListedAt <- BothAtA
    UpdatePolicy = "sync"
    SyncUnifiDevices = TRUE
    MergeClientInfra = TRUE
    MatchOwnedMacs = TRUE
    Prefetch = FALSE
    InitialTables <- OneSiteTables
    Budget = 2
SPECIFICATION FairSpec
INVARIANTS TypeOK
PROPERTIES IdleStaysActive InfraNeverOffline MergedStaysMerged ActiveClientsRecorded GoneClientsGoOffline

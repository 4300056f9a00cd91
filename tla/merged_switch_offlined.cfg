CONSTANTS
    A = A
    B = B
    X = X
    sw = sw
    c = c
    None = None
    Sites <- OneSite
    Macs = {sw}
    Ids = {1, 2}
    Inventory = {}
    AdoptableAt <- AdoptedAtA
    ListedAt <- NoClients
    UpdatePolicy = "sync"
    SyncUnifiDevices = TRUE
    MergeClientInfra = TRUE
    MatchOwnedMacs = TRUE
    Prefetch = TRUE
    InitialTables <- LegacyTable
    Budget = 0
SPECIFICATION Spec
PROPERTIES InfraNeverOffline

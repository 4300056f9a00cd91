CONSTANTS
    A = A
    B = B
    X = X
    sw = sw
    c = c
    None = None
    Sites <- OneSite
    Macs <- Both
    Ids = {1, 2, 3}
    Inventory = {}
    AdoptableAt <- AdoptedAtA
    ListedAt <- ClientAtA
    UpdatePolicy = "create-only"
    SyncUnifiDevices = TRUE
    MergeClientInfra = TRUE
    MatchOwnedMacs = TRUE
    Prefetch = TRUE
    InitialTables <- OneSiteTables
    Budget = 2
SPECIFICATION Spec
PROPERTIES OneDevicePerMac OnlyTaggedWritten

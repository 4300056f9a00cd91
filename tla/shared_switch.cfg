CONSTANTS
    A = A
    B = B
    X = X
    sw = sw
    c = c
    None = None
    Sites <- ThreeSites
    Macs = {sw}
    Ids = {1, 2}
    Inventory = {X}
    AdoptableAt <- AdoptedAnywhere
    ListedAt <- NoClients
    UpdatePolicy = "sync"
    SyncUnifiDevices = TRUE
    MergeClientInfra = TRUE
    MatchOwnedMacs = TRUE
    Prefetch = FALSE
    InitialTables <- SharedSwitchTables
    Budget = 1
SPECIFICATION FairSpec
PROPERTIES OneDevicePerMac SettledHardwareStays RunsEnd AdoptedHardwareEstablished

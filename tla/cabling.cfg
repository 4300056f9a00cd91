CONSTANTS
    A = A
    B = B
    c = c
    d = d
    u = u
    w = w
    nc = nc
    nd = nd
    e0 = e0
    f = f
    p1 = p1
    p2 = p2
    pu = pu
    None = None
    Main = Main
    Sites = {A, B}
    Clients = {c, d}
    Uplinks = {u, w}
    Ends = {nc, nd, e0, f, p1, p2, pu}
    SiteOf <- SitesOf
    Nic <- NicOf
    MayPlug <- PortsOf
    UplinkPorts = {pu}
    Down <- DownAtF
    Up <- UpOf
    Eth0 <- LegacyU
    Box <- OneBox
    Rank <- MacOverName
    HandLinks <- ByHandAtP1
    InitialCables <- Tables
    Budget = 1
SPECIFICATION FairSpec
INVARIANTS TypeOK
PROPERTIES OnlyReplacedRemoved LinksCabled UncontestedSettles

CONSTANTS
    A = A
    B = B
    p = p
    q = q
    m = m
    x = x
    y = y
    None = None
    Sites = {A, B}
    Devices = {p, q, m}
    Addrs = {x, y}
    SiteOf <- TwoSiteDevices
    MayReport <- SharedAddress
    Prefetch = TRUE
    Budget = 1
SPECIFICATION FairSpec
PROPERTIES ManualPrimaryKept AddressSettles

CONSTANTS
    PairCount = 3
    s1 = s1
    s2 = s2
    s3 = s3
    sx = sx
    n1 = n1
    n2 = n2
    n3 = n3
    nx = nx
    k1 = k1
    k2 = k2
    k3 = k3
    Slugs = {s1, s2, s3, sx}
    Names = {n1, n2, n3, nx}
    Keys = {k1, k2, k3}
    MaxWorkers = 2
    DryRun = FALSE
    MarkStale = TRUE
    Heartbeat = TRUE
    SiteIds = {1, 2, 3}
    Fold <- FoldOf
    Desired <- SlugOf
    Label <- NameOf
    Title <- TitleOf
    Listed = {1, 2}
    Stranger = 9
    None = None
    SiteMatch = "normalized"
    InitialSites <- Tables
    Budget = 1
SPECIFICATION LinkedFairSpec
INVARIANTS SitesTypeOK NoWriterLeft NoSharedSite ValueOnOneSite LinksLast
PROPERTIES KeepsPromise ProcessEnds IdentityKept

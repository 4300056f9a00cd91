CONSTANTS
    A = A
    B = B
    Main = Main
    None = None
    field = field
    switch = switch
    maker = maker
    phone = phone
    onSite = onSite
    onDevice = onDevice
    Callers = {Main, A, B}
    Limit = 1
    ReadAttempts = 2
    RateRetries = 1
    Budget = 2
    Objects = {field, switch, maker, phone}
    Parent <- ParentOf
    Fields = {field}
    Needed <- NeededBy
    Extra = {onSite, onDevice}
    Hardware = {switch}
    Memoized = {switch, phone}
    Prerequisites <- First
    Wanted <- BothSites
    InitialObjects <- Tables
SPECIFICATION FairSpec
INVARIANTS TemplatesFirst
PROPERTIES WritesOnce RaceIsNoError SchemaComplete

CONSTANTS
    A = A
    B = B
    sw = sw
    ap = ap
    None = None
    Main = Main
    Unknown = Unknown
    Open = Open
    Texts <- AllTexts
    Families <- AllFamilies
    Family <- Prefix
    Slotted <- Slots
    Labelled <- Labels
    Bare = ""
    SfpLabels <- SfpTexts
    NonPhysical <- Unwired
    Numbers = {0, 1, 2, 3, 4}
    Sites = {A, B}
    Switches = {sw, ap}
    Adopts <- AdoptedBy
    Drops <- ClientsOf
    Links <- UplinkEnds
    Ports = {1, 2, 3, 4}
    Templates <- DefaultTemplates
    Cages <- CagesOf
    Uplinked <- MarkedOf
    OwnNames <- NoOwnNames
    Deployments <- Boxes
    Budget = 1
SPECIFICATION FairSpec
INVARIANTS TypeOK NeverWrongPort UplinksFound
PROPERTIES DropsFound

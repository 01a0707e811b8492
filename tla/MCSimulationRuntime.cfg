SPECIFICATION FairSpec
CONSTANTS
    o1 = o1
    o2 = o2
    p1 = p1
    p2 = p2
    w = w
    g = g
    None = None
    HostLocal = HostLocal
    Operations <- MCTwo
    Profiles <- MCProfiles
    Explicit <- MCExplicit
    Guests <- MCGuests
INVARIANTS
    TypeOK
    NotStartedLeftNothing
    SimulatesOnlyTested
    RunsOnlyVisibleInputs
    EvidenceIsComplete
    SettledIsClean
PROPERTIES
    CallsEnd
CONSTRAINT InOrder
CHECK_DEADLOCK FALSE

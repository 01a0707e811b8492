SPECIFICATION Spec
CONSTANTS
    o1 = o1
    o2 = o2
    p1 = p1
    p2 = p2
    w = w
    g = g
    None = None
    HostLocal = HostLocal
    Operations <- MCTwo
    Profiles <- MCOneProfile
    Explicit <- MCExplicit
    Guests <- MCGuests
INVARIANTS
    PassedRunIsMeasurable
CHECK_DEADLOCK FALSE

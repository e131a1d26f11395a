SPECIFICATION FairSpec
CONSTANTS
    Apps = {a1, a2, a3}
    Ports = {p1, p2}
    Resvs = {r1, r2, r3}
    Conns = {k1, k2}
    None = None
INVARIANTS
    TypeOK
    MapHasEveryReservation
    NoForwardAfterRelease
PROPERTIES
    ImplementsReservations
    ReleaseEnds

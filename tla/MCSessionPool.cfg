SPECIFICATION Spec
CONSTANTS
    c1 = c1
    c2 = c2
    c3 = c3
    va = va
    vb = vb
    a1 = a1
    a2 = a2
    a3 = a3
    b1 = b1
    b2 = b2
    None = None
    Callers <- MCCallers
    Servers <- MCServers
    Sessions <- MCSessions
    ServerOf <- MCServerOf
    HostOf <- MCHostOf
SYMMETRY MCSymmetry
INVARIANTS
    TypeOK
    LeaseAccounting
    PooledIsOpen
    LeasedNeverClosed
PROPERTIES
    ImplementsLeases

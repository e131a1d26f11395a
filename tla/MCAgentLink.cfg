SPECIFICATION Spec
CONSTANTS
    Agents = {a1, a2}
    Codes = {c1, c2}
    Socks = {s1, s2}
    Reqs = {r1}
    GatewayFails = TRUE
    None = None
SYMMETRY MCSymmetry
INVARIANTS
    TypeOK
    RegistryIsCurrent
PROPERTIES
    TokenLostForReason

SPECIFICATION Spec
CONSTANTS
    Servers = {s1}
    Hosts = {h1, h2}
    Keys = {k1, k2}
    Flows = {f1, f2}
    None = None
SYMMETRY MCSymmetry
INVARIANTS
    TypeOK
    TrustIsConfirmed
    EditsSurvive
PROPERTIES
    SessionOnConfirmedKey

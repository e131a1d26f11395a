SPECIFICATION Spec
CONSTANTS
    Servers = {s1, s2}
    Inputs = {i1, i2}
    Kinds = {password, passphrase}
    Secrets = {v1, v2}
    None = None
SYMMETRY MCSymmetry
INVARIANTS
    TypeOK
    CredentialExists
    NoStraySecrets
PROPERTIES
    FailedStatementRestores

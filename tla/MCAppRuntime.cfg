SPECIFICATION Spec
CONSTANTS
    x = x
    y = y
    srv = srv
    px = px
    py = py
    None = None
    Apps <- MCApps
    Servers <- MCServers
    Sessions = {s1, s2, s3}
    Ports <- MCPorts
    ServerOf <- MCServerOf
    HostOf <- MCHostOf
    PortOf <- MCPortOf
    AutoStart <- MCRemote
    StopOnDisconnect <- MCRemote
    Editable = {y}
    Loops = {l1}
SYMMETRY MCSymmetry
INVARIANTS
    TypeOK
    PortHasOneOwner
    LeaseHasOneOwner
    ActiveSessionNotClosed
    HealthyIsBacked
    ProgressIsBacked

SPECIFICATION FairSpec
CONSTANTS
    x = x
    y = y
    srv = srv
    px = px
    py = py
    None = None
    Apps = {x}
    Servers <- MCServers
    Sessions = {s1, s2}
    Ports <- MCPorts
    ServerOf <- MCServerOf1
    HostOf <- MCHostOf
    PortOf <- MCPortOf1
    AutoStart <- MCRemote
    StopOnDisconnect <- MCRemote
    Editable = {x}
    Loops = {l1, l2}
INVARIANTS
    LossHasOneLoop
    PortIsOfItsRecord
PROPERTIES
    LoopsEnd
    ProgressEnds

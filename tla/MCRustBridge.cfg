SPECIFICATION Spec
CONSTANTS
    x = x
    y = y
    px = px
    py = py
    None = None
    Apps <- MCApps
    Ports <- MCPorts
    PortsOf <- MCPortsOf
    AutoStart <- MCX
    HttpApps <- MCX
    Reqs = {q1, q2}
    Tunnels = {t1, t2}
    Relays = {k1}
SYMMETRY MCSymmetry
INVARIANTS
    TypeOK
    TunnelHasOneOwner

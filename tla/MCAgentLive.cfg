SPECIFICATION FairSpec
CONSTANTS
    Agents = {a1}
    Codes = {c1}
    Socks = {s1, s2}
    Reqs = {r1}
    GatewayFails = FALSE
    None = None
PROPERTIES
    AgentReconnects

SPECIFICATION FairSpec
CONSTANTS
    c1 = c1  c2 = c2
    b1 = b1  b2 = b2
    a1 = a1  a2 = a2
    h1 = h1  h2 = h2  p1 = p1
    HostPorts = {h1, h2}  ContPorts = {p1}
    None = None  Nic = Nic  NoIp = NoIp
    Containers = {c1, c2}
    Bridges = {b1}
    BridgeOf <- AllOn1
    Ips = {a1, a2}
    Pool = {a1, a2}
    ManualIp <- OwnIps
    OnLink = {a1, a2}
    Ports <- NoPorts
    Detach = {}
    AutoRemove = {}
    Deletable = {}
    Faults <- NoGateway
    MayCrash = {}
    HostNic = FALSE
PROPERTIES
    GatewayEventually

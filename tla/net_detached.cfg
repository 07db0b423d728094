SPECIFICATION FairSpec
CONSTANTS
    c1 = c1  c2 = c2
    b1 = b1  b2 = b2
    a1 = a1  a2 = a2
    h1 = h1  h2 = h2  p1 = p1
    HostPorts = {h1, h2}  ContPorts = {p1}
    None = None  Nic = Nic  NoIp = NoIp
    Containers = {c1}
    Bridges = {b1}
    BridgeOf <- AllOn1
    Ips = {a1}
    Pool = {a1}
    ManualIp <- OwnIps
    OnLink = {a1}
    Ports <- SamePorts
    Detach = {c1}
    AutoRemove = {c1}
    Deletable = {}
    Faults <- NoFaults
    MayCrash = {}
    HostNic = FALSE
PROPERTIES
    DetachedCleanup

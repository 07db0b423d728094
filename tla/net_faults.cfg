SPECIFICATION Spec
CONSTANTS
    c1 = c1  c2 = c2
    b1 = b1  b2 = b2
    a1 = a1  a2 = a2
    h1 = h1  h2 = h2  p1 = p1
    HostPorts = {h1, h2}  ContPorts = {p1}
    None = None  Nic = Nic  NoIp = NoIp
    Containers = {c1, c2}
    Bridges = {b1, b2}
    BridgeOf <- SecondOn2
    Ips = {a1, a2}
    Pool = {a1}
    ManualIp <- SecondOffLink
    OnLink = {a1}
    Ports <- TwoPorts
    Detach = {c2}
    AutoRemove = {c1}
    Deletable = {b2}
    Faults <- FirstFaulty
    MayCrash = {c1}
    HostNic = FALSE
INVARIANTS
    TypeOK
    ConnectedWhenStarted
    OwnPeer
PROPERTIES
    ImplementsHandoff

SPECIFICATION Spec
CONSTANTS
    r1 = r1  r2 = r2  r3 = r3
    j1 = j1
    p1 = p1  p2 = p2
    Runs = {r1, r2, r3}
    Joiners = {j1}
    Host = Host
    Paths = {p1, p2}
    PathOf <- MCPathOf
    JoinAt <- MCJoinAt
    Types <- MCTypes
    MapsSelf = {r1}
    Faults <- MCFaults
    MayCrash = {r2}
INVARIANTS
    TypeOK
    PersistedForGood
    NothingLeftBehind
    JoinedPersisted
    HostnamesApart
    FullyMapped

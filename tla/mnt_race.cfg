SPECIFICATION Spec
CONSTANTS
    c1 = c1  c2 = c2  c3 = c3  c4 = c4
    m1 = m1  m2 = m2
    Containers = {c1, c2}
    Images = {m1, m2}
    ImageOf <- SameImage
    InImage <- Usual
    ReadOnly = {}
    Root = "/"
    Parent <- MCParent
    KernelDirs <- InSysfs
    Volumes <- NoVolumes
    Faults <- NoFaults
    MayDie = {}
INVARIANTS
    SetupSucceeds

SPECIFICATION Spec
CONSTANTS
    c1 = c1  c2 = c2  c3 = c3  c4 = c4
    m1 = m1  m2 = m2
    Containers = {c1, c2, c3, c4}
    Images = {m1, m2}
    ImageOf <- FourthAlone
    InImage <- Usual
    ReadOnly = {c3}
    Root = "/"
    Parent <- MCParent
    KernelDirs <- InSysfs
    Volumes <- SomeVolumes
    Faults <- ThirdFaulty
    MayDie = {c3}
SYMMETRY Alike
INVARIANTS
    TypeOK
    HostUntouched
    RootSwitched
    NoOldRootLeft
    AloneSucceeds
PROPERTIES
    ReadOnlyImage

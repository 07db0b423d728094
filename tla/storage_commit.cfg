SPECIFICATION Spec
CONSTANTS
    u1 = u1  u2 = u2
    c1 = c1  c2 = c2  c3 = c3
    base = base  app = app  new = new  src = src  tar = tar
    Users = {u1}
    Script <- CommitOnly
    Containers = {c1}
    Started = {c1}
    ImageOf <- MCImageOf
    Layers = {base, app, new}
    Sources = {src}
    Archives = {tar}
    Names = {"f", ".h"}
    Hidden = {".h"}
    Data = {1, 2}
    Written = {2}
    Whiteout = Whiteout  Absent = Absent
    Delivered <- MCDelivered
    Room = 2
    Faults <- NoFaults
PROPERTIES
    CommitKeepsChanges

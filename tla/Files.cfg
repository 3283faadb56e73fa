CONSTANTS
    Proc = {p1, p2}
    Snapshot = {s, t}
    Password = {first, second}
    First = first
    Ino = {i1, i2, i3, i4}
    MaxCommands = 3
    Empty = Empty
    Mixed = Mixed
    NL = NL
    None = None
SPECIFICATION Spec
SYMMETRY Symmetry
CHECK_DEADLOCK FALSE
INVARIANTS TypeOK KeyOpens SidecarKeeps LogVerifies

SPECIFICATION Spec
CONSTANTS
    Writer = {w1, w2}
    Pruner = {p1, p2}
    a = a
    b = b
    f = f
    Chunk = {a, b, f}
    FileContents <- DisjointFiles
    FpContents <- DisjointFingerprints
    MaxSeconds = 2
    Retention = FALSE
    Overlap = {"writers"}
    Faults = {"pruner", "delete"}
    NoRoot = NoRoot
    NoChunk = NoChunk
CHECK_DEADLOCK FALSE
SYMMETRY CommandSymmetry
PROPERTIES
    KeptStaysRestorable

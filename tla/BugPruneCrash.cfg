SPECIFICATION Spec
CONSTANTS
    Writer = {w1, w2}
    Pruner = {p1}
    a = a
    b = b
    f = f
    Chunk = {a, b, f}
    FileContents <- FullFiles
    FpContents <- DisjointFingerprints
    MaxSeconds = 2
    Retention = FALSE
    Overlap = {}
    Faults = {"pruner"}
    NoRoot = NoRoot
    NoChunk = NoChunk
CHECK_DEADLOCK FALSE
INVARIANTS
    SnapshotsRestorable

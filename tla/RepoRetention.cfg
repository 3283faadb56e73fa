SPECIFICATION Spec
CONSTANTS
    Writer = {w1, w2, w3}
    Pruner = {p1}
    a = a
    b = b
    f = f
    Chunk = {a, b, f}
    FileContents <- FullFiles
    FpContents <- SharedFingerprints
    MaxSeconds = 3
    Retention = TRUE
    Overlap = {}
    Faults = {"writer", "pruner", "delete"}
    NoRoot = NoRoot
    NoChunk = NoChunk
CHECK_DEADLOCK FALSE
SYMMETRY CommandSymmetry
INVARIANTS
    SnapshotsRestorable

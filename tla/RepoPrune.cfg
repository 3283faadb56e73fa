SPECIFICATION FairSpec
CONSTANTS
    Writer = {w1, w2}
    Pruner = {p1, p2}
    a = a
    b = b
    f = f
    Chunk = {a, b, f}
    FileContents <- DisjointFiles
    FpContents <- DisjointFingerprints
    MaxSeconds = 2
    Retention = FALSE
    Overlap = {"writers"}
    Faults = {}
    NoRoot = NoRoot
    NoChunk = NoChunk
CHECK_DEADLOCK FALSE
INVARIANTS TypeOK SnapshotsRestorable FingerprintsLoadable NothingLeaks
PROPERTIES DeletesOnlyUnused ImplementsStore PruneKeepsPromises

CONSTANTS
    here = here
    there = there
    c = c
    d = d
    Agent = {here, there}
    Chunk = {c, d}
    Local = {here}
    KeyOf <- MCKeyOf
    Sources <- MCSources
    StoreFails = TRUE
    Attempts = 3
    MaxJobs = 3
    MaxFaults = 1
    NoKey = NoKey
SPECIFICATION FairSpec
CHECK_DEADLOCK FALSE
INVARIANTS TypeOK LinkedStored
PROPERTIES RestoreExact JobsReturn

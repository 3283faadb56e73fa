CONSTANTS
    Agent = {a1, a2}
    Starters = {a2}
    Template = {daily, broken}
    Listed = {a1, a2}
    OneOff = {broken}
    InvalidCron = {broken}
    Spare = {j1, j2}
    Period = 1
    StaleAfter = 1
    MaxTime = 1
    MaxFaults = 1
    NoAgent = NoAgent
    NoJob = NoJob
SPECIFICATION FairSpec
CHECK_DEADLOCK FALSE
INVARIANTS TypeOK AtMostOnce RowTellsOutcome CronOnce
PROPERTIES NothingForgotten

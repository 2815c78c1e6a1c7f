SPECIFICATION LiveSpec
CONSTANTS
    Pools = {p1, p2}
    Capacity <- OnePerPool
    MasterVMSS = MasterVMSS
    LegacyMasters = {l1}
    NewMasters = {c1, c2}
    NewWorkers = {w1, w2}
    MaxFaults = 2
INVARIANTS
    TypeOK
    MastersFirst
    NoPoolMissed
PROPERTIES
    EnoughWorkers
    CleanupCompletes

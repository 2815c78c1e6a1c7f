\* Progress: the program shortened, everything that can hold a migration up kept.
SPECIFICATION LiveSpec
CONSTANTS
    Managers = {m1}
    Masters = {n1, n2}
    NoMaster = NoMaster
    Program <- ShortProgram
    Labelled <- AllLabelled
    Typed <- AzureTyped
    Versioned <- AzureVersioned
    VersionedFirst = {"Cluster"}
    Existing = {}
    Refused = {}
    MaxFaults = 1
    MaxNoise = 1
    MayOptOut = FALSE
PROPERTIES
    PrepareCompletes
    MastersDisabled
    ReferenceCompletes
    HandoverCompletes
    DeletionSettles
CHECK_DEADLOCK FALSE

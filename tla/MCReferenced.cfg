SPECIFICATION Spec
CONSTANTS
    Managers = {m1}
    Masters = {n1, n2}
    NoMaster = NoMaster
    Program <- AzureProgram
    Labelled <- AllLabelled
    Typed <- AzureTyped
    Versioned <- AzureVersioned
    VersionedFirst = {"Cluster"}
    Existing = {}
    Refused = {}
    MaxFaults = 0
    MaxNoise = 0
    MayOptOut = FALSE
INVARIANT ReferencedWhenHandedOver
CHECK_DEADLOCK FALSE

SPECIFICATION Spec
CONSTANTS
    Managers = {m1}
    Masters = {n1, n2}
    NoMaster = NoMaster
    Program <- AzureProgram
    Labelled <- AllLabelled
    Typed <- AzureTyped
    Versioned <- AzureVersioned
    VersionedFirst = {"Cluster"}
    Existing = {}
    Refused = {}
    MaxFaults = 1
    MaxNoise = 1
    MayOptOut = FALSE
INVARIANTS
    TypeOK
    HandoverAfterPrepare
    HandoverInOrder
    ReleasedInOrder
    NilSafe
    UntouchedBeforeOptIn
    AllOrNothing
PROPERTIES
    StrandedForever
    WithdrawnIsLeftAlone
    ImplementsHandover
CHECK_DEADLOCK FALSE

\* Every call that fails as the code stands (AWS!Refusals) taken as mended, and the
\* encryption secret as present: safety only, of more behaviours than the code has.
SPECIFICATION Spec
CONSTANTS
    Managers = {m1}
    Masters = {n1}
    NoMaster = NoMaster
    Program <- AWSProgram
    Labelled = {}
    Typed = {}
    Versioned = {}
    VersionedFirst = {"Cluster"}
    Existing <- EncryptionConfigMade
    Refused = {}
    MaxFaults = 1
    MaxNoise = 1
    MayOptOut = TRUE
INVARIANTS
    ReleasedInOrder
    ReleasedWhenReady
PROPERTIES
    WithdrawnIsLeftAlone
CHECK_DEADLOCK FALSE

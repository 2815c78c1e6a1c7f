\* The AWS pass as it stands, with nothing else failing.
SPECIFICATION LiveSpec
CONSTANTS
    Managers = {m1}
    Masters = {n1}
    NoMaster = NoMaster
    Program <- AWSProgram
    Labelled = {}
    Typed = {}
    Versioned = {}
    VersionedFirst = {"Cluster"}
    Existing = {}
    Refused <- AWSRefusals
    MaxFaults = 0
    MaxNoise = 0
    MayOptOut = FALSE
PROPERTY CASecretStored
CHECK_DEADLOCK FALSE

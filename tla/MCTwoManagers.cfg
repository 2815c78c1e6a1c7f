\* Two managers without leader election; one call may fail or one process end,
\* and one foreign write may come between.
SPECIFICATION Spec
CONSTANTS
    Managers = {m1, m2}
    Masters = {n1}
    NoMaster = NoMaster
    Program <- RaceProgram
    Labelled <- AllLabelled
    Typed <- AzureTyped
    Versioned <- AzureVersioned
    VersionedFirst = {"Cluster"}
    Existing = {}
    Refused = {}
    MaxFaults = 1
    MaxNoise = 1
    MayOptOut = FALSE
SYMMETRY ManagerSymmetry
INVARIANTS
    HandoverExclusive
    HandoverInOrder
PROPERTIES
    BarredForGood
    WithdrawnIsLeftAlone
CHECK_DEADLOCK FALSE

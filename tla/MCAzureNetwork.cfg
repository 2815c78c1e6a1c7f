SPECIFICATION Spec
CONSTANTS
    Networks <- EdgeNetworks
    Balancers <- SomeBalancers
    Layouts <- SomeLayouts
    MaxPasses = 4
INVARIANTS
    TypeOK
    UpdateHasNetwork
    OneSubnetOfAKind
    InjectedInNetwork
    MasterInItsSubnet
    BalancerUsable
PROPERTIES
    SettlesAtSecondPass
    FrontendsKept
CHECK_DEADLOCK FALSE

SPECIFICATION Spec
CONSTANTS
    Networks <- EdgeNetworks
    Balancers <- SomeBalancers
    Layouts <- SomeLayouts
    MaxPasses = 4
INVARIANT NoWorkerSubnetWithPools
CHECK_DEADLOCK FALSE

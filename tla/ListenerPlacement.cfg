SPECIFICATION Spec
CONSTANTS
    Host <- MCHost
    Wildcard <- MCWildcard
    WildcardOf <- MCWildcardOf
    GatewayHTTPSCapacity = 1
    ListenerSetCapacity = 2
    MaxListenerSet = 2
INVARIANTS
    TypeOK
    Partition
    CapacityRespected
    Sticky
    ReportedOnlyWhenFull
    FirstFitOnly
    AgreesWithPlan
PROPERTIES
    HonoursContract

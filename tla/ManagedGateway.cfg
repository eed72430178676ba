SPECIFICATION FairSpec
CONSTANTS
    Host <- MCHost
    Wildcard <- MCWildcard
    WildcardOf <- MCWildcardOf
    GatewayHTTPSCapacity = 1
    ListenerSetCapacity = 1
    MaxListenerSet = 2
    Source = {1, 2}
    Secret = {1, 2}
    LocalSecret = {}
    Fingerprint = {1, 2}
    Declarations <- MCDeclarations
    Infos <- MCInfos
    Overflow = TRUE
    MaxEdits = 2
    MaxFailures = 1
    MaxRestarts = 1
INVARIANTS
    TypeOK
    GatewayGranted
    PlannedSetsGranted
    QuietIsCurrent
    QuietIsApplied
PROPERTIES
    Converges
    NeverRemovesWanted
    RestartKeepsPlaces

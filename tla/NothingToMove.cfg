SPECIFICATION Spec
CONSTANTS
    Host <- SmallHost
    Wildcard <- MCWildcard
    WildcardOf <- SmallWildcardOf
    GatewayHTTPSCapacity = 2
    ListenerSetCapacity = 1
    MaxListenerSet = 4
    Source = {1, 2, 3}
    Secret = {1, 2, 3}
    LocalSecret = {}
    Fingerprint = {1, 2}
    Declarations <- SmallDeclarations
    Infos <- SmallInfos
INVARIANTS
    NothingToMove

SPECIFICATION Spec
CONSTANTS
    Host <- MCHost
    Wildcard <- MCWildcard
    WildcardOf <- MCWildcardOf
    GatewayHTTPSCapacity = 2
    ListenerSetCapacity = 1
    MaxListenerSet = 3
    Source = {1, 2, 3}
    Secret = {1, 2, 3}
    LocalSecret = {3}
    Fingerprint = {1, 2, 3}
    Declarations <- MCDeclarations
    Infos <- MCInfos
PROPERTIES
    ChangedIsComplete

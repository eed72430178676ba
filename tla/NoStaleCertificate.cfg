SPECIFICATION Spec
CONSTANTS
    Host <- MCHost
    Wildcard <- MCWildcard
    WildcardOf <- MCWildcardOf
    GatewayHTTPSCapacity = 1
    ListenerSetCapacity = 1
    MaxListenerSet = 2
    Source = {1, 2}
    Secret = {1, 2}
    LocalSecret = {}
    Fingerprint = {1, 2}
    Declarations <- MCDeclarations
    Infos <- MCInfos
    Overflow = TRUE
    MaxEdits = 3
    MaxFailures = 0
    MaxRestarts = 0
INVARIANTS
    NoStaleCertificate
